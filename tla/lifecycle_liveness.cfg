SPECIFICATION FairLifecycleSpec
CONSTANTS
  Pid = {p1}
  Event = {e1}
  NoEvent = NoEvent
  Faults <- PoolFault
  EntryFails = TRUE
  MaxStarts = 2
  MaxTerminators = 1
PROPERTY
  UnloadCompletes
  LoadedIsDriver
\* A monitor that was never constructed is not cleaned up in the model.
CHECK_DEADLOCK FALSE
