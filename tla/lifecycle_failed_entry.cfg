SPECIFICATION LifecycleSpec
CONSTANTS
  Pid = {p1}
  Event = {e1}
  NoEvent = NoEvent
  Faults <- NoFault
  EntryFails = TRUE
  MaxStarts = 2
  MaxTerminators = 1
INVARIANT
  CleanupIsSafe
