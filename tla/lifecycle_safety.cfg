SPECIFICATION LifecycleSpec
CONSTANTS
  Pid = {p1, p2}
  Event = {e1}
  NoEvent = NoEvent
  Faults <- NameFault
  EntryFails = FALSE
  MaxStarts = 1
  MaxTerminators = 1
SYMMETRY PidSymmetry
INVARIANTS
  LifecycleTypeOK
  RunningIsRecorded
  MonitorOutlivesUsers
  SuspendedIsListed
