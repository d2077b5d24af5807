SPECIFICATION MCFairSpec
CONSTANTS
  Pid = {p1, p2}
  Event = {e1}
  NoEvent = NoEvent
  Faults <- NoThreadFault
  MaxStarts = 1
  MaxTerminators = 1
INVARIANT
  VerdictNotInherited
PROPERTIES
  SuspendedResumes
  DeniedEnds
