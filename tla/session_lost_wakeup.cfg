SPECIFICATION MCSessionSpec
CONSTANTS
  Pid = {self, p1}
  Self = self
  ClientPointer = 8
  DriverPointer = 8
  Event = {e1, e2}
  NoEvent = NoEvent
  Faults <- NoFault
  MaxStarts = 2
  MaxTerminators = 1
INVARIANT
  SuspendedIsAnnounced
