SPECIFICATION Spec
CONSTANTS
  Pid = {p1, p2}
  Event = {e1}
  NoEvent = NoEvent
  Faults <- AllFaults
  MaxStarts = 3
  MaxTerminators = 1
SYMMETRY PidSymmetry
INVARIANTS
  TypeOK
  SuspendedIsListed
  SuspendedHasListener
  SuspendedIsAtGate
PROPERTIES
  GatedOnce
  KeepsPromise
