SPECIFICATION MCSessionSpec
CONSTANTS
  Pid = {self, p1, p2}
  Self = self
  ClientPointer = 8
  DriverPointer = 8
  Event = {e1, e2}
  NoEvent = NoEvent
  Faults <- LoadFaults
  MaxStarts = 2
  MaxTerminators = 1
INVARIANTS
  SessionTypeOK
  SelfNeverJudged
  StoppedMeansFree
  VerdictsTaken
  ListFits
  DialogHoldsOffStop
  StopIsSeen
PROPERTY
  DeniedAreCaught
