SPECIFICATION FairSpec
CONSTANTS
  Pid = {p1, p2}
  BlackListTimeout = 3
  WaitTimeout = 7
  UnitsPerSecond = 10
  UnsignedRange = 128
INVARIANTS
  DialogTypeOK
  GivesUpOnlyAfterMishap
PROPERTY
  DialogCloses
