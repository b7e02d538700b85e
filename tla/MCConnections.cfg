SPECIFICATION FairSpec
CONSTANTS
  Client = {c1, c2}
  MaxRun = 2
  MaxKill = 1
  FdLimit = 5
  None = None
CHECK_DEADLOCK FALSE
INVARIANTS
  TypeOK
  TakesPairs
PROPERTIES
  EveryoneServed
