SPECIFICATION FairSpec
CONSTANTS
  Client = {c1}
  MaxRun = 4
  MaxProof = 2
  MaxFault = 2
  Nothing = Nothing
  Torn = Torn
CHECK_DEADLOCK FALSE
INVARIANTS
  TypeOK
  SessionKeysAgree
PROPERTIES
  DiesOnlyOvertaken
  RunsEnd
