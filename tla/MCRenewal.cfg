SPECIFICATION FairRenewalSpec
CONSTANTS
  MaxTimes = 3
  MaxAttestation = 4
  MaxClient = 1
  ZeroKey = ZeroKey
  Uninitialised = Uninitialised
CHECK_DEADLOCK FALSE
INVARIANTS
  RenewalTypeOK
  SameSecrets
  KeyOfSession
PROPERTIES
  RenewalEnds
