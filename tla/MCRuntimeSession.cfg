CONSTANTS
  Instances <- ThreeInstances
  Hydrates = {1, 3}
  Timeout = 3
  ReadyRetries = 3
  ReadyMayThrow = FALSE
SPECIFICATION FairSpec
INVARIANTS
  OneOrderlySession
  TrustIsNotRenewed
PROPERTIES
  EveryStartEnds
CHECK_DEADLOCK FALSE
