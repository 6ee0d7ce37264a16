SPECIFICATION FairSpec
CONSTANTS
  Admin = Admin
  Mirror = Mirror
  Foreign = Foreign
  Origins <- MCOrigins
  Allowed <- MCAllowed
  NoOrigin = NoOrigin
  NoUpdate = NoUpdate
  Validated = TRUE
  MaxEvents = 5
  MaxStack = 4
INVARIANTS
  DispatchIsSound
  ReplaysTheLastDocument
PROPERTIES
  LockedOriginOnly
  QueueDrains
CHECK_DEADLOCK FALSE
