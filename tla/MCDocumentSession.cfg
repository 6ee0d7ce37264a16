SPECIFICATION Spec
CONSTANTS
  Listeners = {1, 2}
  Messages <- AllMessages
  Documents <- AllDocuments
  HasDeadline = TRUE
  MaxMessages = 3
  MaxDepartures = 1
INVARIANTS
  SnapshotIsTrue
  OnlyTheNewestRuns
PROPERTIES
  ImplementsLatestWins
CHECK_DEADLOCK FALSE
