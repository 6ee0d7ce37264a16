CONSTANTS
  Calls <- Elements
  Signals <- TwoBatches
  SignalOf <- ElementSignals
  BoundaryOf <- ElementBoundaries
  RevisionOf <- SameRevision
  PlaceOf <- InOrder
  Limit = 1
SPECIFICATION FairSpec
INVARIANTS
  SharesRightly
PROPERTIES
  PassesTheGate
  NothingLateIsShown
  EveryElementEnds
CHECK_DEADLOCK FALSE
