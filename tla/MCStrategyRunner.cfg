SPECIFICATION FairStrategySpec
CONSTANTS
  b1 = b1
  b2 = b2
  Pages <- AllPages
  Bound = Bound
  Route = Route
  None = None
INVARIANTS
  CompletionIsExact
  PageShowsNewestEdits
  EditsAreRendered
PROPERTIES
  OwedUntilARefreshRuns
  EventuallyAtRest
CHECK_DEADLOCK FALSE
