SPECIFICATION DisplaySpec
CONSTANTS
  Islands <- TwoIslands
  Hydrating <- SecondHydrates
  MaxRevisions = 2
  MaxSaves = 1
  HasRoute = TRUE
INVARIANTS
  DoneIsReported
  IslandsAreServed
CHECK_DEADLOCK FALSE
