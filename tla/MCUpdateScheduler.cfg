SPECIFICATION FairSpec
CONSTANTS
  Heading = Heading
  Anchor = Anchor
  a = a
  b = b
  Elements <- MCElements
  Anchors <- MCAnchors
  Values <- MCValues
  NoEntry = NoEntry
  Gate = TRUE
  Debounce = 2
  MaxWait = 3
  FrameFallback = 2
  MaxRevision = 2
INVARIANTS
  NoLostWrite
  ClosedIsQuiet
PROPERTIES
  OnlyTheOwnerWrites
  EventuallyFlushed
CHECK_DEADLOCK FALSE
