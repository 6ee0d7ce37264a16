SPECIFICATION Spec
CONSTANTS
  Title = Title
  Body = Body
  Venue = Venue
  a = a
  b = b
  None = None
  MaxRevision = 3
  Pages <- BothPages
  Values <- MCValues
INVARIANTS
  PageShowsNewestValues
  AnswersAreKept
  RevisionsAreAccountedFor
PROPERTIES
  ReferencesStayPopulated
  CancelledNeverWrites
SYMMETRY ValuesAlike
CHECK_DEADLOCK FALSE
