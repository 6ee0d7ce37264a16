SPECIFICATION FairSpec
CONSTANTS
  one = one
  two = two
  Calls = {one, two}
  Earlier = Earlier
  None = None
  Limit = 2
  Worlds <- MCWorlds
INVARIANTS
  AnswersAreEarned
  VerdictIsTheCMSs
PROPERTIES
  LessonStays
  EveryRequestIsAnswered
CHECK_DEADLOCK FALSE
