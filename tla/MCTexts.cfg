SPECIFICATION MCSpec
CONSTANTS
  Number <- MCNumber
  MaxContacts = 4
  NoResult = NoResult
  Columns = 50
  Rows = 30
  Lists <- MCLists
INVARIANTS
  ProbesInside
  AnswersRight
  LayoutRight
PROPERTIES
  Halving
CHECK_DEADLOCK FALSE
