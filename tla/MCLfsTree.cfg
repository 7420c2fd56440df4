CONSTANTS
  Blocks = {0, 1, 2, 3, 4, 5, 6, 7, 8, 9, 10, 11}
  Names = {1, 2, 3, 4}
  PairMax = 3
  InitTrees <- SmallTrees
  Calls <- SmallCalls
  MaxCalls = 2
  MaxRelocations = 4
  MaxCrashes = 1
  MaxDepth = 2
  EdgeRepairs = FALSE
  EdgeMoves = FALSE
  EdgeNoSpace = FALSE
SPECIFICATION MCSpec
INVARIANTS
  TreeInv
PROPERTIES
  Implements
  CallsReturn
CHECK_DEADLOCK FALSE
