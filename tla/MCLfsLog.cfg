CONSTANTS
  Blocks = {0, 1, 2, 3, 4, 5}
  Units = 3
  RevCount = 8
  BlockCycles = 2
  BadBlocks = {5}
  ValueCount = 3
  AppendSizes = {1, 2}
  CompactSizes = {1, 2}
  InitRevs = {6}
  TornRevs = {1, 4}
  MaxCommits = 3
  MaxCrashes = 2
  MaxAge = 0
  EdgeParent = FALSE
SPECIFICATION MCSpec
INVARIANTS
  LogInv
PROPERTIES
  Implements
CHECK_DEADLOCK FALSE
