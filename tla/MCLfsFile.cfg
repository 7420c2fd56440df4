CONSTANTS
  BlockCount = 8
  BlockSize = 5
  PtrSize = 1
  Files = {file0}
  Values = {1}
  CacheSize = 5
  Lookahead = 3
  FileMax = 11
  InlineMax = 1
  MetaBlocks = {0, 1}
  BadBlocks = {5}
  InitSizes = {1, 7, 11}
  Opens <- MCOpens
  Reads = {1, 4}
  Writes = {1, 5}
  Seeks <- MCSeeks
  Truncates = {0, 5, 8}
  MaxCalls = 5
  MaxCrashes = 0
  EdgeSeeks = FALSE
  EdgeTruncates = FALSE
  EdgeFailures = FALSE
  EdgeOutlines = TRUE
  file1 = file1
  file2 = file2
SPECIFICATION MCSpec
INVARIANTS
  FilesIntact
  ActsAsArray
PROPERTIES
  BlocksAllocatedRight
SYMMETRY FilesAlike
CHECK_DEADLOCK FALSE
