CONSTANTS
  mdirA = mdirA
  mdirB = mdirB
  dir1 = dir1
  dir2 = dir2
  dir3 = dir3
  Pairs <- TwoPairs
  Names = {1, 2, 3}
  AttrTypes = {"t"}
  Data = {"d"}
  StructKinds = {"ctz"}
  MaxEntries = 3
  MaxCommits = 4
  BlockCount = 14
  BlockSize = 32
  PtrSize = 4
  MaxSize = 240
  Writes = {1, 7, 60}
  LowestFirst = TRUE
SPECIFICATION MCSpec
SYMMETRY Alike
INVARIANTS
  TagsRight
  FilesRight
  ReadsRight
PROPERTIES
  SeekFinds
CHECK_DEADLOCK FALSE
