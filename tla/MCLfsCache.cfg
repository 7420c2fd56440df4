CONSTANTS
  BlockCount = 2
  BlockSize = 4
  CacheSize = 2
  ReadSize = 1
  ProgSize = 2
  Erased = 255
  Validated = {0}
  BadBlocks = {0}
  Unreadable = {0}
  Unknown = 254
  ClientReads = {3}
  ClientProgs = {1, 3}
  Hints = {1, 4}
SPECIFICATION Spec
INVARIANTS
  CacheInv
PROPERTIES
  NeverReprogrammed
CHECK_DEADLOCK FALSE
