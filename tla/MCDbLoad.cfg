CONSTANTS
  task1 = task1
  task2 = task2
  Clients <- mc_Clients
  Loader = task1
  Base = 10
  MaxFd = 1
  MaxPos = 3
  Nothing = Nothing
  Ops <- mc_Ops
  Disks <- mc_Disks
  Contents <- mc_Contents
  Encoding <- mc_Encoding
  Dot = 3
  StampLen = 2
  PreviewMax = 5
SPECIFICATION MCSpec
INVARIANTS
  FilesAndLoadInv
PROPERTIES
  ImplementsFileService
  LoadsDatabase
CHECK_DEADLOCK FALSE
