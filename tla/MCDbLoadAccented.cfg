CONSTANTS
  task1 = task1
  task2 = task2
  Clients = {task1}
  Loader = task1
  Base = 10
  MaxFd = 1
  MaxPos = 0
  Nothing = Nothing
  Ops <- mc_Ops
  Disks = {}
  Contents <- mc_Accented
  Encoding <- mc_Encoding
  Dot = 3
  StampLen = 2
  PreviewMax = 5
SPECIFICATION MCSpec
INVARIANT ReadsAreWhole
CHECK_DEADLOCK FALSE
