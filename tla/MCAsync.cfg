SPECIFICATION MCSpec
CONSTANTS
  Task = {t1, t2, t3}
  Lock = {db_lock, lock2}
  InitHeld = {db_lock}
  EventSource = TRUE
  MaxSleep = 2
  MaxLate = 1
  MaxDepth = 2
  NoTask = NoTask
  NoLock = NoLock
SYMMETRY TaskSymmetry
INVARIANTS
  EveryStackInOnePlace
  MutualExclusion
  LockAccounted
  ExitStrandsOnlyParked
PROPERTIES
  ImplementsCoroutines
CHECK_DEADLOCK FALSE
