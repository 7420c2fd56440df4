SPECIFICATION UiSpec
CONSTANTS
  Load = load
  Button = button
  Encoders = {e1, e2}
  Loaders = {l1, l2}
  Task <- MCTask
  db_lock = db_lock
  Lock = {db_lock}
  InitHeld = {db_lock}
  EventSource = TRUE
  MaxSleep = 1
  MaxLate = 0
  MaxDepth = 3
  NoTask = NoTask
  NoLock = NoLock
  LongSleep = 1
  ShortSleep = 0
  Turn <- MCTurn
  MaxInputs = 4
INVARIANTS
  UiInv
  ShowsTop
  OneEncoderChain
PROPERTIES
  InputsGetThrough
