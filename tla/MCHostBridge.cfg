SPECIFICATION BridgeSpec
CONSTANTS
  encoder_reader = encoder_reader
  display = display
  file = file
  Writer = writer
  Reader = reader
  Task = {writer, reader, encoder_reader, display, file}
  Lock = {}
  InitHeld = {}
  EventSource = TRUE
  MaxSleep = 1
  MaxLate = 0
  MaxDepth = 2
  NoTask = NoTask
  NoLock = NoLock
  NoNode = NoNode
  PtrLen = 1
  SndBuf = 2
  Arg <- MCArg
  Ret <- MCRet
INVARIANTS
  StreamIsRequests
  BridgeInv
PROPERTIES
  NoWakeupOverwritten
  ImplementsAsync
  ImplementsHostRpc
  CallsReturn
