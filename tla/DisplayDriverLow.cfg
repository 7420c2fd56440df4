SPECIFICATION DriverSpec
CONSTANTS
  SendLen = 60
  FifoDepth = 8
  Watched = 20
  MaxLatency = 2
  MaxLow = 1000
PROPERTIES
  LowLongEnough
