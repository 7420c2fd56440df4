SPECIFICATION MCSpec
CONSTANTS
  Columns = 3
  TextRows = 2
  GlyphLines = 2
  AddressBits = 8
  Picture <- MCPicture
  Glyph <- MCGlyph
  Bound = 1
  SendLen = 60
  FifoDepth = 8
  Watched = 20
  MaxLatency = 2
  MaxLow = 1000
INVARIANTS
  FramingIntact
  DriverInv
PROPERTIES
  ImplementsTextGrid
  DrawingsAreSent
