SPECIFICATION RootSpec
CONSTANTS
  HeaderSize = 2
  MaxBodySize = 2
  MaxDeclared = 3
  BufferSize = 12
  MaxPackets = 2
INVARIANTS
  FramedInOrder
CHECK_DEADLOCK FALSE
