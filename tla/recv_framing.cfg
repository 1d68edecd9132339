SPECIFICATION FairSpec
CONSTANTS
  HeaderSize = 2
  MaxBodySize = 2
  MaxDeclared = 4
  BufferSize = 8
  MaxPackets = 4
INVARIANTS
  TypeOK
  FramedInOrder
  LeftOversAreNext
  OverrunNeedsLargeBody
PROPERTIES
  EveryPacketIsQueued
CHECK_DEADLOCK FALSE
