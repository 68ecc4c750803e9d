SPECIFICATION Spec
CONSTANTS
  Conns = {c1}
  None = None
  Methods <- PlayerMethods
  Polite = FALSE
  Splits = TRUE
  ZeroedHeap = TRUE
  ChunkUnits = 2
  Cuts <- ThreeCuts
  SqsMod = 4
  MaxRequests = 4
  MaxRtcp = 2
  Block = 1
  FileSize = 3
  MaxBlocks = 8
INVARIANTS
  SendChainAlive
  OnePacketInOutput
  RepliesInOrder
  PacketsConsecutive
  NoPacketBeforePlay
CHECK_DEADLOCK FALSE
