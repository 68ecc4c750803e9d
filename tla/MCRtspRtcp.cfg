SPECIFICATION Spec
CONSTANTS
  Conns = {c1}
  None = None
  Methods <- AllMethods
  Polite = TRUE
  Splits = FALSE
  ZeroedHeap = TRUE
  ChunkUnits = 2
  Cuts <- TwoCuts
  SqsMod = 4
  MaxRequests = 5
  MaxRtcp = 1
  Block = 1
  FileSize = 4
  MaxBlocks = 8
INVARIANT RequestHandled
CHECK_DEADLOCK FALSE
