SPECIFICATION FairSpec
CONSTANTS
  Conns = {c1}
  None = None
  Methods <- AllMethods
  Polite = TRUE
  Splits = TRUE
  ZeroedHeap = TRUE
  ChunkUnits = 2
  Cuts <- TwoCuts
  SqsMod = 4
  MaxRequests = 6
  MaxRtcp = 0
  Block = 1
  FileSize = 4
  MaxBlocks = 8
INVARIANTS
  TypeOK
PROPERTIES
  PlaysToTheEnd
  RequestsAnswered
CHECK_DEADLOCK FALSE
