SPECIFICATION FairSpec
CONSTANTS
  Conns = {c1, c2}
  Objs = {o1, o2}
  NULL = NULL
  MaxCounter = 2
  StrictClock = TRUE
  None = None
  Methods <- StreamMethods
  Polite = TRUE
  Splits = FALSE
  ZeroedHeap = FALSE
  ChunkUnits = 2
  Cuts <- OneCut
  SqsMod = 2
  MaxRequests = 3
  MaxRtcp = 0
  Block = 2
  FileSize = 5
  MaxBlocks = 9
INVARIANTS
  StreamsHaveSessions
  BlocksOfTheFile
  OnlyKnownCrashes
PROPERTY InterruptStops
CHECK_DEADLOCK FALSE
