SPECIFICATION Spec
CONSTANTS
  FirstBlocks <- FirstWindow
  Blocks <- SliceWindows
  Limit = 5
  MarkMod = 256
  LongNals = FALSE
  MaxBlocks = 3
  Lsbs = {0, 2}
  SqsMod = 4
INVARIANTS
  TypeOK
  NoNullPointer
PROPERTIES
  PacketGrammar
  NalTypeKept
  TimestampKept
CHECK_DEADLOCK FALSE
