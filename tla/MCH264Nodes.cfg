SPECIFICATION Spec
CONSTANTS
  Blocks <- Windows
  Limit = 5
  MarkMod = 256
  LongNals = FALSE
  MaxBlocks = 3
INVARIANTS
  TypeOK
  NodeGrammar
  PayloadContiguous
  BlockUsedUp
CHECK_DEADLOCK FALSE
