SPECIFICATION Spec
CONSTANTS
  FirstBlocks <- FirstWindow
  Blocks <- Windows
  Limit = 5
  MarkMod = 256
  LongNals = FALSE
  MaxBlocks = 3
  Lsbs = {0, 2}
  SqsMod = 4
PROPERTY ParameterSetsNotSent
CHECK_DEADLOCK FALSE
