SPECIFICATION Spec
CONSTANTS
  Streams = {s1}
  Block = 2
  FileSize = 205
  MaxBlocks = 120
INVARIANTS
  TypeOK
  SoleStreamInOrder
  SoleStreamComplete
PROPERTY EndIsFinal
CHECK_DEADLOCK FALSE
