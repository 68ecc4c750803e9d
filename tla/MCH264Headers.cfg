SPECIFICATION Spec
CONSTANTS
  Streams <- MCStreams
  Garbage <- MCGarbage
INVARIANTS
  TypeOK
  SpsRecovered
  SliceRecovered
  NoGarbageRead
  UnreadFieldsUnused
CHECK_DEADLOCK FALSE
