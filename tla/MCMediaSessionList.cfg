SPECIFICATION Spec
CONSTANTS
  Conns = {c1, c2, c3}
  Objs = {o1, o2, o3}
  NULL = NULL
  MaxCounter = 5
  StrictClock = TRUE
INVARIANTS
  TypeOK
  NoDanglingSession
  SessionFound
  ListConsistent
  NoSessionLeak
PROPERTY ServiceSpec
CHECK_DEADLOCK FALSE
