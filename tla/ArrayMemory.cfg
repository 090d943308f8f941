SPECIFICATION Spec
CONSTANTS
  Thread = {t1, t2}
  Id = {a}
  NoId = NoId
  Ops = {"put", "getId", "getAlive", "getAll", "get"}
  InitialSize = 1
  AllocFails = TRUE
  MaxLen = 3
INVARIANTS
  TypeOK
  InBounds
