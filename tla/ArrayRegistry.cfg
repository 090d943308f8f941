SPECIFICATION FairSpec
CONSTANTS
  Thread = {t1, t2}
  Id = {a, b}
  NoId = NoId
  Ops = {"put", "putI", "get", "getId", "getAlive", "getAll"}
  InitialSize = 1
  AllocFails = FALSE
  MaxLen = 2
PROPERTIES
  RegistrySpec
  HolderProgresses
  CallsReturn
