SPECIFICATION Spec
CONSTANTS
  Id = {a, b}
  NoId = NoId
  Value = {41}
  Junk <- JunkNumbers
  DbFails = TRUE
  MaxTime = 2
INVARIANTS
  TypeOK
  OwnRows
  ControlBounded
PROPERTIES
  WedgeIsPermanent
