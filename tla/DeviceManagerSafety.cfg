SPECIFICATION Spec
CONSTANTS
  NoId = NoId
  HeartBeat = 1
  Wrap = 16
  Id = {a, b}
  MaxDevices = 2
  MaxTime = 4
SYMMETRY IdSymmetry
INVARIANTS
  TypeOK
  JoinSafe
  FreedWindow
  StatusTruth
PROPERTIES
  TimeoutJustified
  ShutdownProgresses
  DeviceSetSpec
