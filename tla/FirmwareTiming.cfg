SPECIFICATION Spec
CONSTANTS
  W = 5
  HeartbeatTime = 2
  MaxPass = 1
  Duration = {2}
  Second = 2
  Timeout = 1
  Wrap = 6
  Overrun = 1
  MaxDelay = 1
INVARIANTS
  TypeOK
  PumpOffInTime
  HeartbeatGap
  DetectionBound
PROPERTIES
  PumpRunsOut
  FalseTimeoutInMargin
