SPECIFICATION FairSpec
CONSTANTS
  NoId = NoId
  HeartBeat = 1
  Wrap = 16
  Id = {a}
  MaxDevices = 1
  MaxTime = 5
PROPERTIES
  SilentDeviceTimesOut
