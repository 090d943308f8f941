SPECIFICATION FairSpec
CONSTANTS
  NoId = NoId
  HeartBeat = 1
  Wrap = 16
  Id = {a}
  MaxDevices = 2
  MaxTime = 3
PROPERTIES
  WatchedSilentTimesOut
  HeartbeatCompletes
  ShutdownCompletes
