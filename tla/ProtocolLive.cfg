SPECIFICATION FairSpec
CONSTANTS
  Plant = {p}
  NoPlant = NoPlant
  NoId = NoId
  Id <- CutToOther
  Width = 3
  Duplicates = FALSE
  MaxPackets = 2
  MaxGiven = 2
  MaxRestarts = 1
PROPERTIES
  ServerKeepsToDeviceSet
  PlantIsAlive
