SPECIFICATION FairSpec
CONSTANTS
  Plant = {p, q}
  NoPlant = NoPlant
  NoId = NoId
  Id <- WholeIds
  Width = 2
  Duplicates = FALSE
  MaxPackets = 2
  MaxGiven = 2
  MaxRestarts = 0
PROPERTIES
  OwnPump
