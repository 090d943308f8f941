SPECIFICATION Spec
CONSTANTS
  Plant = {p, q}
  NoPlant = NoPlant
  NoId = NoId
  Id <- CutToZero
  Width = 2
  Duplicates = TRUE
  MaxPackets = 2
  MaxGiven = 2
  MaxRestarts = 1
SYMMETRY PlantSymmetry
INVARIANTS
  TypeOK
  NoGhosts
  ReadingsAreOwn
  OnlyNamelessCrash
