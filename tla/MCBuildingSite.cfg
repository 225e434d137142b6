SPECIFICATION Spec
CONSTANTS
  Units <- MCUnits
  Place <- MCPlace
  Res <- MCRes
  Part = 2
  Straw = 3
  PitRes = 1
  Types <- MCTypes
  NoType = "none"
  Starts <- MCStarts
  Endowment <- MCEndowment
  FloorDays = 2
  MaxWear = 2
  Careful = TRUE
INVARIANTS
  GramsKept
  SitesHold
PROPERTIES
  FloorHolds
