SPECIFICATION Spec
CONSTANTS
  Res <- MCRes
  Grain = 1
  Room <- MCRoom
  StartStock <- MCStartStock
  DaysPerMonth = 2
  DaysPerYear = 2
  SeedNorm <- MCSeedNorm
  SettledSnow = 1
  FirstDue = 3
  Dues = {1, 2}
  MetPercent = 99
  SnowPercent = 50
  ToTrial = 2
  Lots <- MCLots
  Places = 1
  BasePoints = 1
  MetPoints = 1
  CarryPercent = 33
  DeliveryDays = {1}
  MarkupPercent = 25
  Kept = {0, 1}
  Lives <- MCLives
INVARIANTS
  GramsKept
  OnceAYear
PROPERTIES
  SeedStays
CHECK_DEADLOCK FALSE
