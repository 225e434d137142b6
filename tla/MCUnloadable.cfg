SPECIFICATION Spec
CONSTANTS
  Crop <- MCCrop
  None = None
  MonthsPerYear = 6
  DaysPerMonth = 1
  LastHour = 3
  November = 5
  FallowMonth = 1
  CutMonth = 1
  CutMonthEnd = 3
  SeasonLastDay = 5
  FirstCutDays = 2
  Parts = 2
  SeasonHay = 3
  FloorSoil = 1
  FullSoil = 4
  Recovery = 2
  PenaltyYears = 2
  StressCap = 2
  Hot = 2
  Summers <- MCSummers
  Norm = 2
  LateSpreadFree = TRUE
  SpringMonths = {1, 2}
  AutumnMonths = {3, 4}
  Weather <- MCWeather
  Lives <- MCLives
  Careful = FALSE
INVARIANTS
  RowLoads
CHECK_DEADLOCK FALSE
