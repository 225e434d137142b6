SPECIFICATION Spec
CONSTANTS
  Loads <- MCLoads
  Heap = {"heap"}
  Site = {"site"}
  Dose = {"dose"}
  DefaultLevel <- MCDefaultLevel
  Carters = {1, 2}
  Reach <- MCReach
  MaxChainLoads = 3
  AgeBackgroundDays = 1
  AgeOrdinaryDays = 1
  Sunrise = 2
  Sunset = 5
  LastHour = 5
  Estimates <- MCEstimates
  Cap = 1
  FirstLoads <- MCFirstLoads
  LastDay = 3
  Lives <- MCLives
INVARIANTS
  TasksBindLoads
  PlanHeeds
  WaitingRises
PROPERTIES
  ReplanGoesOn
CHECK_DEADLOCK FALSE
