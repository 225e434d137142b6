SPECIFICATION FastSpec
CONSTANTS
  Event <- SimEvents
  event_log_held_limit = 2
  MaxStream = 5
  MaxReader = 2
  MaxOutbox = 2
  kTicksPerDay = 3
  SunriseHour = 1
  SunsetHour = 2
  unbudgeted_step_limit = 2
  Target <- Targets
  StepBudget = {0, 1}
  LoadTick = {0, 2}
  MaxTick = 3
INVARIANTS
  HeldRight
PROPERTIES
  ImplementsEventReaders
  StopsRightly
  RunEnds
CHECK_DEADLOCK FALSE
