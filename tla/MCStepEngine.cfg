SPECIFICATION FairSpec
CONSTANTS
  kTicksPerDay = 3
  kMetricMax = 2
  kDowryDivisor = 2
  kRunCap = 2
  Weather = {"hot", "mild"}
  Worker = {w1, w2}
  Genesis <- MCGenesis
  Subject = {3, 9}
  MaxTick = 5
  MaxOrder = 1
INVARIANTS
  PeopleHold
  LedgerBalances
PROPERTIES
  ImplementsAtomicStep
  StepEnds
CHECK_DEADLOCK FALSE
