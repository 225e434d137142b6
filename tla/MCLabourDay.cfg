SPECIFICATION Spec
CONSTANTS
  Men <- MCMen
  Walk <- MCWalk
  Holder = 3
  Ordered <- MCOrdered
  Jobs <- MCJobs
  Horses = 2
  Sunrise = 2
  Sunset = 4
  LastHour = 5
  Week = 2
  LastDay = 3
  MaxRest = 4
  FreeDays = 1
  Term = 1
  MaxTurns = 2
INVARIANTS WaitsAreHonest DayIsCounted PricedAlike
CHECK_DEADLOCK FALSE
