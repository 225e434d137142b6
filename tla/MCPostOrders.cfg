SPECIFICATION Spec
CONSTANTS
  ivan = ivan
  marya = marya
  petr = petr
  kTicksPerDay = 2
  Villager = {ivan, marya}
  Specialist = {petr}
  Unit = {"store", "office"}
  Site = {"office"}
  Slots <- MCSlots
  SinglePost = {"agronomist"}
  Eligible <- MCEligible
  Minor = {}
  Target = {"field"}
  WrongLand = {}
  AwayTicks = {4}
  Named = {ivan, marya}
  MaxTick = 4
  MaxOrder = 3
  MaxIssued = 2
  MaxCancelled = 1
  MaxElsewhere = 2
SYMMETRY Villagers
INVARIANTS
  OrdersAnswered
PROPERTIES
  SettledAtTheClose
  PlacesHeldRight
CHECK_DEADLOCK FALSE
