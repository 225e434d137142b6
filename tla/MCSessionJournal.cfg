SPECIFICATION JournalSpec
CONSTANTS
  kTicksPerDay = 2
  Kind = {"post", "lost post", "trade"}
  DistrictDoor = {"trade"}
  Waiting = {"post", "lost post"}
  Failing = {"lost post"}
  Settling = {"trade"}
  AwayTicks = {2}
  MaxTick = 3
  MaxOrder = 2
  MaxIssued = 2
  MaxCancelled = 1
  MaxJournal = 2
INVARIANTS
  PromiseKept
  Replayable
PROPERTIES
  ImplementsOrderProtocol
CHECK_DEADLOCK FALSE
