SPECIFICATION Spec
CONSTANTS
  kTicksPerDay = 4
  kDaysPerMonth = 3
  kDaysPerYear = 3
  depart_hour = 2
  return_hour = 3
  audit_hour = 1
  summon_letter_delay_days = 1
  summon_after_letter_days = 2
  notice_days = 1
  plan_trade_min_reputation = 1
  kReputationMax = 2
  StartReputation = {2}
  Regular <- MCRegular
  BargainDays = {0, 1, 2, 3, 4, 5, 6, 7, 8, 9}
  MaxTick = 29
  MaxGiven = 1
PROPERTIES
  AwayIsOneThing
  CalledOnce
  VisitsMeetHim
CHECK_DEADLOCK FALSE
