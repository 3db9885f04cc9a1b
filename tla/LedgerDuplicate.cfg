SPECIFICATION Spec
CONSTANTS
  MaxDay = 3
  SlotsPerDay = 2
  FirstSlot = 1
  MaxMissed = 3
  EarnedBy <- EarnedRewards
  ClaimedBy <- ClaimedRewards
  MaxFaults = 2
  MaxBackfills = 1
  Runs = {r1}
  NoCursor = NoCursor
  Torn = Torn
INVARIANT OneRowPerDayAlways
