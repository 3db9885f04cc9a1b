SPECIFICATION FairSpec
CONSTANTS
  MaxDay = 3
  SlotsPerDay = 2
  FirstSlot = 1
  MaxMissed = 3
  EarnedBy <- EarnedRewards
  ClaimedBy <- ClaimedRewards
  MaxFaults = 3
  MaxBackfills = 2
  Runs = {r1}
  NoCursor = NoCursor
  Torn = Torn
INVARIANTS TypeOK PendingIsNextDay OneRowPerDay NoDrift
PROPERTIES ImplementsDailyLedger CatchesUp
