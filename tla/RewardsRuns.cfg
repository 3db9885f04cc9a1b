SPECIFICATION FairSpec
CONSTANTS
  Coinbases = {c1}
  Splits = {s1, s2}
  FirstSplit = s1
  MaxBlock = 2
  TimeOf <- HalfPast
  TicksPerHour = 2
  MaxMisses = 2
  MaxFaults = 2
  NoSplit = NoSplit
  NoCache = NoCache
  Torn = Torn
INVARIANTS TypeOK AttributedBeforeLastChange HistorySaved
PROPERTIES CacheIsCleared
