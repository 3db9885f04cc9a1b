SPECIFICATION Spec
CONSTANTS
  Coinbases = {c1}
  Splits = {s1, s2}
  FirstSplit = s1
  MaxBlock = 3
  TimeOf <- HalfPast
  TicksPerHour = 2
  MaxMisses = 3
  MaxFaults = 0
  NoSplit = NoSplit
  NoCache = NoCache
  Torn = Torn
INVARIANT GapsAreFilled
CHECK_DEADLOCK FALSE
