SPECIFICATION FairSpec
CONSTANTS
  Publishers = {p1, p2}
  Checksummed = {p1}
  Polls = {f1, f2}
  MaxDrains = 1
  MaxFaults = 1
  MaxUnfinished <- TwoIfChecksummed
  NoFetch = NoFetch
INVARIANTS TypeOK NoNonceConflict Executable
PROPERTIES KnownIsNotRepeated LowReachesOwners
