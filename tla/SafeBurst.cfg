SPECIFICATION Spec
CONSTANTS
  Publishers = {p1}
  Checksummed = {p1}
  Polls = {f1, f2}
  MaxDrains = 0
  MaxFaults = 0
  MaxUnfinished <- TwoIfChecksummed
  NoFetch = NoFetch
INVARIANTS OneTopUpEach
CHECK_DEADLOCK FALSE
