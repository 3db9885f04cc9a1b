SPECIFICATION FairSpec
CONSTANTS
    a1 = a1
    NoData = NoData
    Torn = Torn
    Attesters = {a1}
    KeyFiles <- WithAndWithout
    MaxChain = 3
    MaxFailures = 1
    MaxDeaths = 1
INVARIANTS TypeOK Provenance NoLostSave
PROPERTIES ActiveLostOnlyIfLeft SettlesActive SettlesExited
CHECK_DEADLOCK FALSE
