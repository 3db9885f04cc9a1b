SPECIFICATION FairSpec
CONSTANTS
    n1 = n1
    n2 = n2
    Torn = Torn
    NetworkOrder <- TwoNetworks
    KindOrder <- TwoKinds
    EntryQueue = "entry-queue"
    MaxFaults = 2
    MaxScrapes <- TwoAndNone
    MaxRestarts = 1
INVARIANTS TypeOK OneRunAtATime StatsReachFile
PROPERTIES NoRunAfterStop KeepsScraping IsolatesErrors ShutdownEnds
CHECK_DEADLOCK FALSE
