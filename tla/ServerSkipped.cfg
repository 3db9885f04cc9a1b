SPECIFICATION Spec
CONSTANTS
    n1 = n1
    n2 = n2
    Torn = Torn
    NetworkOrder <- TwoNetworks
    KindOrder <- OneKind
    EntryQueue = "entry-queue"
    MaxFaults = 0
    MaxScrapes <- OneEach
    MaxRestarts = 0
INVARIANTS SkippedIsSkipped
CHECK_DEADLOCK FALSE
