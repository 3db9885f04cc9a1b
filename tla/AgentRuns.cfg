SPECIFICATION Spec
CONSTANTS
    Attesters <- MCAttesters
    Publishers <- MCPublishers
    DirectoryOrder <- MCDirectoryOrder
    ScraperSets <- MCScraperSets
    Contents <- MCContents
    Chains <- MCChains
    FilesAtStart <- MCFilesAtStart
    ProviderSets <- MCProviderSets
    MinEth = 2
    None = None
    MaxMoves = 1
    MaxEdits = 1
    MaxFaults = 1
PROPERTY EveryEntryIsReached
PROPERTY ScanIsExact
PROPERTY Converges
CHECK_DEADLOCK FALSE
