SPECIFICATION Spec
CONSTANTS
    a1 = a1  a2 = a2  p1 = p1  p2 = p2  s1 = s1  s2 = s2  c1 = c1  c2 = c2  fallback = fallback  o1 = o1  o2 = o2
    Attesters = {a1, a2}
    Publishers = {p1, p2}
    Operators = {o1, o2}
    RegistryOrder <- MCRegistryOrder
    None = None
    MaxFaults = 1
    MaxCommands = 3
    KeyFile <- MCKeyFile
    ChunkSize = 1
    Servers = {s1, s2}
    Agent = agent
    Zero = Zero
    Torn = Torn
    LogRange = 2
    FirstBlocks <- MCFirstBlocks
    Pending <- MCPending
    Held <- MCHeld
    Credited = 10
    GasCost = 1
    MaxBps = 500
    MaxCost = 0
    Splits <- MCSplits
    Fallback = fallback
    Available <- MCAvailable
    Situations <- MCSituations
    MaxEvents = 3
SYMMETRY OperatorSymmetry
CHECK_DEADLOCK FALSE
INVARIANTS TypeOK StoredWhenWritten RerunsAddNothing CacheIsExact FilesAreSound ClaimsFindSplits
