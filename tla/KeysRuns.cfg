SPECIFICATION FairSpec
CONSTANTS
    f1 = f1
    f2 = f2
    a1 = a1
    a2 = a2
    u1 = u1
    u2 = u2
    cb = cb
    NoCoinbase = NoCoinbase
    Absent = Absent
    Broken = Broken
    FileOrder <- Order
    Keystores <- Stores
    MaxWrites = 3
    MaxFailures = 1
    MaxRestarts = 1
INVARIANTS TypeOK FollowsDirectory
PROPERTIES CatchesUp
CHECK_DEADLOCK FALSE
