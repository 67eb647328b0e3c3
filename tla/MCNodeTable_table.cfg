CONSTANTS
    HASH_BITS = 3
    self = self
    a1 = a1
    a2 = a2
    a3 = a3
    t1 = t1
    t2 = t2
    Self <- MCSelf
    Nodes <- MCNodes
    Keys <- MCKeys
    Threads = {t1, t2}
    bucketSize = 3
    alpha = 3
SPECIFICATION Spec
INVARIANTS
    TypeOK
    BucketsWellFormed
    MostRecentKept
    ScanFindsNearest
    ScanWellFormed
    EveryoneIsPinged
PROPERTY EvictedArePinged
CHECK_DEADLOCK FALSE
