CONSTANTS
    k1 = k1
    k2 = k2
    f1 = f1
    f2 = f2
    f3 = f3
    t1 = t1
    t2 = t2
    t3 = t3
    NoRecord = NoRecord
    Keys = {k1, k2}
    Records <- MCRecords
    Threads = {t1, t2, t3}
SPECIFICATION Spec
INVARIANTS
    TypeOK
    ListsWellFormed
    KeyIsFound
PROPERTIES
    OnlyAppends
    IsRecordStore
CHECK_DEADLOCK FALSE
