SPECIFICATION FairSpec
CONSTANTS
    t1 = t1
    t2 = t2
    t3 = t3
    p1 = p1
    p2 = p2
    NoTable = NoTable
    NoStorage = NoStorage
    Tables = {t1, t2, t3}
    PartIds <- MCPartIds
    Scenarios <- MCScenarios
    MaxNumberOfDiffs = 2
INVARIANT TypeOK
PROPERTIES GcAfterTiDB SyncedStoragesMatch GcCatchesUp
CHECK_DEADLOCK FALSE
