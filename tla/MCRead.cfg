SPECIFICATION Spec
CONSTANTS
    t1 = t1
    t2 = t2
    t3 = t3
    q1 = q1
    q2 = q2
    Txns = {t1, t2, t3}
    NoTxn = NoTxn
    NoRegion = NoRegion
    Long = {t1}
    High = {t2}
    Queries = {q1, q2}
    Scenarios <- AllScenarios
INVARIANTS
    TypeOK
    NoLogicalError
    PageRowsDurable
    DirtyUntilFlushed
PROPERTIES
    ImplementsSnapshotRead
CHECK_DEADLOCK FALSE
