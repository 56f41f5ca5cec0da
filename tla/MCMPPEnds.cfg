SPECIFICATION FairSpec
CONSTANTS
    Tasks = {1, 2}
    Root = 0
    Node = {1, 2}
    NodeOf <- Apart
    Targets <- ChainTargets
    HasTimeout = TRUE
    PoolSize = 1
    MaxBatches = 1
    TunnelMap <- ChainTargets
    Failures <- Throws
    MaxBroken = 1
INVARIANTS
    EofComplete
PROPERTIES
    QueryEnds
    TasksDrain
CHECK_DEADLOCK FALSE
