SPECIFICATION Spec
CONSTANTS
    Tasks = {1, 2}
    Root = 0
    Node = {1, 2}
    NodeOf <- Apart
    Targets <- FanTargets
    HasTimeout = TRUE
    PoolSize = 1
    MaxBatches = 1
    TunnelMap <- FanTunnels
    Failures = {}
    MaxBroken = 1
INVARIANTS
    TypeOK
    EofComplete
PROPERTIES
    ImplementsExchange
CHECK_DEADLOCK FALSE
