SPECIFICATION Spec
CONSTANTS
    RegionID = {1, 2}
    MaxKey = 3
    NoRange = NoRange
    NoRegion = NoRegion
    BgFlush = FALSE
    FirstRegion = 1
    Scenarios <- SplitScenarios
INVARIANTS
    TableCoversKVStore
CHECK_DEADLOCK FALSE
