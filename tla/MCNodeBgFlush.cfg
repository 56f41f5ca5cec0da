SPECIFICATION Spec
CONSTANTS
    RegionID = {1, 2}
    MaxKey = 3
    NoRange = NoRange
    NoRegion = NoRegion
    BgFlush = TRUE
    FirstRegion = 1
    Scenarios <- BgScenarios
INVARIANTS
    NoZombiePage
PROPERTIES
    PageNeverGoesBack
CHECK_DEADLOCK FALSE
