SPECIFICATION FairSpec
CONSTANTS
    RegionID = {1, 2}
    MaxKey = 3
    NoRange = NoRange
    NoRegion = NoRegion
    BgFlush = FALSE
    FirstRegion = 1
    Scenarios <- QuietScenarios
PROPERTIES
    Converges
CHECK_DEADLOCK FALSE
