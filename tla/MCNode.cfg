SPECIFICATION Spec
CONSTANTS
    RegionID = {r1, r2, r3}
    MaxKey = 4
    NoRange = NoRange
    NoRegion = NoRegion
    BgFlush = FALSE
    FirstRegion = r1
    Scenarios <- NodeScenarios
INVARIANTS
    TypeOK
    NoLogicalError
    IndexMatchesRegions
    IndexRemoveNeverThrows
    AppliedMatchesLog
    DataComplete
    CaughtUpDisjoint
    TableCoversBoundedRegion
    NoLogLost
SYMMETRY BornRegionSymmetry
CHECK_DEADLOCK FALSE
