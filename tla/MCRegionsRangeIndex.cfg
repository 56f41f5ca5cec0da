CONSTANTS
    RegionID = {r1, r2, r3}
    MaxKey = 5
    NoRange = NoRange
SYMMETRY IDSymmetry
SPECIFICATION Spec
INVARIANTS
    TypeOK
    LookupIsExact
    RegisteredIsRemovable
    EmptyIsCleared
