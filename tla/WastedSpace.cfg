SPECIFICATION Spec
CONSTANTS
    Modulus = 9
    FileSize = 6
    HeaderSize = 1
    MaxAreas = 4
    Targets <- SmallTargets
INVARIANTS
    LowReachesFurthest
    GapsAreTheHoles
    TotalsCountTheHoles
    TailIsTheRest
PROPERTIES
    ImplementsAccounting
    Reports
