SPECIFICATION Spec
CONSTANTS
    Goroutines = {g1, g2}
    Keys = {k1, k2}
    BurstArg = 2
    IntervalArg = 2
    Second = 3
    GcPeriod = 5
    MaxKeys = 1
    MaxLag = 1
    MaxTime = 12
SYMMETRY Symmetry
INVARIANTS TypeOK RateBounded TableBounded
PROPERTIES FairAdmission
