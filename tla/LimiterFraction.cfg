SPECIFICATION Spec
CONSTANTS
    Goroutines = {g1}
    Keys = {k1}
    BurstArg = 1
    IntervalArg = 2
    Second = 20
    GcPeriod = 6
    MaxKeys = 1
    MaxLag = 0
    MaxTime = 12
PROPERTIES DroppedOnlyWhenFull
