SPECIFICATION Spec
CONSTANTS
    Goroutines = {g1, g2}
    Sweeper = sweeper
    None = none
    Ids = {a, b}
    CallerIds = {a}
    MaxEntries = 0
    DefaultMaxEntries = 1
    MaxSecretLen = 2
    SecretLens = {0, 2, 3}
    ClickArgs = {2}
    DayArgs = {0}
    DefaultValidity = 1
    Day = 1
    HalfRange = 8
    MaxTime = 2
    MaxCreates = 2
SYMMETRY Symmetry
INVARIANTS TypeOK NoConcurrentMapAccess WaitsEnd ViewsWithinBudget DistinctReveals CapacityHeld MemoryBounded NothingLost ReportAddsUp
PROPERTIES ImplementsOneTimeLink
