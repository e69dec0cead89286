SPECIFICATION FairSpec
CONSTANTS
    Goroutines = {g1}
    Sweeper = sweeper
    None = none
    Ids = {a}
    CallerIds = {}
    MaxEntries = 1
    DefaultMaxEntries = 1
    MaxSecretLen = 2
    SecretLens = {1}
    ClickArgs = {0}
    DayArgs = {2}
    DefaultValidity = 1
    Day = 2
    HalfRange = 4
    MaxTime = 1
    MaxCreates = 1
PROPERTIES GoneOnlyWhenDue
