SPECIFICATION FairSpec
CONSTANTS
    Goroutines = {g1}
    Sweeper = sweeper
    None = none
    Ids = {a}
    CallerIds = {}
    MaxEntries = 1
    DefaultMaxEntries = 1
    MaxSecretLen = 2
    SecretLens = {1}
    ClickArgs = {0}
    DayArgs = {0}
    DefaultValidity = 1
    Day = 1
    HalfRange = 8
    MaxTime = 2
    MaxCreates = 1
PROPERTIES NoLateReveal
