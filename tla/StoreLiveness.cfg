SPECIFICATION FairSpec
CONSTANTS
    Goroutines = {g1, g2}
    Sweeper = sweeper
    None = none
    Ids = {a}
    CallerIds = {}
    MaxEntries = 0
    DefaultMaxEntries = 1
    MaxSecretLen = 2
    SecretLens = {1}
    ClickArgs = {0}
    DayArgs = {0}
    DefaultValidity = 1
    Day = 2
    HalfRange = 8
    MaxTime = 3
    MaxCreates = 1
PROPERTIES GoneOnlyWhenDue ExpiredEntriesGo EveryCallReturns
