SPECIFICATION FairSpec
CONSTANTS
    NumFiles = 2
    NumDirs = 2
    Auth = 1
    Contents = {empty, good}
    Empty = empty
    WellFormed = {good}
    Absent = absent
    Builtin = builtin
    Good = good
    StartDisks <- SomeDisks
    Requests = {r1}
    MaxEdits = 1
    MaxHups = 2
CHECK_DEADLOCK FALSE
INVARIANTS TypeOK SettledIsCurrent ExitIsOrderly LossIsNoted
PROPERTIES HupHeeded EveryTermStops ImplementsStop
