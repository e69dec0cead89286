SPECIFICATION Spec
CONSTANTS
    Operators = {o}
    Requests = {r, s}
    MaxEntries = 2
    Budgets = {2}
    Validities = {1, 2}
    Hour = 2
    DayHours = 1
    None = none
    MaxTime = 3
    MaxCreates = 2
    MaxLate = 2
SYMMETRY Symmetry
INVARIANTS TypeOK PromiseKept ReportsAgree LossExplained
CHECK_DEADLOCK FALSE
