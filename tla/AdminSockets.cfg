SPECIFICATION Spec
CONSTANTS
    Instances = {p1, p2, p3}
    Inodes = {i1, i2}
    None = none
    Plain = plain
    MaxOverlap = 3
    MaxStarts = 5
SYMMETRY Symmetry
CHECK_DEADLOCK FALSE
INVARIANTS TypeOK ReachableAlone ServedIsLocked NothingLeftBehind
PROPERTIES PlainFileKept StaleNeverBlocks
