SPECIFICATION Spec
CONSTANTS
    Instances = {p1, p2}
    Inodes = {i1, i2}
    None = none
    Plain = plain
    MaxOverlap = 2
    MaxStarts = 4
SYMMETRY Symmetry
CHECK_DEADLOCK FALSE
INVARIANTS ServingReachable
