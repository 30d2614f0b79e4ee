SPECIFICATION Spec
CONSTANTS
    Procs = {p1, p2, p3}
    Bytes = {b1, b2}
    PIPESIZE = 2
    UINT = 4
    MaxN = 3
    Kills = TRUE
INVARIANTS NoLostWakeup
PROPERTIES Stream
SYMMETRY MCSymmetry
CHECK_DEADLOCK FALSE
