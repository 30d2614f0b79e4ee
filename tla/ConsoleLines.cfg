SPECIFICATION Spec
CONSTANTS
    Procs = {p1, p2}
    INPUT_BUF = 2
    UINT = 4
    MaxN = 2
    Encrypted = TRUE
    Kills = TRUE
INVARIANTS NoLostWakeup
PROPERTIES PanicsUnlocked LinesDelivered
SYMMETRY MCSymmetry
CHECK_DEADLOCK FALSE
