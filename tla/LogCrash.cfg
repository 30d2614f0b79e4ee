SPECIFICATION Spec
CONSTANTS
    Procs = {p1, p2}
    Blocks = {b1, b2, b3}
    Values = {0, 1}
    MAXOPBLOCKS = 3
    LOGSIZE = 6
    LogBlocks = 6
    OpWrites = 2
    Crashes = TRUE
PROPERTIES Atomic
