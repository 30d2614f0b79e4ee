SPECIFICATION FairSpec
CONSTANTS
    Procs = {p1, p2, p3}
    Blocks = {b1, b2, b3, b4, b5}
    Values = {0}
    MAXOPBLOCKS = 3
    LOGSIZE = 6
    LogBlocks = 6
    OpWrites = 1
    Crashes = FALSE
INVARIANTS SpaceKept
PROPERTIES SleepersWake
