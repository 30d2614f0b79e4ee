SPECIFICATION LocksSpec
CONSTANTS
    Cpus = {0, 1}
    Procs = {p1, p2}
    Naps = {1}
    UINT = 2
    MaxKilled = 1
    NoCpu = NoCpu
    Inums = {1, 2, 3}
    ROOTINO = 1
    Plain <- MCPlain
    Calls <- MCCalls
    NINODE = 3
    MaxLink = 2
INVARIANTS CpuInv NoSpinCycle InterruptsRestored SleepsWhole
    CountsExact InUseKept TreeShape CyclesNeedPut
SYMMETRY MCSymmetry
