SPECIFICATION Spec
CONSTANTS
    Procs = {p1, p2}
    Blocks = {k1, k2, k3, k4}
    k1 = k1
    k2 = k2
    k3 = k3
    Pairs <- MCPairs
    Values = {v1, v2}
    NBUF = 2
    MaxDirty = 1
    Faults = FALSE
    NoProc = NoProc
    NoBlock = NoBlock
INVARIANTS CacheInv PanicWhenFull SleepersHaveWaker
PROPERTIES OneCopy
SYMMETRY MCSymmetry
