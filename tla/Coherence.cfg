SPECIFICATION Spec
CONSTANTS
    CLOCKSIZE = 2
    PGSIZE = 2
    MaxPages = 4
    MAXBYTE = 3
    UINT = 64
    Ops <- MCAligned
    SbrkArgs <- MCShrinkAndGrow
    Bytes = {1}
    TextPages = {1}
    MaxLen = 2
    MaxInd = 5
    Stale <- MCZeroStale
INVARIANTS TypeOK Coherent
CHECK_DEADLOCK FALSE
