SPECIFICATION Spec
CONSTANTS
    CLOCKSIZE = 4
    PGSIZE = 2
    MaxPages = 5
    MAXBYTE = 3
    UINT = 64
    Ops <- MCForks
    SbrkArgs <- MCWholePages
    Bytes = {1}
    TextPages = {1}
    MaxLen = 1
    MaxInd = 8
    Stale <- MCZeroStale
INVARIANT NoOverrun
CHECK_DEADLOCK FALSE
