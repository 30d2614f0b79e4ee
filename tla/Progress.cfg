SPECIFICATION FairSpec
CONSTANTS
    CLOCKSIZE = 3
    PGSIZE = 2
    MaxPages = 5
    MAXBYTE = 3
    UINT = 64
    Ops <- MCLive
    SbrkArgs <- MCWholePagesBothWays
    Bytes = {3}
    TextPages = {1}
    MaxLen = 1
    MaxInd = 6
    Stale <- MCZeroStale
PROPERTIES AccessCompletes EvictsUnused FaultServes
CHECK_DEADLOCK FALSE
