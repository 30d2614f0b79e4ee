SPECIFICATION MemorySpec
CONSTANTS
    CLOCKSIZE = 2
    PGSIZE = 2
    MaxPages = 5
    MAXBYTE = 3
    UINT = 64
    Ops <- MCNoFork
    SbrkArgs <- MCWholePages
    Bytes = {1}
    TextPages = {1}
    MaxLen = 2
    MaxInd = 3
    Stale <- MCFreedStale
    Frames <- MCFrames
    Pick <- MCLowest
    Ptable = {1, 2, 3}
    initproc = 1
    PageSize = 2
    NPTENTRIES = 3
    NPDENTRIES = 2
    KTables = 1
    Images = {1, 7}
    Sbrks <- MCSbrks
    Nil = 0
INVARIANTS Tracked FewDecrypted NoOverrun WorkingSetReported MemoryExact CpuMemoryHeld
CHECK_DEADLOCK FALSE
