SPECIFICATION FairSpec
CONSTANTS
    NPROC = 4
    Cpus = {c1, c2}
    MaxPid = 4
    Targets = {3}
INVARIANTS OneCpuEach ParentAlive WaitersWait
PROPERTIES OrphansReaped
