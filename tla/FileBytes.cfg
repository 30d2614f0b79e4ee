SPECIFICATION Spec
CONSTANTS
    Procs = {p1, p2}
    Inodes = {i1, i2}
    NBLOCKS = 5
    BSIZE = 2
    NDIRECT = 2
    NFILE = 2
    NOFILE = 2
    MAXOPBLOCKS = 6
    UINT = 9
    Reads = {8}
    Sources <- MCSources
    MaxWrites = 2
    NoProc = NoProc
INVARIANTS DiskInv ReadsRange WithinReservation DescriptorsCounted
PROPERTIES BytesInOrder
SYMMETRY MCSymmetry
CHECK_DEADLOCK FALSE
