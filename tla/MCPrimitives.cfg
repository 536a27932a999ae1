SPECIFICATION PrimSpec
CONSTANTS
    Reads = {r1, r2, r3}
    Writes = {w1, w2}
    MaxInt = 3
    RwAcqs = {a1, a2, a3, a4}
    SemAcqs = {a1, a2, a3}
    SemCounts = {0, 1, 2, 3}
    SemCapacities = {1, 2, 4}
    BtLocks = {a1, a2, a3, a4}
    BtPeers = {p1, p2}
    PerPeer = 2
    Global = 2
    MtWaiters = {a1, a2, a3}
    MtTimes = 3
    DqCapacity = 2
    DqItems = 7
    SiKeys = {1, 2}
    SiSecKeys = {s1}
    SiNames = {n1, n2}
    SiChunk = 1
    SiMaxIds = 2
    SiMaxWrites = 1
    SiMaxRestarts = 1
    SiStarts <- PrimStarts
INVARIANTS
    OrderedExit
    Inv
    RwInv
    SemInv
    BtInv
    MtQueueIsRight
    DqInv
PROPERTIES
    NobodyStalls
    DqEverythingArrives
    SindexesSettle
CHECK_DEADLOCK FALSE
