SPECIFICATION CacheSpec
CONSTANTS
    Txns = {t1, t2, t3}
    Blocks = {1, 2}
    Conns = {c}
    None = None
    MaxAcqs = 2
    CpAcqs = {1, 2, 3, 4}
    MaxWrites = 2
    NumChunks = 2
    MaxOps = 4
    MgBlocks = {b1, b2}
    MgCalls = 4
    MaxActive = 2
    SiKeys = {1, 2}
    SiSecKeys = {s1}
    SiNames = {n1, n2}
    SiChunk = 1
    SiMaxIds = 2
    SiMaxWrites = 2
    SiMaxRestarts = 1
    SiStarts <- CacheStarts
SYMMETRY Interchangeable
INVARIANTS
    TxnInv
    CpInv
    CrInv
    MgInv
    SindexInv
PROPERTIES
    TxnKeepsItsVersion
CHECK_DEADLOCK FALSE
