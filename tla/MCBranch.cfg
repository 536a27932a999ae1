SPECIFICATION MCBranchSpec
CONSTANTS
    Scenarios = {"join", "reads"}
    p = p
    a = a
    b = b
    None = None
    Servers <- TwoServers
    Primary = p
    AckSets <- OneOfTwo
    MaxTimestamp = 2
    MaxChanges = 4
    MaxReads = 1
    MaxDrops = 1
    DrainedSize = 0
    Build = "debug"
    Keys = 4
    MAX_CHUNKS_OUT = 3
    ALLOCATION_CHUNK = 2
    CHUNK_PROCESSING_CONCURRENCY = 2
    MaxVersion = 2
    MaxSessions = 2
    MaxInterrupts = 1
    MaxCrashes = 1
    MaxLosses = 1
    LnValueSize <- LargeValues
    LnKeySize = 1
    LnOffsetSize = 1
    LnStampSize = 2
    LnFreeSpace = 48
    MANDATORY_TIMESTAMPS = 2
    DELETION_RESERVE_FRACTION = 4
    TrPrefills <- EitherPrefill
    TrMaxWrites = 2
    TrMaxElsewhere = 1
    TrMaxBreaks = 2
INVARIANTS
    BranchInv
    TreeInv
    ReplicaFollows
PROPERTIES
    ImplementsLog
CHECK_DEADLOCK FALSE
