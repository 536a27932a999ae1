SPECIFICATION RepFairSpec
CONSTANTS
    Scenarios = {"branch", "backfill"}
    p = p
    a = a
    b = b
    None = None
    Servers <- TwoServers
    Primary = p
    AckSets <- TwoOfTwo
    MaxTimestamp = 2
    MaxChanges = 3
    MaxReads = 0
    MaxDrops = 0
    DrainedSize = 0
    Build = "debug"
    Keys = 3
    MAX_CHUNKS_OUT = 2
    ALLOCATION_CHUNK = 2
    CHUNK_PROCESSING_CONCURRENCY = 2
    MaxVersion = 1
    MaxSessions = 2
    MaxInterrupts = 1
    MaxCrashes = 0
    MaxLosses = 1
PROPERTIES
    Progress
CHECK_DEADLOCK FALSE
