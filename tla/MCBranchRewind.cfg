SPECIFICATION RepSpec
CONSTANTS
    Scenarios = {"branch"}
    p = p
    a = a
    b = b
    None = None
    Servers <- ThreeServers
    Primary = p
    AckSets <- TwoOfThree
    MaxTimestamp = 1
    MaxChanges = 4
    MaxReads = 0
    MaxDrops = 0
    DrainedSize = 0
    Build = "release"
    Keys = 4
    MAX_CHUNKS_OUT = 3
    ALLOCATION_CHUNK = 2
    CHUNK_PROCESSING_CONCURRENCY = 2
    MaxVersion = 2
    MaxSessions = 2
    MaxInterrupts = 1
    MaxCrashes = 1
    MaxLosses = 1
INVARIANTS
    StartPointInOurPast
CHECK_DEADLOCK FALSE
