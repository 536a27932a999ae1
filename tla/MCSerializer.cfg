SPECIFICATION SerSpec
CONSTANTS
    Scenarios = {"metablock", "lba", "reader", "crash", "delete", "shrink"}
    NumSlots = 3
    MaxMetablocks = 6
    MaxStops = 3
    TornOverwrite = FALSE
    Shards = 2
    LbaBlocks = 2
    Inline = 1
    Slots = 2
    Batch = 1
    NumExtents = 12
    MaxGcs = 1
    LbaBefore <- FilledBefore
    MaxIndexWrites = 2
    MaxCrashes = 1
    DBlocks = 2
    DSlots = 2
    YoungMax = 1
    DExtents = 6
    Collectors = {1}
    Pinned = {TRUE, FALSE}
    MaxVersions = 2
    MaxDeletes = 1
    DMaxCrashes = 1
INVARIANTS
    
    LbaInv
    DInv
PROPERTIES
    
    ImplementsAtomicStore
CHECK_DEADLOCK FALSE
