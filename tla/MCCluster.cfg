SPECIFICATION ClusterSpec
CONSTANTS
    RgIds = {1, 2}
    RgMaxConns = 2
    DyMaxConns = 2
    DyMaxChanges = 3
    DmKeys = {1, 2}
    DmMaxConns = 2
    DmMaxChanges = 3
    CnServers = {1, 2, 3}
    CnAddresses = 2
    CnMaxJoins = 2
    CnMaxTcp = 4
    CnMaxFaults = 1
    HbMaxDelay = 2
    HEARTBEAT_TIMEOUT_INTERVALS = 5
    SlServers = {1, 2, 3}
    SlKeys = {1}
    SlClock <- Clocks
    SlMaxSets = 2
    SlMaxDeletes = 1
    SlMaxLosses = 1
    RcServers = {1, 2, 3}
    RcBlueprints <- Blueprints
    RcMaxChanges = 3
    RcMaxWrites = 1
    RcMaxBacklog = 3
    CfServers = {1, 2}
    CfKeys = {1, 2}
    CfServerOf <- FeedServerOf
    CfVals = {0, 1}
    CfSubs = {1, 2}
    CfSpecs <- SubscriptionSets
    CfArrayLimit = 2
    CfMaxFeeds = 2
    CfMaxWrites = 3
    CfMaxFaults = 1
    LfRows = {{1}, {2, 3}, {4}}
    LfStoreOf <- ItemStoreOf
    LfKeys = {1, 2}
    LfKinds <- LimitKinds
    LfLimit = 2
    LfMaxWrites = 3
    LfMaxFaults = 1
    RcMaxFaults = 2
INVARIANTS
    RgInv
    DyInv
    DmInv
    CnInv
    HbInv
    SlInv
    RcInv
    
PROPERTIES
    DirectoryNeverGoesBack
    KeysNeverGoBack
    SlSteps
CHECK_DEADLOCK FALSE
