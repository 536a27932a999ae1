SPECIFICATION TrSpec
CONSTANTS
    LnValueSize <- SmallValues
    LnKeySize = 1
    LnOffsetSize = 1
    LnStampSize = 2
    LnFreeSpace = 32
    MANDATORY_TIMESTAMPS = 2
    DELETION_RESERVE_FRACTION = 4
    TrPrefills <- OnlyThinned
    TrMaxWrites = 4
    TrMaxElsewhere = 0
    TrMaxBreaks = 0
INVARIANT MovesFit
CHECK_DEADLOCK FALSE
