SPECIFICATION TrSpec
CONSTANTS
    LnValueSize <- LargeValues
    LnKeySize = 1
    LnOffsetSize = 1
    LnStampSize = 2
    LnFreeSpace = 48
    MANDATORY_TIMESTAMPS = 2
    DELETION_RESERVE_FRACTION = 4
    TrPrefills <- OnlyNearlyFull
    TrMaxWrites = 3
    TrMaxElsewhere = 1
    TrMaxBreaks = 0
INVARIANT ChangesAreFound
CHECK_DEADLOCK FALSE
