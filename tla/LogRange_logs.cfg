SPECIFICATION LogsSpec
CONSTANTS
    End = 6
    MaxBlockRange = 4
    Cap = 2
    MaxDepth = 4
    LogCounts <- AllCounts
INVARIANTS
    NothingMissed
PROPERTIES
    Ends
CHECK_DEADLOCK FALSE
