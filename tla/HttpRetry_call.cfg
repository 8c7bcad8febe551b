SPECIFICATION FairCallSpec
CONSTANTS
    Levels <- MCLevels
    MaxTime <- MCMaxTime
    Timeout = 1
    MaxBlocks = 1
    BlockTime = 2
INVARIANTS
    TimeBounded
PROPERTIES
    Ends
CHECK_DEADLOCK FALSE
