SPECIFICATION FairSpec
CONSTANTS
    Slots <- MCSlots
    Missed <- MCMissed
    Late <- MCLate
    Permits = 2
    EpochLen = 3
    LastSlot = 8
    MaxFaults = 2
    CommitFaults = TRUE
PROPERTIES
    RowsSettled
    EventuallySettled
