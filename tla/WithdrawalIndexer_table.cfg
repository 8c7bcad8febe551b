SPECIFICATION FairSpec
CONSTANTS
    Paying <- MCPaying
    PaidTo <- MCPaidTo
    Gaps <- TwoGaps
    EpochLen = 3
    LastSlot = 11
    CommitEvery = 2
    MaxFaults = 2
INVARIANTS
    AtMostOnce
    AddressesExist
    NothingSkipped
PROPERTIES
    ImplementsLog
    EventuallyStored
