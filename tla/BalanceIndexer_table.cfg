SPECIFICATION FairSpec
CONSTANTS
    Validators <- MCValidators
    ActSlot <- MCActSlot
    EodSlots <- MCEodSlots
    Gaps <- MCGaps
    EpochLen = 2
    Lead = 1
    LastSlot = 10
    CommitEvery = 1
    MaxFaults = 2
    LateFaults = FALSE
INVARIANTS
    StoredSlotsComplete
    IndexedIsStored
PROPERTIES
    ImplementsArchive
    EverySlotStored
