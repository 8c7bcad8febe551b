SPECIFICATION FairSpec
CONSTANTS
    n1 = n1
    n2 = n2
    m1 = m1
    m2 = m2
    m3 = m3
    r1 = r1
    r2 = r2
    Nodes <- MCNodes
    RegisteredAt <- MCRegisteredAt
    Minipools <- MCMinipools
    CreatedAt <- MCCreatedAt
    NodeOf <- MCNodeOf
    Reductions <- MCReductions
    ReducedAt <- MCReducedAt
    MinipoolOf <- MCMinipoolOf
    LastBlock = 4
    FirstPeriods = 0
    LastPeriod = 4
    MaxLag = 0
    Swallows = FALSE
    Cuts <- LateCut
    CutPeriods <- LateCut
    MaxFaults = 2
INVARIANTS
    PeriodsHaveNoHoles
    ScannedIsStored
PROPERTIES
    EventuallyStored
