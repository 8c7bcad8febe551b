SPECIFICATION Spec
CONSTANTS
    DayLen = 3
    Today = 2
    Validators = {1, 2, 3}
    Nodes = {"n1"}
    NodeOf <- MCNodeOf
    InitialTerms <- MCTerms
    Reductions <- MCReductions
    Withdrawals <- MCWithdrawals
    Proposals <- MCProposals
    Emptied <- MCEmptied
    Ratio <- MCRatio
    AverageFee = 10
    AtlasSlot = 2
    Glitches = TRUE
    Periods = {0}
    PeriodDay <- MCPeriodDay
    Requests <- MCRequests
INVARIANTS
    LookupsSucceed
    SplitAtItsTime
    ProposalsPaid
    SettledAnswerComplete
CHECK_DEADLOCK FALSE
