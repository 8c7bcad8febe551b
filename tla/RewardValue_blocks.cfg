SPECIFICATION ValueSpec
CONSTANTS
    Relays = {r1, r2, r3}
    r1 = r1
    r2 = r2
    r3 = r3
    Answers = {"payload", "none", "error"}
    Blocks <- AllBlocks
INVARIANTS
    OkMeansIncome
    NeverCalledVanilla
CHECK_DEADLOCK FALSE
