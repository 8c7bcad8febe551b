SPECIFICATION Spec
CONSTANTS
    DayLen = 2
    Today = 3
    Ledgers <- QuietLedgers
INVARIANTS
    IncomeIsExplained
    SettledAnswerComplete
    IncomeIsExplainedV1
    SettledRequestAnsweredV1
    VersionsAgree
CHECK_DEADLOCK FALSE
