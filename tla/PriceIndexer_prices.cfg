SPECIFICATION FairSpec
CONSTANTS
    usd = usd
    new = new
    Currencies <- MCCurrencies
    QuotedFrom <- MCQuotedFrom
    FirstDate = 1
    LastDate = 3
    Seeds <- AnySeed
    MaxFaults = 2
INVARIANTS
    NoHoles
    NoPriceOfToday
    AnswerIsComplete
PROPERTIES
    EventuallyPriced
CHECK_DEADLOCK FALSE
