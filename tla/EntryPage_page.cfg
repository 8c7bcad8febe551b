SPECIFICATION EntrySpec
CONSTANTS
    Selections <- MCSelections
    Empty = {}
    Currencies <- MCCurrencies
    Ranges <- MCRanges
    Priced <- MCPriced
    usd = usd
    eur = eur
    MaxActs = 3
    Indexes <- MCIndexes
    Blank = blank
    blank = blank
    Keys <- MCKeys
    Owned <- MCOwned
    Inputs <- MCInputs
    Statuses <- MCStatuses
    key = key
    address = address
    MaxInputs = 2
INVARIANTS
    ShownForEntered
    PricedInSelected
    ChartIsCurrent
    NothingLost
    NothingUnwanted
PROPERTIES
    LoadingEnds
CHECK_DEADLOCK FALSE
