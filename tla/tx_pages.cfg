SPECIFICATION UiSpec
CONSTANTS
    StartBlk = 0
    MaxHeight = 3
    TxCount <- Counts
    DefaultTxLimit = 2
    PageSize = 1
    TxPageSize = 1
    LatestCount = 2
    RecentCount = 3
    RecentDepth = 0
    Polls = {p1}
    Namespaces = {}
    PolicyBlock <- PolicyBlocks
    MaxClicks = 0
    MaxFaults = 0
INVARIANTS TxWindowIsShown
CHECK_DEADLOCK FALSE
