SPECIFICATION UiFairSpec
CONSTANTS
    StartBlk = 0
    MaxHeight = 2
    TxCount <- Counts
    DefaultTxLimit = 2
    PageSize = 1
    TxPageSize = 1
    LatestCount = 2
    RecentCount = 2
    RecentDepth = 0
    Polls = {p1, p2}
    Namespaces = {}
    PolicyBlock <- PolicyBlocks
    MaxClicks = 0
    MaxFaults = 1
PROPERTIES DashboardCatchesUp
CHECK_DEADLOCK FALSE
