SPECIFICATION UiSpec
CONSTANTS
    StartBlk = 0
    MaxHeight = 3
    TxCount <- Counts
    DefaultTxLimit = 2
    PageSize = 1
    TxPageSize = 1
    LatestCount = 2
    RecentCount = 3
    RecentDepth = 0
    Polls = {p1}
    Namespaces = {"_meta", "0"}
    PolicyBlock <- PolicyBlocks
    MaxClicks = 1
    MaxFaults = 0
INVARIANTS SelectedPoliciesAreShown
CHECK_DEADLOCK FALSE
