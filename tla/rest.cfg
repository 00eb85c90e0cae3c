SPECIFICATION ReadsSpec
CONSTANTS
    StoredStatuses <- Kept
    Chain <- ReadChain
    Sessions = {s1}
    MaxFaults = 1
    Readings <- SampleReadings
    NameOrder <- ChannelNames
    Parts <- SampleParts
    DefaultTxLimit = 2
    Absent = Absent
    Limits = {Absent, 1}
    Offsets = {Absent, 1}
    Bounds = {Absent, 1}
    Lookups = {"t0", "t1"}
    Namespaces = {"_meta"}
INVARIANTS ReadsTypeOK ResponsesAreWhole OneTransactionPerId PagingMissesNothing ChannelPoliciesAreShown
PROPERTIES ToldBlocksAreFound LatestPolicyIsLatest
CHECK_DEADLOCK FALSE
