SPECIFICATION FairSpec
CONSTANTS
    StoredStatuses <- Kept
    Chain <- ContendedChain
    Sessions = {s1, s2}
    MaxFaults = 2
INVARIANTS TypeOK WholeBlocks EveryPositionHasARow TablesAgree OnlyPoliciesContend
PROPERTIES EveryWriteEnds EveryBlockStored ImplementsLedger
CHECK_DEADLOCK FALSE
