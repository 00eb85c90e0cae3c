SPECIFICATION Spec
CONSTANTS
    StoredStatuses <- Kept
    Chain <- MixedChain
    Sessions = {s1, s2}
    MaxFaults = 1
PROPERTIES ReprocessingIsNoOp
CHECK_DEADLOCK FALSE
