SPECIFICATION FairSpec
CONSTANTS
    StartBlk = 1
    MaxHeight = 4
    Processors = {p1, p2}
    Writers = {w1, w2}
    RawCap = 1
    ProcCap = 1
    Unparsable = {}
    Unwritable = {}
    FaultKinds = {"crash", "db", "rest", "scan"}
    MaxFaults = 1
PROPERTIES LedgerLiveness CancelLeadsToExit
CHECK_DEADLOCK FALSE
