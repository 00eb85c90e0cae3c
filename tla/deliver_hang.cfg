SPECIFICATION FairSpec
CONSTANTS
    StartBlk = 0
    MaxHeight = 2
    Processors = {p1}
    Writers = {w1}
    RawCap = 1
    ProcCap = 1
    Unparsable = {}
    Unwritable = {}
    FaultKinds = {"stream"}
    MaxFaults = 1
PROPERTIES DeliverReturnsOnPermanentError
CHECK_DEADLOCK FALSE
