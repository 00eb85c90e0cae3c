SPECIFICATION Spec
CONSTANTS
    StartBlk = 1
    MaxHeight = 5
    Processors = {p1, p2}
    Writers = {w1, w2}
    RawCap = 1
    ProcCap = 1
    Unparsable = {3}
    Unwritable = {4}
    FaultKinds = {"crash", "db", "stream", "scan"}
    MaxFaults = 2
SYMMETRY Lanes
INVARIANTS TypeOK NoBlockSkipped
PROPERTIES ResumesAtFirstGap LedgerSafety
CHECK_DEADLOCK FALSE
