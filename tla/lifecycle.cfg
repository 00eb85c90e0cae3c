SPECIFICATION FairSpec
CONSTANTS
    Writers = {w1, w2}
    Requests = {r1, r2}
    MaxConns = 3
    Statements = 2
    MaxFaults = 2
INVARIANTS TypeOK NoConnectionLeaks NoRequestCutOff
PROPERTIES RequestsAreAnswered ShutdownCompletes
CHECK_DEADLOCK FALSE
