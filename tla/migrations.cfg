SPECIFICATION FairSpec
CONSTANTS
    Last = 3
    Procs = {p1, p2}
    MaxFaults = 2
INVARIANTS TypeOK MigratedOnceInOrder ReadyMeansMigrated
PROPERTIES EveryProcessReady
CHECK_DEADLOCK FALSE
