SPECIFICATION FairSpec
CONSTANTS
    Proc = {p1, p2}
    Elsewhere = {}
    Lock <- MCLock
    Home <- MCHome
    MaxTime = 3
    MaxRun = 3
    StaleTimeout = 0
    Keep = 1
    Interval = 1
    ShownRunning = 2
INVARIANTS TypeOK ConfirmedOutcomesStay LiveRunIsLatest
PROPERTY RunningRowsEnd
CHECK_DEADLOCK FALSE
