SPECIFICATION PromptSpec
CONSTANTS
    Proc = {p1, p2}
    Elsewhere = {}
    Lock <- MCLock
    Home <- MCHome
    MaxTime = 4
    MaxRun = 4
    StaleTimeout = 3
    Keep = 4
    Interval = 1
    ShownRunning = 3
INVARIANT OkMeansRecentSuccess
CHECK_DEADLOCK FALSE
