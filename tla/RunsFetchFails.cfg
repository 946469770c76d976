SPECIFICATION PromptSpec
CONSTANTS
    Proc = {p1, p2}
    Elsewhere = {p1, p2}
    Lock <- MCLock
    Home <- MCHome
    MaxTime = 2
    MaxRun = 1
    StaleTimeout = 1
    Keep = 2
    Interval = 1
    ShownRunning = 2
INVARIANT LiveRunNotFailed
CHECK_DEADLOCK FALSE
