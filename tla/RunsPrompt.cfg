SPECIFICATION PromptSpec
CONSTANTS
    Proc = {p1, p2, p3}
    Elsewhere = {}
    Lock <- MCLock
    Home <- MCHome
    MaxTime = 3
    MaxRun = 1
    StaleTimeout = 1
    Keep = 1
    Interval = 1
    ShownRunning = 2
SYMMETRY Alike
INVARIANTS OneRunningRow LiveRunNotFailed
CHECK_DEADLOCK FALSE
