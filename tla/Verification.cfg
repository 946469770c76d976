SPECIFICATION BooksSpec
CONSTANTS
    Remote = {b2}
    NoRemote = NoRemote
    Dir = {d1}
    MaxDay = 3
    Config <- MCVariants
    NoConfig = NoConfig
    Checksum <- MCRepeating
    Mode = "rsync"
    Worker = worker
    Adhoc = {}
    Faults <- MCFaults
INVARIANTS BooksTypeOK VouchedForIsThere InStepWithoutTears KeptUnlessLost
CHECK_DEADLOCK FALSE
