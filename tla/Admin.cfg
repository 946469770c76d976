SPECIFICATION AdminSpec
CONSTANTS
    Remote = {b2, s3}
    NoRemote = none
    Dir = {d}
    MaxDay = 3
    Config <- MCConfig
    NoConfig = noconfig
    Checksum <- MCDistinct
    Mode = "targz"
    Worker = worker
    Adhoc = {}
    Start <- MCStart
    MaxEras = 2
    MaxHand = 1
SYMMETRY Alike
INVARIANTS AdminTypeOK NothingLostBehindTheOperator
CHECK_DEADLOCK FALSE
