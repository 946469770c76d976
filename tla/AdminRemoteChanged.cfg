SPECIFICATION FairAdminSpec
CONSTANTS
    Remote = {b2, s3}
    NoRemote = none
    Dir = {d}
    MaxDay = 3
    Config <- MCConfig
    NoConfig = noconfig
    Checksum <- MCDistinct
    Mode = "targz"
    Worker = worker
    Adhoc = {}
    Start <- MCStartEqual
    MaxEras = 2
    MaxHand = 0
PROPERTY HotRetentionEnforced
CHECK_DEADLOCK FALSE
