SPECIFICATION CleanSpec
CONSTANTS
    Remote = {b2}
    NoRemote = NoRemote
    Dir = {d1}
    MaxDay = 3
    Config <- MCLatest
    NoConfig = NoConfig
    Checksum <- MCDistinct
    Mode = "targz"
    Worker = worker
    Adhoc = {}
PROPERTY LatestOnlyMovesForward
