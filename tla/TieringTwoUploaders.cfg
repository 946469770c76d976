SPECIFICATION CleanSpec
CONSTANTS
    Remote = {b2}
    NoRemote = NoRemote
    Dir = {d1}
    MaxDay = 3
    Config <- MCEqual
    NoConfig = NoConfig
    Checksum <- MCDistinct
    Mode = "targz"
    Worker = worker
    Adhoc = {adhoc1}
INVARIANT RecordsBacked
