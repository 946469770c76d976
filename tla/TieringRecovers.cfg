SPECIFICATION FairSpec
CONSTANTS
    Remote = {b2}
    NoRemote = NoRemote
    Dir = {d1}
    MaxDay = 3
    Config <- MCVariants
    NoConfig = NoConfig
    Checksum <- MCRepeatingFirst
    Mode = "targz"
    Worker = worker
    Adhoc = {}
PROPERTIES EveryHotContentOffsited HotRetentionUnlessStuck
