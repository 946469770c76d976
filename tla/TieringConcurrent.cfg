SPECIFICATION Spec
CONSTANTS
    Remote = {b2}
    NoRemote = NoRemote
    Dir = {d1}
    MaxDay = 3
    Config <- MCTiered
    NoConfig = NoConfig
    Checksum <- MCDistinct
    Mode = "targz"
    Worker = worker
    Adhoc = {adhoc1}
INVARIANTS TypeOK KeptWithinHorizons NewestStaysHot
PROPERTIES OffsiteNeverEmptied ImplementsTieredStore
