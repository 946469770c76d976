SPECIFICATION Spec
CONSTANTS
    Remote = {b2}
    NoRemote = NoRemote
    Dir = {d1}
    MaxDay = 4
    Config <- MCVariants
    NoConfig = NoConfig
    Checksum <- MCRepeating
    Mode = "rsync"
    Worker = worker
    Adhoc = {}
INVARIANTS TypeOK KeptWithinHorizons NewestStaysHot
PROPERTIES OffsiteNeverEmptied ImplementsTieredStore
