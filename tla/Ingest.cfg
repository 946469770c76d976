SPECIFICATION Spec
CONSTANTS
    Upload = {u1, u2}
    MaxTime = 5
    MaxUpload = 2
    PartAge = 1
    Retention = 2
    Offsite = TRUE
SYMMETRY Alike
INVARIANTS TypeOK OkMeansKept LatestIsComplete
CHECK_DEADLOCK FALSE
