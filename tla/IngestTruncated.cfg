SPECIFICATION Spec
CONSTANTS
    Upload = {u1, u2}
    MaxTime = 2
    MaxUpload = 2
    PartAge = 1
    Retention = 2
    Offsite = TRUE
SYMMETRY Alike
INVARIANT ListedMeansWhole
CHECK_DEADLOCK FALSE
