\* One step stands for the three that are a call each.
SPECIFICATION StorageSpec
CONSTANTS
    Runs = {c1, c2}
    Uploads = {u1, u2}
    Checks <- MCChecks
    MaxFaults = 1
    MaxRollbacks = 1
    Null = Null
CHECK_DEADLOCK FALSE
INVARIANTS
    StorageInvariant
    FailedIsNotShown
PROPERTIES
    OwnFailureShows
    Converges
