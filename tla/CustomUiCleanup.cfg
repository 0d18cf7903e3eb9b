\* Two requests that can take each other's claims over, an abandoned batch and
\* the one of the manifest.
SPECIFICATION CleanupFairSpec
CONSTANTS
    Requests = {r1, r2}
    NBatches = 2
    Active = 1
    Objects = {o1}
    CasAttempts = 2
    MaxFaults = 1
    Null = Null
CHECK_DEADLOCK FALSE
INVARIANTS
    CleanupInvariant
    HoldersOwnTheirBatch
PROPERTIES
    QueueDrains
