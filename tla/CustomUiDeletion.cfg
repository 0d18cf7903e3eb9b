SPECIFICATION DeletionFairSpec
CONSTANTS
    Requests = {r1, r2}
    Objects = {f1, f2}
    MaxFaults = 3
    Null = Null
INVARIANTS
    DeletionInvariant
    RemovalIsAnnounced
    GoneMeansGone
PROPERTIES
    DeletionEnds
