\* One client and the job, overlapping freely.
SPECIFICATION SyncFairSpec
CONSTANTS
    Employees = {e1, e2, e3}
    SyncStatuses = {active, terminated, on_leave}
    Active = {active}
    BatchSize = 2
    PageLimit = 2
    Linked = {e1, e2}
    Syncs = {s1}
    Jobs = {j1}
    MaxChanges = 2
    MaxFailures = 1
INVARIANTS
    SyncInvariant
PROPERTIES
    ReconcileConverges
