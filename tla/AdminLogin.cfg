SPECIFICATION LoginSpec
CONSTANTS
    r1 = r1
    r2 = r2
    r3 = r3
    k1 = k1
    k2 = k2
    k3 = k3
    Requests = {r1, r2, r3}
    Keys = {k1, k2, k3}
    Policies <- MCPolicies
    EnvPolicy <- MCEnv
    MaxEntries = 2
    Never = 99
    Window = 2
    CacheTime = 1
    MaxTime = 4
    MaxEvents = 1
    Null = Null
SYMMETRY LoginSymmetry
CHECK_DEADLOCK FALSE
INVARIANTS
    LoginInvariant
PROPERTIES
    RefusalsAreDue
    AdmissionsAreDue
