\* Three attempts, not all of the same request.
SPECIFICATION SagaFairSpec
CONSTANTS
    Attempts = {a1, a2, a3}
    Hashes = {h1, h2}
    Plan <- TwoRoles
    Null = Null
\* The system may stop: every attempt has ended.
CHECK_DEADLOCK FALSE
INVARIANTS
    SagaInvariant
    SuccessIsKept
    LeftoversAreVisible
PROPERTIES
    KeySettles
