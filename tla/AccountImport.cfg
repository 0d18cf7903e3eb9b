\* Two claims and one import, with or without create_users.
SPECIFICATION ImportSpec
CONSTANTS
    Requests = {r1, r2}
    Imports = {i1}
    Passwords = {p1, p2}
    Proofs = {h1}
    ClaimLease = 1
    MaxClock = 1
    Null = Null
SYMMETRY ImportSymmetry
\* The system may stop: every request and import has ended, the clock is spent.
CHECK_DEADLOCK FALSE
INVARIANTS
    ImportInvariant
    SetPasswordWorks
PROPERTIES
    TerminalStates
