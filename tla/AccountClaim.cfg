\* Two claims of one account, to their ends.
SPECIFICATION ClaimFairSpec
CONSTANTS
    Requests = {r1, r2}
    Passwords = {p1, p2}
    Proofs = {h1}
    ClaimLease = 1
    MaxClock = 2
    Null = Null
INVARIANTS
    ClaimInvariant
    OneClaimSucceeds
    OneUpdateReachesGoTrue
    ReplyIsTrue
PROPERTIES
    ImplementsOneTimeClaim
    OwnerSettlesReservation
