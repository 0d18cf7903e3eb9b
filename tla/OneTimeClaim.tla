---------------------------- MODULE OneTimeClaim ----------------------------
(***************************************************************************)
(* What claiming an account promises, whatever the order in which requests *)
(* run, die and return: the account goes to at most one claimant; once it  *)
(* has, its password no longer changes; and the winner is told exactly the *)
(* password that works.  Before that, the password may change any number   *)
(* of times, as attempts that end without a winner leave it.               *)
(***************************************************************************)
CONSTANTS Requests, Passwords, Null

VARIABLES
    owner,       \* the request the account went to, or Null
    credential,  \* the password that works
    told         \* told[r]: the password request r was told, or Null

Init ==
    /\ owner = Null
    /\ credential \in Passwords
    /\ told = [r \in Requests |-> Null]

ChangeCredential ==
    /\ owner = Null
    /\ credential' \in Passwords
    /\ UNCHANGED <<owner, told>>

Grant(r) ==
    /\ owner = Null
    /\ owner' = r
    /\ UNCHANGED <<credential, told>>

Tell(r) ==
    /\ owner = r
    /\ told' = [told EXCEPT ![r] = credential]
    /\ UNCHANGED <<owner, credential>>

Next == ChangeCredential \/ \E r \in Requests : Grant(r) \/ Tell(r)

Spec == Init /\ [][Next]_<<owner, credential, told>>
=============================================================================
