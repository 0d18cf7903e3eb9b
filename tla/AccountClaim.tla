---------------------------- MODULE AccountClaim ----------------------------
(***************************************************************************)
(* Self-service claiming of one pre-provisioned account: the code of       *)
(* packages/auth-server/src/repositories/account-provisioning.ts, run by   *)
(* POST /v1/public/account-claims/claim.                                   *)
(*                                                                         *)
(* rec is the account's row of account_provisioning_records.  Every UPDATE *)
(* of the code is one atomic step on rec; between two statements, and      *)
(* between a statement and the call of GoTrue, other requests run.  A      *)
(* request that dies, or whose database or audit call throws, takes Fail.  *)
(*                                                                         *)
(* initial_password_claimed and claim_state = 'claimed' are set by the one *)
(* UPDATE that sets either (finalizeAccountClaim), so rec keeps one of     *)
(* them.  'active' stands for both claimable statuses.                     *)
(***************************************************************************)
EXTENDS Naturals, FiniteSets

CONSTANTS
    Requests,    \* claim requests; a request's id is also the UUID it draws
    Passwords,   \* passwords, initial ones and those claimants choose
    Proofs,      \* hashes of claim proofs
    ClaimLease,  \* CLAIM_LEASE_MS, in ticks of the clock
    MaxClock,    \* bound of the clock
    Null         \* SQL NULL and JavaScript null

VARIABLES
    rec,         \* the provisioning row
    claim,       \* claim[r]: the local state of request r
    call,        \* call[r]: what became of r's password update in GoTrue
    gotrue,      \* the password GoTrue accepts for the account
    clock        \* new Date()

claimVars == <<rec, claim, call, gotrue, clock>>

PasswordModes == {"show_initial_password", "set_on_claim"}
ClaimStates == {"absent", "ready", "pending", "password_applied",
                "password_update_unknown", "claimed"}
Statuses == {"active", "terminated"}

\* HMAC of a chosen password: equal for equal passwords only.
HashClaimPassword(p) == [hmacOf |-> p]

\* AES-GCM of the stored initial password; no code compares two ciphertexts.
EncryptInitialPassword(p) == [cipherOf |-> p]
DecryptInitialPassword(c) == c.cipherOf

PasswordHashes == {HashClaimPassword(p) : p \in Passwords}
Ciphertexts == {EncryptInitialPassword(p) : p \in Passwords}

ASSUME ClaimAssumption ==
    /\ Null \notin Requests \cup Passwords \cup Proofs
    /\ Null \notin PasswordModes \cup ClaimStates
    /\ Null \notin PasswordHashes \cup Ciphertexts \cup Nat
    /\ ClaimLease \in Nat \ {0}
    /\ MaxClock \in Nat

\* Where a request stands.  The names are those of the next call it makes.
Running == {"reserve", "update", "updating", "mark_applied", "mark_unknown",
            "release", "audit", "finalize", "respond"}
\* "claimed" and "unavailable" are replies; "rejected" is the 400 or 503 that
\* carries GoTrue's error; "failed" is a request that ended before its claim
\* committed, "reply_lost" one that ended after it.
Finished == {"claimed", "unavailable", "rejected", "failed", "reply_lost"}

NoClaim == [pc |-> "idle", mode |-> Null, password |-> Null, hash |-> Null,
            proof |-> Null, expected |-> Null, now |-> Null]

ReadyRow(proof, encrypted, linked, status) ==
    [state |-> "ready", mode |-> Null, hash |-> Null, op |-> Null,
     lease |-> Null, count |-> 0, proof |-> proof, encrypted |-> encrypted,
     user |-> linked, status |-> status]

(***************************************************************************)
(* Initially the account was imported with an initial password that GoTrue *)
(* holds too, and nobody has tried to claim it.                            *)
(***************************************************************************)
ClaimInit ==
    /\ \E p \in Passwords, proof \in Proofs \cup {Null}, linked \in BOOLEAN :
         /\ rec = ReadyRow(proof, EncryptInitialPassword(p), linked, "active")
         /\ gotrue = p
    /\ claim = [r \in Requests |-> NoClaim]
    /\ call = [r \in Requests |-> "none"]
    /\ clock = 0

Goto(r, step) == claim' = [claim EXCEPT ![r].pc = step]

---------------------------------------------------------------------------
(* Reading the row and planning the reservation. *)

\* The early returns of claimAccount on the row it read.
Claimable(mode) ==
    /\ rec.state # "absent"
    /\ rec.status = "active"
    /\ rec.encrypted # Null
    /\ mode = "set_on_claim" => rec.user

\* A reservation whose lease ran out may be retried: an initial password that
\* was never shown, or a chosen password that GoTrue already has.
RetryMatches(mode, hash) ==
    /\ rec.lease # Null /\ rec.lease <= clock
    /\ rec.mode = mode
    /\ \/ rec.state = "pending" /\ mode = "show_initial_password"
       \/ rec.state = "password_applied" /\ mode = "set_on_claim" /\ rec.hash = hash

AccountClaimReservationPlan(mode, hash) ==
    \/ rec.state = "ready"
    \/ rec.state \in {"pending", "password_applied"} /\ RetryMatches(mode, hash)

\* claimAccount up to the UPDATE that reserves.  The row is read and the plan
\* made in one step: the UPDATE checks again what the plan was made from.
ClaimAccount(r, mode, p) ==
    LET hash == IF mode = "set_on_claim" THEN HashClaimPassword(p) ELSE Null
    IN  /\ claim[r].pc = "idle"
        /\ IF Claimable(mode) /\ AccountClaimReservationPlan(mode, hash)
           THEN claim' = [claim EXCEPT ![r] =
                    [pc |-> "reserve", mode |-> mode, hash |-> hash,
                     password |-> IF mode = "set_on_claim" THEN p ELSE Null,
                     proof |-> rec.proof, expected |-> rec.state, now |-> clock]]
           ELSE Goto(r, "unavailable")
        /\ UNCHANGED <<rec, call, gotrue, clock>>

---------------------------------------------------------------------------
(* The reservation: one compare-and-set UPDATE. *)

\* Wrong: a reservation planned on a ready row does not look at it again.
ReadyUnchecked(c) ==
    c.expected = "ready" \/ (rec.state = c.expected /\ rec.lease # Null /\ rec.lease <= c.now)

ReservationStateCondition(c) ==
    IF c.expected = "ready"
    THEN /\ rec.state = "ready"
         /\ rec.mode = Null /\ rec.hash = Null /\ rec.op = Null
    ELSE /\ rec.state = c.expected
         /\ rec.lease # Null /\ rec.lease <= c.now
         /\ rec.mode = c.mode
         /\ rec.op # Null
         /\ rec.hash = IF c.expected = "password_applied" THEN c.hash ELSE Null

PersistCondition(c) ==
    /\ rec.state \notin {"absent", "claimed"}
    /\ rec.proof = c.proof
    /\ rec.status = "active"
    /\ rec.encrypted # Null
    /\ c.mode = "set_on_claim" => rec.user
    /\ ReservationStateCondition(c)

ReservedRow(r) ==
    [rec EXCEPT !.state = IF claim[r].expected = "password_applied"
                          THEN "password_applied" ELSE "pending",
                !.mode = claim[r].mode, !.hash = claim[r].hash, !.op = r,
                !.lease = claim[r].now + ClaimLease]

\* persistAccountClaimReservation, and what the request does next: a chosen
\* password goes to GoTrue unless it is there already; an initial password is
\* decrypted from the returned row.
Reserve(r) ==
    /\ claim[r].pc = "reserve"
    /\ PersistCondition(claim[r])
    /\ rec' = ReservedRow(r)
    /\ claim' = [claim EXCEPT
         ![r].pc = IF claim[r].mode = "set_on_claim"
                      /\ claim[r].expected # "password_applied"
                   THEN "update" ELSE "audit",
         ![r].password = IF claim[r].mode = "set_on_claim" THEN @
                         ELSE DecryptInitialPassword(rec.encrypted)]
    /\ UNCHANGED <<call, gotrue, clock>>

LoseReservationRace(r) ==
    /\ claim[r].pc = "reserve"
    /\ ~PersistCondition(claim[r])
    /\ Goto(r, "unavailable")
    /\ UNCHANGED <<rec, call, gotrue, clock>>

---------------------------------------------------------------------------
(* The password update in GoTrue, which may be refused, time out, or land  *)
(* after the request stopped waiting for it.                               *)

SendPasswordUpdate(r) ==
    /\ claim[r].pc = "update"
    /\ Goto(r, "updating")
    /\ call' = [call EXCEPT ![r] = "sent"]
    /\ UNCHANGED <<rec, gotrue, clock>>

GoTrueApplies(r) ==
    /\ call[r] = "sent"
    /\ call' = [call EXCEPT ![r] = "applied"]
    /\ gotrue' = claim[r].password
    /\ UNCHANGED <<rec, claim, clock>>

\* GoTrue refuses a password its policy finds weak, and keeps the old one.
GoTrueRejects(r) ==
    /\ call[r] = "sent"
    /\ call' = [call EXCEPT ![r] = "rejected"]
    /\ UNCHANGED <<rec, claim, gotrue, clock>>

\* Wrong: a timeout is taken for success.
UpdateAssumed(r) ==
    /\ claim[r].pc = "updating"
    /\ Goto(r, "mark_applied")
    /\ UNCHANGED <<rec, call, gotrue, clock>>

\* Wrong: a timeout is taken for a rejection.
UpdateTakenForRejected(r) ==
    /\ claim[r].pc = "updating"
    /\ Goto(r, "release")
    /\ UNCHANGED <<rec, call, gotrue, clock>>

\* How applyReservedPassword goes on: after an answer, after a definitive
\* rejection, and after anything else (a timeout, a 5xx, a lost connection).
UpdateSucceeds(r) ==
    /\ claim[r].pc = "updating" /\ call[r] = "applied"
    /\ Goto(r, "mark_applied")
    /\ UNCHANGED <<rec, call, gotrue, clock>>

UpdateRejected(r) ==
    /\ claim[r].pc = "updating" /\ call[r] = "rejected"
    /\ Goto(r, "release")
    /\ UNCHANGED <<rec, call, gotrue, clock>>

UpdateAmbiguous(r) ==
    /\ claim[r].pc = "updating"
    /\ Goto(r, "mark_unknown")
    /\ UNCHANGED <<rec, call, gotrue, clock>>

---------------------------------------------------------------------------
(* Writes of the reservation's owner, each conditional on still owning it. *)

ReservationOwned(r, state) ==
    /\ rec.state = state
    /\ rec.proof = claim[r].proof
    /\ rec.mode = claim[r].mode
    /\ rec.op = r
    /\ rec.hash = claim[r].hash

\* Wrong: the release leaves the password hash behind.
ReleaseKeepsHash(r) ==
    /\ claim[r].pc = "release"
    /\ rec' = [rec EXCEPT !.state = "ready", !.mode = Null, !.op = Null, !.lease = Null]
    /\ Goto(r, "rejected")
    /\ UNCHANGED <<call, gotrue, clock>>

\* Wrong: the release looks for the state that follows the update.
ReleaseMissesRow(r) ==
    /\ claim[r].pc = "release"
    /\ ~ReservationOwned(r, "password_applied")
    /\ Goto(r, "rejected")
    /\ UNCHANGED <<rec, call, gotrue, clock>>

\* The row is written when the condition holds; the request always goes on
\* with the error GoTrue returned.
ReleasePasswordReservation(r) ==
    /\ claim[r].pc = "release"
    /\ rec' = IF ReservationOwned(r, "pending")
              THEN [rec EXCEPT !.state = "ready", !.mode = Null, !.hash = Null,
                               !.op = Null, !.lease = Null]
              ELSE rec
    /\ Goto(r, "rejected")
    /\ UNCHANGED <<call, gotrue, clock>>

MarkClaimPasswordApplied(r) ==
    /\ claim[r].pc = "mark_applied"
    /\ ReservationOwned(r, "pending")
    /\ rec' = [rec EXCEPT !.state = "password_applied"]
    /\ Goto(r, "audit")
    /\ UNCHANGED <<call, gotrue, clock>>

MarkClaimPasswordUpdateUnknown(r) ==
    /\ claim[r].pc = "mark_unknown"
    /\ ReservationOwned(r, "pending")
    /\ rec' = [rec EXCEPT !.state = "password_update_unknown", !.lease = Null]
    /\ Goto(r, "rejected")
    /\ UNCHANGED <<call, gotrue, clock>>

\* auditAccountClaim returned; when it throws the request takes Fail.
AuditAccountClaim(r) ==
    /\ claim[r].pc = "audit"
    /\ Goto(r, "finalize")
    /\ UNCHANGED <<rec, call, gotrue, clock>>

FinalState(r) ==
    IF claim[r].mode = "set_on_claim" THEN "password_applied" ELSE "pending"

\* Wrong: the claim is finalized by the row's id alone.
FinalizeById(r) ==
    /\ claim[r].pc = "finalize"
    /\ rec' = [rec EXCEPT !.state = "claimed", !.encrypted = Null,
                          !.count = @ + 1, !.proof = Null, !.mode = Null,
                          !.hash = Null, !.op = Null, !.lease = Null]
    /\ Goto(r, "respond")
    /\ UNCHANGED <<call, gotrue, clock>>

FinalizeAccountClaim(r) ==
    /\ claim[r].pc = "finalize"
    /\ ReservationOwned(r, FinalState(r))
    /\ rec' = [rec EXCEPT !.state = "claimed", !.encrypted = Null,
                          !.count = @ + 1, !.proof = Null, !.mode = Null,
                          !.hash = Null, !.op = Null, !.lease = Null]
    /\ Goto(r, "respond")
    /\ UNCHANGED <<call, gotrue, clock>>

\* "Account claim reservation was lost": the three writes above that throw
\* when they change no row.
ReservationLost(r) ==
    /\ \/ claim[r].pc \in {"mark_applied", "mark_unknown"}
          /\ ~ReservationOwned(r, "pending")
       \/ claim[r].pc = "finalize" /\ ~ReservationOwned(r, FinalState(r))
    /\ Goto(r, "failed")
    /\ UNCHANGED <<rec, call, gotrue, clock>>

\* The reply: the initial password, or password_set.
Respond(r) ==
    /\ claim[r].pc = "respond"
    /\ Goto(r, "claimed")
    /\ UNCHANGED <<rec, call, gotrue, clock>>

---------------------------------------------------------------------------
(* Everything else that happens. *)

\* The function is killed, a statement or the audit throws, or the reply never
\* reaches the claimant.  A statement that commits and then throws is its
\* action followed by Fail.
Fail(r) ==
    /\ claim[r].pc \in Running
    /\ Goto(r, IF claim[r].pc = "respond" THEN "reply_lost" ELSE "failed")
    /\ UNCHANGED <<rec, call, gotrue, clock>>

\* updateRecordSourceStatus, as the employee synchronisation calls it.
UpdateRecordSourceStatus(status) ==
    /\ rec.state # "absent"
    /\ rec.status # status
    /\ rec' = [rec EXCEPT !.status = status]
    /\ UNCHANGED <<claim, call, gotrue, clock>>

Tick ==
    /\ clock < MaxClock
    /\ clock' = clock + 1
    /\ UNCHANGED <<rec, claim, call, gotrue>>

\* The statements of a request once it runs.
Proceed(r) ==
    \/ Reserve(r) \/ LoseReservationRace(r)
    \/ SendPasswordUpdate(r)
    \/ UpdateSucceeds(r) \/ UpdateRejected(r) \/ UpdateAmbiguous(r)
    \/ ReleasePasswordReservation(r)
    \/ MarkClaimPasswordApplied(r) \/ MarkClaimPasswordUpdateUnknown(r)
    \/ AuditAccountClaim(r) \/ FinalizeAccountClaim(r)
    \/ ReservationLost(r) \/ Respond(r)

ClaimNext ==
    \/ \E r \in Requests :
         \/ \E mode \in PasswordModes, p \in Passwords : ClaimAccount(r, mode, p)
         \/ Proceed(r)
         \/ GoTrueApplies(r) \/ GoTrueRejects(r)
         \/ Fail(r)
    \/ \E status \in Statuses : UpdateRecordSourceStatus(status)
    \/ Tick

ClaimSpec == ClaimInit /\ [][ClaimNext]_claimVars

\* A running request keeps running: its statements return or throw, and its
\* call of GoTrue is aborted after 30 seconds.  Nothing makes a claimant come
\* back, GoTrue answer or a clock tick matter.
ClaimFairSpec == ClaimSpec /\ \A r \in Requests : WF_claimVars(Proceed(r))
---------------------------------------------------------------------------
(* Properties. *)

ClaimRow ==
    [state : ClaimStates, mode : PasswordModes \cup {Null},
     hash : PasswordHashes \cup {Null}, op : Requests \cup {Null},
     lease : Nat \cup {Null}, count : Nat, proof : Proofs \cup {Null},
     encrypted : Ciphertexts \cup {Null}, user : BOOLEAN, status : Statuses]

ClaimRequest ==
    [pc : Running \cup Finished \cup {"idle"}, mode : PasswordModes \cup {Null},
     password : Passwords \cup {Null}, hash : PasswordHashes \cup {Null},
     proof : Proofs \cup {Null}, expected : ClaimStates \cup {Null},
     now : Nat \cup {Null}]

\* The type invariant: every variable holds what its column or local may hold.
ClaimTypeOK ==
    /\ rec \in ClaimRow
    /\ claim \in [Requests -> ClaimRequest]
    /\ call \in [Requests -> {"none", "sent", "applied", "rejected"}]
    /\ gotrue \in Passwords \cup {Null}
    /\ clock \in Nat

\* Requests whose claim committed, told so or not.
Winners == {r \in Requests : claim[r].pc \in {"respond", "claimed", "reply_lost"}}

\* Requests between reserving the row and recording what GoTrue answered.
Updaters == {r \in Requests : claim[r].pc \in
               {"update", "updating", "mark_applied", "mark_unknown", "release"}}

\* Requests whose password update GoTrue performed or may still perform.
MayHaveUpdated == {r \in Requests : call[r] \in {"sent", "applied"}}

\* Of any number of concurrent claims and retries at most one succeeds, and
\* the row counts it once and stays claimed (finalizeAccountClaim).
OneClaimSucceeds ==
    /\ \A r, s \in Winners : r = s
    /\ Winners # {} <=> rec.state = "claimed"
    /\ rec.count = IF Winners = {} THEN 0 ELSE 1

\* While a request is changing the password in GoTrue no other request takes
\* its reservation over, however long the lease has expired (retryMatches
\* leaves a pending set_on_claim reservation alone).
UpdaterKeepsReservation ==
    \A r \in Updaters : /\ rec.op = r
                        /\ rec.state = "pending"
                        /\ rec.mode = "set_on_claim"

\* At most one password update is ever performed or left to be performed in
\* GoTrue: an ambiguous one is never repeated, a late one meets no other.
OneUpdateReachesGoTrue == \A r, s \in MayHaveUpdated : r = s

\* The password a claim ends with, set or disclosed, is the one GoTrue accepts,
\* then and ever after: no earlier attempt's update can still overwrite it.
ReplyIsTrue == \A r \in Winners : gotrue = claim[r].password

\* The columns of each state are those the next reservation's WHERE clause
\* looks for; a row with any other combination could never be claimed again.
RowWellFormed ==
    /\ rec.state \in {"absent", "ready", "claimed"} =>
         rec.mode = Null /\ rec.hash = Null /\ rec.op = Null /\ rec.lease = Null
    /\ rec.state \in {"pending", "password_applied"} =>
         rec.op # Null /\ rec.mode # Null /\ rec.lease # Null
    /\ rec.state = "pending" => (rec.hash = Null <=> rec.mode = "show_initial_password")
    /\ rec.state = "password_applied" => rec.hash # Null /\ rec.mode = "set_on_claim"

\* What every step of claiming relies on: the types, an exclusive reservation
\* and a row that can be continued.
ClaimInvariant == ClaimTypeOK /\ UpdaterKeepsReservation /\ RowWellFormed

\* A claim is never undone or counted again, and an ambiguous password update
\* waits for manual recovery: no request moves the row out of either state.
TerminalStates ==
    [][ /\ rec.state = "claimed" => rec'.state = "claimed" /\ rec'.count = rec.count
        /\ rec.state = "password_update_unknown" =>
             rec'.state = "password_update_unknown" ]_claimVars

\* A reservation does not outlive the request that holds it unless that request
\* failed: the owner finalizes it, releases it or hands it to manual recovery.
OwnerSettlesReservation ==
    \A r \in Requests :
        (rec.state = "pending" /\ rec.op = r) ~>
          (rec.state # "pending" \/ rec.op # r \/ claim[r].pc = "failed")

\* The protocol implements the one-time claim: the owner is the request whose
\* finalizing UPDATE committed, the credential what GoTrue accepts.
Owner == IF Winners = {} THEN Null ELSE CHOOSE r \in Winners : TRUE
Told == [r \in Requests |->
           IF claim[r].pc = "claimed" THEN claim[r].password ELSE Null]

Abstract == INSTANCE OneTimeClaim
              WITH owner <- Owner, credential <- gotrue, told <- Told
ImplementsOneTimeClaim == Abstract!Spec
=============================================================================
