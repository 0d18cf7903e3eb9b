---------------------------- MODULE AccountProofs ----------------------------
(***************************************************************************)
(* The accounts of employees.  Claiming, for any number of requests,       *)
(* passwords and proofs, any lease and any clock: the row and the          *)
(* requests, what reaches GoTrue, and the abstract specification.          *)
(* Imports beside claims, for any number of either: no write of an import  *)
(* breaks what claiming relies on, undoes a claim, or, while the imports   *)
(* leave GoTrue alone, makes a chosen password differ from GoTrue's.       *)
(* Status synchronisation beside the reconcile job, for any employees,     *)
(* statuses and batch size, however many calls fail.                       *)
(***************************************************************************)
EXTENDS AccountImport, EmployeeStatusSync, SequenceTheorems, FiniteSetTheorems, TLAPS



(***************************************************************************)
(* The part of the inductive invariant that speaks of the row and of the   *)
(* requests, and not of GoTrue.                                            *)
(***************************************************************************)

\* What a request that has a plan carries: its mode, and the hash of the
\* password it wants to set.
LocalOK(r) ==
    claim[r].pc \in Running \cup {"claimed", "reply_lost"} =>
      /\ claim[r].mode \in PasswordModes
      /\ claim[r].now \in Nat
      /\ claim[r].expected \in {"ready", "pending", "password_applied"}
      /\ claim[r].mode = "set_on_claim" =>
           /\ claim[r].password \in Passwords
           /\ claim[r].hash = HashClaimPassword(claim[r].password)
      /\ claim[r].mode = "show_initial_password" =>
           /\ claim[r].hash = Null
           /\ claim[r].expected # "password_applied"
           /\ claim[r].pc # "reserve" => claim[r].password \in Passwords

RowInv ==
    /\ ClaimTypeOK
    /\ \A r \in Requests : LocalOK(r)
    /\ RowWellFormed
    /\ UpdaterKeepsReservation
    /\ OneClaimSucceeds

LEMMA RowInvInit == ClaimInit => RowInv
<1> SUFFICES ASSUME ClaimInit PROVE RowInv
  OBVIOUS
<1> USE ClaimAssumption
<1>1. PICK p \in Passwords, proof \in Proofs \cup {Null}, linked \in BOOLEAN :
        /\ rec = ReadyRow(proof, EncryptInitialPassword(p), linked, "active")
        /\ gotrue = p
  BY DEF ClaimInit
<1>2. /\ claim = [r \in Requests |-> NoClaim]
      /\ call = [r \in Requests |-> "none"]
      /\ clock = 0
  BY DEF ClaimInit
<1>3. ClaimTypeOK
  BY <1>1, <1>2 DEF ClaimTypeOK, ReadyRow, NoClaim, ClaimRow, ClaimRequest,
     Ciphertexts, ClaimStates, Statuses
<1>4. \A r \in Requests : LocalOK(r)
  BY <1>2 DEF LocalOK, NoClaim, Running
<1>5. RowWellFormed
  BY <1>1 DEF RowWellFormed, ReadyRow
<1>6. UpdaterKeepsReservation
  BY <1>2 DEF UpdaterKeepsReservation, Updaters, NoClaim
<1>7. OneClaimSucceeds
  BY <1>1, <1>2 DEF OneClaimSucceeds, Winners, NoClaim, ReadyRow
<1> QED BY <1>3, <1>4, <1>5, <1>6, <1>7 DEF RowInv

(* Type correctness, one step per action. *)
LEMMA TypeStep == RowInv /\ ClaimNext => ClaimTypeOK'
<1> SUFFICES ASSUME RowInv, ClaimNext PROVE ClaimTypeOK'
  OBVIOUS
<1> USE ClaimAssumption DEF RowInv, ClaimTypeOK
<1>goto. ASSUME NEW r \in Requests, NEW step \in Running \cup Finished,
                Goto(r, step), UNCHANGED <<rec, call, gotrue, clock>>
         PROVE  ClaimTypeOK'
  BY <1>goto DEF Goto, ClaimRequest
<1>1. ASSUME NEW r \in Requests, NEW mode \in PasswordModes, NEW p \in Passwords,
             ClaimAccount(r, mode, p)
      PROVE  ClaimTypeOK'
  BY <1>1, <1>goto DEF ClaimAccount, ClaimRequest, ClaimRow, PasswordHashes, Running, Finished
<1>2. ASSUME NEW r \in Requests, Reserve(r) PROVE ClaimTypeOK'
  <2>1. /\ claim[r] \in ClaimRequest /\ rec \in ClaimRow
        /\ claim[r].now \in Nat /\ claim[r].now + ClaimLease \in Nat
        /\ claim[r].mode \in PasswordModes
    BY <1>2 DEF Reserve, LocalOK, Running
  <2>2. rec' \in ClaimRow
    BY ZenonT(40), <1>2, <2>1 DEF Reserve, ReservedRow, ClaimRow, ClaimRequest, ClaimStates
  <2>3. DecryptInitialPassword(rec.encrypted) \in Passwords
    BY <1>2, <2>1 DEF Reserve, PersistCondition, ClaimRow, Ciphertexts,
       EncryptInitialPassword, DecryptInitialPassword
  <2>4. claim' \in [Requests -> ClaimRequest]
    BY ZenonT(40), <1>2, <2>1, <2>3 DEF Reserve, ClaimRequest, Running
  <2> QED BY <1>2, <2>2, <2>4 DEF Reserve
<1>3. ASSUME NEW r \in Requests,
             \/ LoseReservationRace(r) \/ UpdateSucceeds(r) \/ UpdateRejected(r)
             \/ UpdateAmbiguous(r) \/ AuditAccountClaim(r) \/ ReservationLost(r)
             \/ Respond(r) \/ Fail(r)
      PROVE  ClaimTypeOK'
  BY <1>3, <1>goto DEF LoseReservationRace, UpdateSucceeds, UpdateRejected,
     UpdateAmbiguous, AuditAccountClaim, ReservationLost, Respond, Fail, Running, Finished
<1>4. ASSUME NEW r \in Requests,
             SendPasswordUpdate(r) \/ GoTrueApplies(r) \/ GoTrueRejects(r)
      PROVE  ClaimTypeOK'
  BY <1>4 DEF SendPasswordUpdate, GoTrueApplies, GoTrueRejects, Goto, ClaimRequest, Running
<1>5. ASSUME NEW r \in Requests,
             \/ ReleasePasswordReservation(r) \/ MarkClaimPasswordApplied(r)
             \/ MarkClaimPasswordUpdateUnknown(r) \/ FinalizeAccountClaim(r)
      PROVE  ClaimTypeOK'
  <2>1. claim' \in [Requests -> ClaimRequest]
    BY <1>5 DEF ReleasePasswordReservation, MarkClaimPasswordApplied,
       MarkClaimPasswordUpdateUnknown, FinalizeAccountClaim, Goto,
       ClaimRequest, Running, Finished
  <2>2. CASE ReleasePasswordReservation(r)
    BY <2>1, <2>2 DEF ReleasePasswordReservation, ClaimRow, ClaimStates
  <2>3. CASE MarkClaimPasswordApplied(r)
    BY <2>1, <2>3 DEF MarkClaimPasswordApplied, ClaimRow, ClaimStates
  <2>4. CASE MarkClaimPasswordUpdateUnknown(r)
    BY <2>1, <2>4 DEF MarkClaimPasswordUpdateUnknown, ClaimRow, ClaimStates
  <2>5. CASE FinalizeAccountClaim(r)
    <3>1. rec.count + 1 \in Nat
      BY DEF ClaimRow
    <3>2. rec' \in ClaimRow
      BY <2>5, <3>1 DEF FinalizeAccountClaim, ClaimRow, ClaimStates
    <3> QED BY <2>1, <2>5, <3>2 DEF FinalizeAccountClaim
  <2> QED BY <1>5, <2>2, <2>3, <2>4, <2>5
<1>6. ASSUME NEW new \in Statuses, UpdateRecordSourceStatus(new)
      PROVE  ClaimTypeOK'
  BY <1>6 DEF UpdateRecordSourceStatus, ClaimRow
<1>7. CASE Tick
  BY <1>7 DEF Tick
<1> QED BY <1>1, <1>2, <1>3, <1>4, <1>5, <1>6, <1>7 DEF ClaimNext, Proceed

(***************************************************************************)
(* Every action either leaves the row's claim columns alone or is one of   *)
(* the five writes of a reservation.                                       *)
(***************************************************************************)
ClaimColumnsUnchanged ==
    /\ rec'.state = rec.state /\ rec'.mode = rec.mode /\ rec'.hash = rec.hash
    /\ rec'.op = rec.op /\ rec'.lease = rec.lease /\ rec'.count = rec.count

RowWrite(r) ==
    \/ Reserve(r) \/ ReleasePasswordReservation(r) \/ MarkClaimPasswordApplied(r)
    \/ MarkClaimPasswordUpdateUnknown(r) \/ FinalizeAccountClaim(r)

\* The moves of a request that leave the row alone, and the calls of GoTrue.
QuietMove(r) ==
    \/ LoseReservationRace(r) \/ SendPasswordUpdate(r) \/ UpdateSucceeds(r)
    \/ UpdateRejected(r) \/ UpdateAmbiguous(r) \/ AuditAccountClaim(r)
    \/ ReservationLost(r) \/ Respond(r) \/ Fail(r)
GoTrueStep(r) == GoTrueApplies(r) \/ GoTrueRejects(r)

LEMMA StepCases ==
    ASSUME ClaimNext
    PROVE  \/ \E r \in Requests :
                \/ \E mode \in PasswordModes, p \in Passwords : ClaimAccount(r, mode, p)
                \/ QuietMove(r) \/ GoTrueStep(r) \/ RowWrite(r)
           \/ \E new \in Statuses : UpdateRecordSourceStatus(new)
           \/ Tick
BY DEF ClaimNext, Proceed, RowWrite, QuietMove, GoTrueStep

UpdaterSteps == {"update", "updating", "mark_applied", "mark_unknown", "release"}
WinnerSteps == {"respond", "claimed", "reply_lost"}

LEMMA QuietMoveSteps ==
    ASSUME NEW r \in Requests, QuietMove(r)
    PROVE  \E to \in Running \cup Finished :
             /\ claim' = [claim EXCEPT ![r].pc = to]
             /\ claim[r].pc \in Running
             /\ claim[r].pc = "reserve" => to \in {"unavailable", "failed"}
             /\ to \in UpdaterSteps => claim[r].pc \in UpdaterSteps
             /\ to \in WinnerSteps <=> claim[r].pc \in WinnerSteps
<1> USE DEF Goto, Running, Finished, UpdaterSteps, WinnerSteps
<1>1. CASE LoseReservationRace(r) BY <1>1 DEF LoseReservationRace
<1>2. CASE SendPasswordUpdate(r) BY <1>2 DEF SendPasswordUpdate
<1>3. CASE UpdateSucceeds(r) BY <1>3 DEF UpdateSucceeds
<1>4. CASE UpdateRejected(r) BY <1>4 DEF UpdateRejected
<1>5. CASE UpdateAmbiguous(r) BY <1>5 DEF UpdateAmbiguous
<1>6. CASE AuditAccountClaim(r) BY <1>6 DEF AuditAccountClaim
<1>7. CASE ReservationLost(r) BY <1>7 DEF ReservationLost
<1>8. CASE Respond(r) BY <1>8 DEF Respond
<1>9. CASE Fail(r)
  <2>1. CASE claim[r].pc = "respond"
    <3>1. claim' = [claim EXCEPT ![r].pc = "reply_lost"]
      BY <1>9, <2>1 DEF Fail
    <3> QED BY <2>1, <3>1
  <2>2. CASE claim[r].pc # "respond"
    <3>1. claim' = [claim EXCEPT ![r].pc = "failed"] /\ claim[r].pc \in Running
      BY <1>9, <2>2 DEF Fail
    <3> QED BY <2>2, <3>1
  <2> QED BY <2>1, <2>2
<1> QED BY <1>1, <1>2, <1>3, <1>4, <1>5, <1>6, <1>7, <1>8, <1>9 DEF QuietMove

\* Such a move leaves the row and the other requests alone, wins nothing, and
\* makes the request an updater only when it was one.
QuietEffect(r) ==
    /\ rec' = rec
    /\ \A s \in Requests \ {r} : claim'[s] = claim[s]
    /\ r \in Updaters' => r \in Updaters
    /\ r \in Winners' <=> r \in Winners
    /\ LocalOK(r)'

LEMMA QuietMoveEffect ==
    ASSUME RowInv, NEW r \in Requests, QuietMove(r)
    PROVE  QuietEffect(r)
<1> USE DEF RowInv, ClaimTypeOK
<1>1. PICK to \in Running \cup Finished :
        /\ claim' = [claim EXCEPT ![r].pc = to]
        /\ claim[r].pc \in Running
        /\ claim[r].pc = "reserve" => to \in {"unavailable", "failed"}
        /\ to \in UpdaterSteps => claim[r].pc \in UpdaterSteps
        /\ to \in WinnerSteps <=> claim[r].pc \in WinnerSteps
  BY QuietMoveSteps
<1>2. /\ claim'[r] = [claim[r] EXCEPT !.pc = to]
      /\ claim[r] \in ClaimRequest
      /\ \A s \in Requests \ {r} : claim'[s] = claim[s]
  BY <1>1
<1>3. rec' = rec
  BY DEF QuietMove, LoseReservationRace, SendPasswordUpdate, UpdateSucceeds,
     UpdateRejected, UpdateAmbiguous, AuditAccountClaim, ReservationLost, Respond, Fail
<1>4. /\ claim'[r].pc = to
      /\ claim'[r].mode = claim[r].mode /\ claim'[r].now = claim[r].now
      /\ claim'[r].expected = claim[r].expected /\ claim'[r].hash = claim[r].hash
      /\ claim'[r].password = claim[r].password
  BY <1>2 DEF ClaimRequest
<1>5. LocalOK(r)'
  BY <1>1, <1>4 DEF LocalOK, Running
<1>6. (r \in Updaters' => r \in Updaters) /\ (r \in Winners' <=> r \in Winners)
  BY <1>1, <1>4 DEF Updaters, Winners, UpdaterSteps, WinnerSteps
<1> QED BY <1>2, <1>3, <1>5, <1>6 DEF QuietEffect

LEMMA ClaimAccountEffect ==
    ASSUME RowInv, NEW r \in Requests, NEW mode \in PasswordModes,
           NEW p \in Passwords, ClaimAccount(r, mode, p)
    PROVE  QuietEffect(r)
<1> USE ClaimAssumption DEF RowInv, ClaimTypeOK
<1>1. rec' = rec /\ claim[r].pc = "idle"
      /\ \A s \in Requests \ {r} : claim'[s] = claim[s]
  BY DEF ClaimAccount, Goto
<1>2. CASE Claimable(mode) /\ AccountClaimReservationPlan(mode,
             IF mode = "set_on_claim" THEN HashClaimPassword(p) ELSE Null)
  <2>1. /\ claim'[r].pc = "reserve" /\ claim'[r].mode = mode
        /\ claim'[r].hash = IF mode = "set_on_claim" THEN HashClaimPassword(p) ELSE Null
        /\ claim'[r].password = IF mode = "set_on_claim" THEN p ELSE Null
        /\ claim'[r].expected = rec.state /\ claim'[r].now = clock
    BY <1>2 DEF ClaimAccount
  <2>2. /\ rec.state \in {"ready", "pending", "password_applied"}
        /\ rec.state = "password_applied" => mode = "set_on_claim"
    BY <1>2 DEF AccountClaimReservationPlan, RetryMatches
  <2>3. LocalOK(r)'
    BY <2>1, <2>2 DEF LocalOK, PasswordModes
  <2> QED BY <1>1, <2>1, <2>3 DEF QuietEffect, Updaters, Winners
<1>3. CASE ~(Claimable(mode) /\ AccountClaimReservationPlan(mode,
             IF mode = "set_on_claim" THEN HashClaimPassword(p) ELSE Null))
  <2>1. claim'[r].pc = "unavailable"
    BY <1>3 DEF ClaimAccount, Goto, ClaimRequest
  <2> QED BY <1>1, <2>1 DEF QuietEffect, LocalOK, Updaters, Winners, Running
<1> QED BY <1>2, <1>3

LEMMA GoTrueStepEffect ==
    ASSUME RowInv, NEW r \in Requests, GoTrueStep(r)
    PROVE  QuietEffect(r)
BY DEF RowInv, ClaimTypeOK, GoTrueStep, GoTrueApplies, GoTrueRejects, QuietEffect,
   LocalOK, Updaters, Winners

\* What the five writes do to the row, and when.
LEMMA RowWriteEffect ==
    ASSUME RowInv, NEW r \in Requests, RowWrite(r)
    PROVE  /\ \A s \in Requests \ {r} : claim'[s] = claim[s]
           /\ LocalOK(r)'
           /\ r \notin Winners
           /\ rec.state \notin {"absent", "claimed", "password_update_unknown"}
              \/ rec' = rec
<1> USE ClaimAssumption DEF RowInv, ClaimTypeOK
<1>1. CASE Reserve(r)
  <2>1. /\ claim[r].pc = "reserve" /\ LocalOK(r)
        /\ rec.state \in {"ready", "pending", "password_applied"}
    BY <1>1 DEF Reserve, PersistCondition, ReservationStateCondition, LocalOK, Running
  <2>2. DecryptInitialPassword(rec.encrypted) \in Passwords
    BY <1>1 DEF Reserve, PersistCondition, ClaimRow, Ciphertexts,
       EncryptInitialPassword, DecryptInitialPassword
  <2>3. /\ claim'[r].mode = claim[r].mode /\ claim'[r].now = claim[r].now
        /\ claim'[r].expected = claim[r].expected /\ claim'[r].hash = claim[r].hash
        /\ claim'[r].password = IF claim[r].mode = "set_on_claim"
                                THEN claim[r].password
                                ELSE DecryptInitialPassword(rec.encrypted)
    BY <1>1 DEF Reserve, ClaimRequest
  <2>4. LocalOK(r)'
    BY <2>1, <2>2, <2>3 DEF LocalOK, Running, PasswordModes
  <2> QED BY <1>1, <2>1, <2>4 DEF Reserve, Winners
<1>2. CASE ~Reserve(r)
  <2>1. /\ claim' = [claim EXCEPT ![r].pc = claim'[r].pc]
        /\ claim[r].pc \in {"release", "mark_applied", "mark_unknown", "finalize"}
    BY <1>2 DEF RowWrite, ReleasePasswordReservation, MarkClaimPasswordApplied,
       MarkClaimPasswordUpdateUnknown, FinalizeAccountClaim, Goto
  <2>2. LocalOK(r)'
    BY <2>1 DEF LocalOK, ClaimRequest, Running
  <2>3. rec' = rec \/ rec.state \in {"pending", "password_applied"}
    BY <1>2 DEF RowWrite, ReleasePasswordReservation, MarkClaimPasswordApplied,
       MarkClaimPasswordUpdateUnknown, FinalizeAccountClaim, ReservationOwned, FinalState
  <2> QED BY <2>1, <2>2, <2>3 DEF Winners
<1> QED BY <1>1, <1>2

LEMMA QuietEffectKeeps ==
    ASSUME RowInv, NEW r \in Requests, QuietEffect(r)
    PROVE  /\ \A s \in Requests : LocalOK(s)'
           /\ RowWellFormed'
           /\ UpdaterKeepsReservation'
           /\ OneClaimSucceeds'
<1> USE DEF RowInv, QuietEffect
<1>1. \A s \in Requests : LocalOK(s)'
  BY DEF LocalOK
<1>2. RowWellFormed'
  BY DEF RowWellFormed
<1>3. \A s \in Requests : /\ s \in Winners' <=> s \in Winners
                          /\ s \in Updaters' => s \in Updaters
  BY DEF Winners, Updaters
<1>4. Winners' = Winners
  BY <1>3 DEF Winners
<1>5. UpdaterKeepsReservation'
  BY <1>3 DEF UpdaterKeepsReservation, Updaters
<1>6. OneClaimSucceeds'
  BY <1>4 DEF OneClaimSucceeds
<1> QED BY <1>1, <1>2, <1>5, <1>6

\* Each write leaves a row the next reservation's WHERE clause can match.
LEMMA RowWriteWellFormed ==
    ASSUME RowInv, NEW r \in Requests, RowWrite(r)
    PROVE  RowWellFormed'
<1> USE ClaimAssumption DEF RowInv, ClaimTypeOK
<1>1. CASE Reserve(r)
  <2>1. /\ LocalOK(r) /\ claim[r].pc = "reserve"
        /\ rec \in ClaimRow /\ claim[r] \in ClaimRequest
    BY <1>1 DEF Reserve
  <2>2. /\ rec'.state = IF claim[r].expected = "password_applied"
                        THEN "password_applied" ELSE "pending"
        /\ rec'.mode = claim[r].mode /\ rec'.hash = claim[r].hash
        /\ rec'.op = r /\ rec'.lease = claim[r].now + ClaimLease
    BY <1>1, <2>1 DEF Reserve, ReservedRow, ClaimRow
  <2>3. /\ claim[r].mode \in PasswordModes
        /\ claim[r].now + ClaimLease \in Nat
        /\ claim[r].mode = "set_on_claim" => claim[r].hash \in PasswordHashes
        /\ claim[r].mode = "show_initial_password" =>
             claim[r].hash = Null /\ claim[r].expected # "password_applied"
    BY <2>1 DEF LocalOK, Running, PasswordHashes
  <2>4. /\ Null \notin PasswordHashes /\ rec'.op # Null
        /\ rec'.lease # Null
    BY <2>2, <2>3
  <2>5. /\ rec'.mode \in PasswordModes
        /\ rec'.hash = Null <=> rec'.mode = "show_initial_password"
        /\ rec'.state = "password_applied" => rec'.mode = "set_on_claim"
        /\ rec'.state \in {"pending", "password_applied"}
    BY <2>2, <2>3, <2>4 DEF PasswordModes
  <2> QED BY <2>4, <2>5 DEF RowWellFormed, PasswordModes
<1>2. CASE ReleasePasswordReservation(r)
  BY <1>2 DEF ReleasePasswordReservation, RowWellFormed, ClaimRow
<1>3. CASE MarkClaimPasswordApplied(r)
  <2>1. /\ rec'.state = "password_applied" /\ rec'.mode = rec.mode
        /\ rec'.hash = rec.hash /\ rec'.op = rec.op /\ rec'.lease = rec.lease
        /\ rec.state = "pending" /\ rec.op = r
    BY <1>3 DEF MarkClaimPasswordApplied, ReservationOwned, ClaimRow
  <2>2. r \in Updaters
    BY <1>3 DEF MarkClaimPasswordApplied, Updaters
  <2> QED BY <2>1, <2>2 DEF RowWellFormed, UpdaterKeepsReservation
<1>4. CASE MarkClaimPasswordUpdateUnknown(r)
  BY <1>4 DEF MarkClaimPasswordUpdateUnknown, RowWellFormed, ClaimRow
<1>5. CASE FinalizeAccountClaim(r)
  BY <1>5 DEF FinalizeAccountClaim, RowWellFormed, ClaimRow
<1> QED BY <1>1, <1>2, <1>3, <1>4, <1>5 DEF RowWrite

\* The heart of it: no write takes a row from under a request that is changing
\* the password, since none but its own matches a pending set_on_claim row.
LEMMA RowWriteKeepsReservation ==
    ASSUME RowInv, NEW r \in Requests, RowWrite(r)
    PROVE  UpdaterKeepsReservation'
<1> USE ClaimAssumption DEF RowInv, ClaimTypeOK
<1>1. /\ \A s \in Requests \ {r} : claim'[s] = claim[s]
      /\ \A s \in Requests \ {r} : s \in Updaters' => s \in Updaters
  BY RowWriteEffect DEF Updaters
<1>2. CASE Reserve(r)
  <2>1. /\ claim[r].pc = "reserve" /\ LocalOK(r)
        /\ ReservationStateCondition(claim[r])
        /\ rec \in ClaimRow /\ claim[r] \in ClaimRequest
    BY <1>2 DEF Reserve, PersistCondition
  <2>2. ~(rec.state = "pending" /\ rec.mode = "set_on_claim")
    BY <2>1 DEF ReservationStateCondition, RowWellFormed
  <2>3. \A s \in Requests \ {r} : s \notin Updaters'
    BY <1>1, <2>2 DEF UpdaterKeepsReservation
  <2>4. claim'[r].pc \in {"update", "audit"}
        /\ (claim'[r].pc = "update" =>
              claim[r].mode = "set_on_claim" /\ claim[r].expected # "password_applied")
    BY <1>2, <2>1 DEF Reserve, ClaimRequest
  <2>5. r \in Updaters' => /\ rec'.op = r /\ rec'.state = "pending"
                           /\ rec'.mode = "set_on_claim"
    BY <1>2, <2>1, <2>4 DEF Reserve, ReservedRow, ClaimRow, Updaters
  <2> QED BY <2>3, <2>5 DEF UpdaterKeepsReservation, Updaters
<1>3. CASE ~Reserve(r)
  <2>1. r \notin Updaters'
    BY <1>3 DEF RowWrite, Updaters, ReleasePasswordReservation, MarkClaimPasswordApplied,
       MarkClaimPasswordUpdateUnknown, FinalizeAccountClaim, Goto, ClaimRequest
  <2>2. rec' = rec \/ rec.op = r
    BY <1>3 DEF RowWrite, ReleasePasswordReservation, MarkClaimPasswordApplied,
       MarkClaimPasswordUpdateUnknown, FinalizeAccountClaim, ReservationOwned
  <2> QED BY <1>1, <2>1, <2>2 DEF UpdaterKeepsReservation, Updaters
<1> QED BY <1>2, <1>3

LEMMA RowWriteOneClaim ==
    ASSUME RowInv, NEW r \in Requests, RowWrite(r)
    PROVE  OneClaimSucceeds'
<1> USE DEF RowInv, ClaimTypeOK
<1>1. /\ \A s \in Requests \ {r} : claim'[s] = claim[s]
      /\ r \notin Winners
  BY RowWriteEffect
<1>2. CASE FinalizeAccountClaim(r)
  <2>1. /\ rec.state # "claimed" /\ rec'.state = "claimed"
        /\ rec'.count = rec.count + 1 /\ claim'[r].pc = "respond"
    BY <1>2 DEF FinalizeAccountClaim, ReservationOwned, FinalState, Goto,
       ClaimRow, ClaimRequest
  <2>2. Winners = {} /\ rec.count = 0
    BY <2>1 DEF OneClaimSucceeds
  <2>3. Winners' = {r}
    BY <1>1, <2>1, <2>2 DEF Winners
  <2> QED BY <2>1, <2>2, <2>3 DEF OneClaimSucceeds
<1>3. CASE ~FinalizeAccountClaim(r)
  <2>1. r \notin Winners'
    BY <1>3 DEF RowWrite, Winners, Reserve, ReleasePasswordReservation,
       MarkClaimPasswordApplied, MarkClaimPasswordUpdateUnknown, Goto, ClaimRequest
  <2>2. Winners' = Winners
    BY <1>1, <2>1 DEF Winners
  <2>3. rec'.count = rec.count /\ (rec'.state = "claimed" <=> rec.state = "claimed")
    BY ZenonT(40), <1>3 DEF RowWrite, Reserve, ReleasePasswordReservation, MarkClaimPasswordApplied,
       MarkClaimPasswordUpdateUnknown, ReservationOwned, PersistCondition,
       ReservedRow, ClaimRow
  <2> QED BY <2>2, <2>3 DEF OneClaimSucceeds
<1> QED BY <1>2, <1>3

\* The employee synchronisation writes the status column and nothing else.
LEMMA StatusKeeps ==
    ASSUME RowInv, NEW new \in Statuses, UpdateRecordSourceStatus(new)
    PROVE  /\ \A s \in Requests : LocalOK(s)'
           /\ RowWellFormed' /\ UpdaterKeepsReservation' /\ OneClaimSucceeds'
<1>1. ClaimColumnsUnchanged /\ claim' = claim
  BY DEF UpdateRecordSourceStatus, RowInv, ClaimTypeOK, ClaimRow, ClaimColumnsUnchanged
<1> QED BY <1>1 DEF ClaimColumnsUnchanged, RowInv, LocalOK, RowWellFormed,
        UpdaterKeepsReservation, Updaters, OneClaimSucceeds, Winners

LEMMA RowInvStep == RowInv /\ [ClaimNext]_claimVars => RowInv'
<1> SUFFICES ASSUME RowInv, [ClaimNext]_claimVars PROVE RowInv'
  OBVIOUS
<1>1. CASE ClaimNext
  <2>1. ClaimTypeOK'
    BY <1>1, TypeStep
  <2>2. ASSUME NEW r \in Requests, QuietEffect(r) PROVE RowInv'
    BY <2>1, <2>2, QuietEffectKeeps DEF RowInv
  <2>3. ASSUME NEW r \in Requests, RowWrite(r) PROVE RowInv'
    <3>1. \A s \in Requests : LocalOK(s)'
      BY <2>3, RowWriteEffect DEF LocalOK, RowInv
    <3> QED BY <2>1, <2>3, <3>1, RowWriteWellFormed, RowWriteKeepsReservation,
            RowWriteOneClaim DEF RowInv
  <2>4. ASSUME NEW new \in Statuses, UpdateRecordSourceStatus(new) PROVE RowInv'
    BY <2>1, <2>4, StatusKeeps DEF RowInv
  <2>5. CASE Tick
    BY <2>1, <2>5 DEF Tick, RowInv, LocalOK, RowWellFormed,
       UpdaterKeepsReservation, Updaters, OneClaimSucceeds, Winners
  <2> QED BY <1>1, <2>2, <2>3, <2>4, <2>5, StepCases, QuietMoveEffect,
          ClaimAccountEffect, GoTrueStepEffect
<1>2. CASE UNCHANGED claimVars
  BY <1>2 DEF claimVars, RowInv, ClaimTypeOK, LocalOK, RowWellFormed,
     UpdaterKeepsReservation, Updaters, OneClaimSucceeds, Winners
<1> QED BY <1>1, <1>2

LEMMA RowInvAlways == ClaimSpec => []RowInv
BY RowInvInit, RowInvStep, PTL DEF ClaimSpec

\* The row can always be continued: types, an exclusive reservation, and the
\* columns the next WHERE clause looks for (retryMatches,
\* reservationStateCondition), for every number of requests, lease and clock.
THEOREM ClaimRowIsSound == ClaimSpec => []ClaimInvariant
<1>1. RowInv => ClaimInvariant
  BY DEF RowInv, ClaimInvariant
<1> QED BY <1>1, RowInvAlways, PTL

\* Of any number of requests at most one claims the account, and the row counts
\* it once (finalizeAccountClaim).
THEOREM AtMostOneClaim == ClaimSpec => []OneClaimSucceeds
<1>1. RowInv => OneClaimSucceeds
  BY DEF RowInv
<1> QED BY <1>1, RowInvAlways, PTL

\* No step of claiming takes the row out of the two states that end a claim.
StaysFinal ==
    /\ rec.state = "claimed" => rec'.state = "claimed" /\ rec'.count = rec.count
    /\ rec.state = "password_update_unknown" => rec'.state = "password_update_unknown"

LEMMA ClaimStepStaysFinal == RowInv /\ [ClaimNext]_claimVars => StaysFinal
<1> SUFFICES ASSUME RowInv, [ClaimNext]_claimVars PROVE StaysFinal
  OBVIOUS
<1>1. ASSUME NEW r \in Requests, QuietEffect(r) PROVE rec' = rec
  BY <1>1 DEF QuietEffect
<1>2. ASSUME NEW r \in Requests, RowWrite(r)
      PROVE  rec.state \in {"claimed", "password_update_unknown"} => rec' = rec
  BY <1>2, RowWriteEffect
<1>3. ASSUME NEW new \in Statuses, UpdateRecordSourceStatus(new)
      PROVE  rec'.state = rec.state /\ rec'.count = rec.count
  BY <1>3 DEF UpdateRecordSourceStatus, RowInv, ClaimTypeOK, ClaimRow
<1>4. CASE Tick \/ UNCHANGED claimVars
  BY <1>4 DEF Tick, claimVars, StaysFinal
<1>5. CASE ClaimNext /\ ~Tick
  BY <1>1, <1>2, <1>3, <1>5, StepCases, QuietMoveEffect,
     ClaimAccountEffect, GoTrueStepEffect DEF StaysFinal
<1> QED BY <1>4, <1>5

\* A claim is never undone, and an ambiguous password update stays for manual
\* recovery.
THEOREM ClaimsAreFinal == ClaimSpec => TerminalStates
<1>1. RowInv /\ [ClaimNext]_claimVars => [StaysFinal]_claimVars
  BY ClaimStepStaysFinal
<1> QED BY <1>1, RowInvAlways, PTL DEF ClaimSpec, TerminalStates, StaysFinal

---------------------------------------------------------------------------
(***************************************************************************)
(* GoTrue: one password update reaches it, the password a claim ends with  *)
(* works, and the protocol implements OneTimeClaim.                        *)
(***************************************************************************)

(***************************************************************************)
(* The part of the inductive invariant that relates the row, the requests  *)
(* and what GoTrue was asked and did.                                      *)
(***************************************************************************)

\* Where the request stands says what became of its call, and the other way
\* around: the password it asked for stays its own.
CallFits(r) ==
    /\ claim[r].pc \in {"idle", "reserve", "update"} => call[r] = "none"
    /\ claim[r].pc = "release" => call[r] = "rejected"
    /\ claim[r].pc = "mark_applied" => call[r] = "applied"
    /\ claim[r].pc = "update" => claim[r].password \in Passwords
    /\ call[r] # "none" => claim[r].password \in Passwords

\* An update that was performed, or may still be, is the one of the pending
\* reservation, is marked unknown, or was acknowledged.
UpdateIsAccounted(r) ==
    \/ rec.state = "pending" /\ rec.op = r /\ rec.mode = "set_on_claim"
    \/ rec.state = "password_update_unknown"
    \/ rec.state \in {"password_applied", "claimed"} /\ call[r] = "applied"

\* GoTrue holds the password of the update it performed, or else the initial
\* one; the row knows which after the update was acknowledged.
CredentialIsKnown ==
    /\ \A r \in Requests : call[r] = "applied" => gotrue = claim[r].password
    /\ rec.encrypted = Null <=> rec.state = "claimed"
    /\ (rec.encrypted # Null /\ \A r \in Requests : call[r] # "applied") =>
         gotrue = DecryptInitialPassword(rec.encrypted)
    /\ rec.state = "password_applied" => rec.hash = HashClaimPassword(gotrue)

\* A request that is to show the initial password has the one of the row.
ShowsInitial(r) ==
    (/\ claim[r].mode = "show_initial_password"
     /\ claim[r].pc \in {"audit", "finalize"}
     /\ rec.encrypted # Null)
      => claim[r].password = DecryptInitialPassword(rec.encrypted)

CallInv ==
    /\ \A r \in Requests : CallFits(r) /\ ShowsInitial(r)
    /\ \A r \in MayHaveUpdated : UpdateIsAccounted(r)
    /\ OneUpdateReachesGoTrue
    /\ CredentialIsKnown
    /\ ReplyIsTrue

LEMMA CallInvInit == ClaimInit => CallInv
<1> SUFFICES ASSUME ClaimInit PROVE CallInv
  OBVIOUS
<1> USE ClaimAssumption
<1>1. PICK p \in Passwords, proof \in Proofs \cup {Null}, linked \in BOOLEAN :
        /\ rec = ReadyRow(proof, EncryptInitialPassword(p), linked, "active")
        /\ gotrue = p
  BY DEF ClaimInit
<1>2. /\ claim = [r \in Requests |-> NoClaim]
      /\ call = [r \in Requests |-> "none"]
  BY DEF ClaimInit
<1>3. /\ rec.state = "ready" /\ rec.encrypted = EncryptInitialPassword(p)
      /\ DecryptInitialPassword(rec.encrypted) = p
      /\ rec.encrypted # Null
  BY <1>1 DEF ReadyRow, EncryptInitialPassword, DecryptInitialPassword, Ciphertexts
<1>4. \A r \in Requests : CallFits(r) /\ ShowsInitial(r)
  BY <1>2 DEF CallFits, ShowsInitial, NoClaim
<1>5. MayHaveUpdated = {} /\ Winners = {}
  BY <1>2 DEF MayHaveUpdated, Winners, NoClaim
<1>6. CredentialIsKnown
  BY <1>1, <1>2, <1>3 DEF CredentialIsKnown
<1> QED BY <1>4, <1>5, <1>6 DEF CallInv, OneUpdateReachesGoTrue, ReplyIsTrue

(***************************************************************************)
(* Steps of one request that neither write the row nor concern GoTrue.     *)
(***************************************************************************)
PassiveEffect(r) ==
    /\ rec' = rec /\ call' = call /\ gotrue' = gotrue
    /\ \A s \in Requests \ {r} : claim'[s] = claim[s]
    /\ (call[r] # "none" \/ r \in Winners) => claim'[r].password = claim[r].password
    /\ r \in Winners' <=> r \in Winners
    /\ CallFits(r)' /\ ShowsInitial(r)'

\* The moves that leave GoTrue alone: all quiet ones but the sending.
LEMMA PassiveMove ==
    ASSUME RowInv, CallInv, NEW r \in Requests, QuietMove(r), ~SendPasswordUpdate(r)
    PROVE  PassiveEffect(r)
<1> USE DEF RowInv, ClaimTypeOK
<1>1. /\ QuietEffect(r) /\ CallFits(r) /\ ShowsInitial(r)
  BY QuietMoveEffect DEF CallInv
<1>2. PICK to \in Running \cup Finished :
        /\ claim' = [claim EXCEPT ![r].pc = to]
        /\ to \in UpdaterSteps => claim[r].pc \in UpdaterSteps
  BY QuietMoveSteps
<1>3. /\ claim'[r].pc = to /\ claim'[r].mode = claim[r].mode
      /\ claim'[r].password = claim[r].password
  BY <1>2 DEF ClaimRequest
<1>4. rec' = rec /\ call' = call /\ gotrue' = gotrue
  BY DEF QuietMove, LoseReservationRace, UpdateSucceeds, UpdateRejected,
     UpdateAmbiguous, AuditAccountClaim, ReservationLost, Respond, Fail
<1>5. \/ to \in {"unavailable", "failed", "reply_lost", "claimed", "mark_unknown"}
      \/ to = "finalize" /\ claim[r].pc = "audit"
      \/ to = "mark_applied" /\ call[r] = "applied"
      \/ to = "release" /\ call[r] = "rejected"
  <2>1. CASE LoseReservationRace(r) \/ ReservationLost(r) \/ Respond(r)
    BY <1>3, <2>1 DEF LoseReservationRace, ReservationLost, Respond, Goto, ClaimRequest
  <2>2. CASE UpdateSucceeds(r) \/ UpdateRejected(r) \/ UpdateAmbiguous(r)
    BY <1>3, <2>2 DEF UpdateSucceeds, UpdateRejected, UpdateAmbiguous, Goto, ClaimRequest
  <2>3. CASE AuditAccountClaim(r)
    BY <1>3, <2>3 DEF AuditAccountClaim, Goto, ClaimRequest
  <2>4. CASE Fail(r)
    BY <1>3, <2>4 DEF Fail, Goto, ClaimRequest
  <2> QED BY <2>1, <2>2, <2>3, <2>4 DEF QuietMove
<1>6. CallFits(r)'
  BY <1>1, <1>3, <1>4, <1>5 DEF CallFits
<1>7. ShowsInitial(r)'
  BY <1>1, <1>3, <1>4, <1>5 DEF ShowsInitial
<1> QED BY <1>1, <1>3, <1>4, <1>6, <1>7 DEF PassiveEffect, QuietEffect

LEMMA ClaimAccountPassive ==
    ASSUME RowInv, CallInv, NEW r \in Requests, NEW mode \in PasswordModes,
           NEW p \in Passwords, ClaimAccount(r, mode, p)
    PROVE  PassiveEffect(r)
<1> USE DEF RowInv, ClaimTypeOK
<1>1. /\ QuietEffect(r) /\ CallFits(r)
  BY ClaimAccountEffect DEF CallInv
<1>2. claim[r].pc = "idle" /\ call' = call /\ gotrue' = gotrue
  BY DEF ClaimAccount
<1>3. claim'[r].pc \in {"reserve", "unavailable"}
  BY DEF ClaimAccount, Goto, ClaimRequest
<1>4. call[r] = "none" /\ r \notin Winners
  BY <1>1, <1>2 DEF CallFits, Winners
<1> QED BY <1>1, <1>2, <1>3, <1>4 DEF PassiveEffect, QuietEffect, CallFits, ShowsInitial

LEMMA PassiveKeeps ==
    ASSUME CallInv, NEW r \in Requests, PassiveEffect(r)
    PROVE  CallInv'
<1> USE DEF CallInv, PassiveEffect
<1>1. \A s \in Requests : CallFits(s)' /\ ShowsInitial(s)'
  BY DEF CallFits, ShowsInitial
<1>2. MayHaveUpdated' = MayHaveUpdated
  BY DEF MayHaveUpdated
<1>3. \A s \in Requests : UpdateIsAccounted(s)' <=> UpdateIsAccounted(s)
  BY DEF UpdateIsAccounted
<1>4. \A s \in Requests : call[s] = "applied" => claim'[s].password = claim[s].password
  OBVIOUS
<1>5. CredentialIsKnown'
  BY <1>4 DEF CredentialIsKnown
<1>6. \A s \in Winners' : s \in Winners /\ claim'[s].password = claim[s].password
  BY DEF Winners
<1>7. ReplyIsTrue'
  BY <1>6 DEF ReplyIsTrue
<1>8. MayHaveUpdated \subseteq Requests
  BY DEF MayHaveUpdated
<1> QED BY <1>1, <1>2, <1>3, <1>5, <1>7, <1>8 DEF OneUpdateReachesGoTrue

(***************************************************************************)
(* The call of GoTrue.                                                     *)
(***************************************************************************)

\* No update can be under way or done while another request holds the pending
\* reservation of a password update.
LEMMA HolderIsAlone ==
    ASSUME CallInv, NEW r \in Requests, NEW s \in MayHaveUpdated,
           rec.state = "pending", rec.op = r
    PROVE  s = r
BY DEF CallInv, UpdateIsAccounted

LEMMA SendKeeps ==
    ASSUME RowInv, CallInv, NEW r \in Requests, SendPasswordUpdate(r)
    PROVE  CallInv'
<1> USE DEF RowInv, ClaimTypeOK, CallInv
<1>1. /\ claim[r].pc = "update" /\ rec' = rec /\ gotrue' = gotrue
      /\ call' = [call EXCEPT ![r] = "sent"]
      /\ claim' = [claim EXCEPT ![r].pc = "updating"]
  BY DEF SendPasswordUpdate, Goto
<1>2. /\ claim'[r].pc = "updating" /\ claim'[r].mode = claim[r].mode
      /\ claim'[r].password = claim[r].password
      /\ \A s \in Requests \ {r} : claim'[s] = claim[s] /\ call'[s] = call[s]
      /\ call'[r] = "sent" /\ call[r] = "none"
  BY <1>1 DEF ClaimRequest, CallFits
<1>3. rec.op = r /\ rec.state = "pending" /\ rec.mode = "set_on_claim"
  BY <1>1 DEF UpdaterKeepsReservation, Updaters
<1>4. \A s \in Requests : CallFits(s)' /\ ShowsInitial(s)'
  BY <1>1, <1>2 DEF CallFits, ShowsInitial
<1>5. MayHaveUpdated = {}
  <2>1. \A s \in MayHaveUpdated : s = r
    BY <1>3, HolderIsAlone
  <2> QED BY <2>1, <1>2 DEF MayHaveUpdated
<1>6. MayHaveUpdated' = {r}
  BY <1>2, <1>5 DEF MayHaveUpdated
<1>7. UpdateIsAccounted(r)'
  BY <1>1, <1>3 DEF UpdateIsAccounted
<1>8. \A s \in Requests : call'[s] # "applied" /\ call[s] # "applied"
  BY <1>2, <1>5 DEF MayHaveUpdated
<1>9. CredentialIsKnown'
  BY <1>1, <1>3, <1>8 DEF CredentialIsKnown
<1>10. ReplyIsTrue'
  BY <1>1, <1>2 DEF ReplyIsTrue, Winners
<1> QED BY <1>4, <1>6, <1>7, <1>9, <1>10 DEF OneUpdateReachesGoTrue

LEMMA RejectKeeps ==
    ASSUME RowInv, CallInv, NEW r \in Requests, GoTrueRejects(r)
    PROVE  CallInv'
<1> USE DEF RowInv, ClaimTypeOK, CallInv
<1>1. /\ rec' = rec /\ gotrue' = gotrue /\ claim' = claim /\ call[r] = "sent"
      /\ call'[r] = "rejected"
      /\ \A s \in Requests \ {r} : call'[s] = call[s]
  BY DEF GoTrueRejects
<1>2. \A s \in Requests : CallFits(s)' /\ ShowsInitial(s)'
  BY <1>1 DEF CallFits, ShowsInitial
<1>3. \A s \in MayHaveUpdated' : s \in MayHaveUpdated /\ UpdateIsAccounted(s)'
  BY <1>1 DEF MayHaveUpdated, UpdateIsAccounted
<1>4. \A s \in Requests : call'[s] = "applied" <=> call[s] = "applied"
  BY <1>1
<1>5. CredentialIsKnown'
  BY <1>1, <1>4 DEF CredentialIsKnown
<1>6. ReplyIsTrue'
  BY <1>1 DEF ReplyIsTrue, Winners
<1> QED BY <1>2, <1>3, <1>5, <1>6 DEF OneUpdateReachesGoTrue

\* A late update meets a row that waits for it or was marked unknown, never one
\* that was finalized.
LEMMA ApplyKeeps ==
    ASSUME RowInv, CallInv, NEW r \in Requests, GoTrueApplies(r)
    PROVE  CallInv' /\ Winners = {} /\ claim[r].password \in Passwords
<1> USE DEF RowInv, ClaimTypeOK, CallInv
<1>1. /\ rec' = rec /\ gotrue' = claim[r].password /\ claim' = claim
      /\ call[r] = "sent" /\ call'[r] = "applied"
      /\ \A s \in Requests \ {r} : call'[s] = call[s]
  BY DEF GoTrueApplies
<1>2. /\ r \in MayHaveUpdated /\ MayHaveUpdated' = MayHaveUpdated
      /\ \A s \in Requests : call'[s] = "applied" => s = r
  BY <1>1 DEF MayHaveUpdated, OneUpdateReachesGoTrue
<1>3. rec.state \in {"pending", "password_update_unknown"} /\ UpdateIsAccounted(r)'
  BY <1>1, <1>2 DEF UpdateIsAccounted
<1>4. Winners = {} /\ Winners' = {}
  BY <1>1, <1>3 DEF OneClaimSucceeds, Winners
<1>5. \A s \in Requests : CallFits(s)' /\ ShowsInitial(s)'
  BY <1>1 DEF CallFits, ShowsInitial
<1>6. \A s \in MayHaveUpdated' : s = r
  BY <1>2 DEF OneUpdateReachesGoTrue
<1>7. CredentialIsKnown'
  BY <1>1, <1>2, <1>3 DEF CredentialIsKnown
<1>8. ReplyIsTrue'
  BY <1>4 DEF ReplyIsTrue
<1>9. claim[r].password \in Passwords
  BY <1>1 DEF CallFits
<1> QED BY <1>2, <1>3, <1>4, <1>5, <1>6, <1>7, <1>8, <1>9 DEF OneUpdateReachesGoTrue

(***************************************************************************)
(* The writes of the row.                                                  *)
(***************************************************************************)

\* The row that waits for a password update cannot be reserved again; any other
\* keeps what the earlier reservation recorded.
LEMMA ReserveKeeps ==
    ASSUME RowInv, CallInv, NEW r \in Requests, Reserve(r)
    PROVE  CallInv'
<1> USE ClaimAssumption DEF RowInv, ClaimTypeOK, CallInv
<1>1. /\ claim[r].pc = "reserve" /\ LocalOK(r) /\ ReservationStateCondition(claim[r])
      /\ rec.encrypted # Null /\ rec \in ClaimRow /\ claim[r] \in ClaimRequest
      /\ call' = call /\ gotrue' = gotrue
      /\ \A s \in Requests \ {r} : claim'[s] = claim[s]
  BY DEF Reserve, PersistCondition
<1>2. /\ rec'.state = IF claim[r].expected = "password_applied"
                      THEN "password_applied" ELSE "pending"
      /\ rec'.hash = claim[r].hash /\ rec'.encrypted = rec.encrypted
      /\ rec'.op = r /\ rec'.mode = claim[r].mode
  BY <1>1 DEF Reserve, ReservedRow, ClaimRow
<1>3. /\ claim'[r].mode = claim[r].mode
      /\ claim'[r].pc = IF claim[r].mode = "set_on_claim"
                           /\ claim[r].expected # "password_applied"
                        THEN "update" ELSE "audit"
      /\ claim'[r].password = IF claim[r].mode = "set_on_claim" THEN claim[r].password
                              ELSE DecryptInitialPassword(rec.encrypted)
  BY <1>1 DEF Reserve, ClaimRequest
<1>4. /\ claim[r].mode \in PasswordModes
      /\ claim[r].mode = "set_on_claim" => claim[r].password \in Passwords
      /\ call[r] = "none" /\ r \notin Winners
  BY <1>1 DEF LocalOK, Running, CallFits, Winners
<1>5. \A s \in Requests : CallFits(s)' /\ ShowsInitial(s)'
  <2>1. CallFits(r)'
    BY <1>1, <1>3, <1>4 DEF CallFits
  <2>2. ShowsInitial(r)'
    BY <1>2, <1>3 DEF ShowsInitial
  <2>3. \A s \in Requests \ {r} : CallFits(s)' /\ ShowsInitial(s)'
    BY <1>1, <1>2 DEF CallFits, ShowsInitial
  <2> QED BY <2>1, <2>2, <2>3
<1>6. MayHaveUpdated' = MayHaveUpdated
  BY <1>1 DEF MayHaveUpdated
<1>7. \/ rec.state = "password_applied" /\ rec'.state = "password_applied"
         /\ rec'.hash = rec.hash
      \/ /\ \/ rec.state = "ready"
            \/ rec.state = "pending" /\ rec.hash = Null
         /\ rec'.state = "pending"
  <2>1. claim[r].expected \in {"ready", "pending", "password_applied"}
    BY <1>1 DEF LocalOK, Running
  <2> QED BY <1>1, <1>2, <2>1 DEF ReservationStateCondition
<1>8. \A s \in MayHaveUpdated : UpdateIsAccounted(s)'
  <2> SUFFICES ASSUME NEW s \in MayHaveUpdated PROVE UpdateIsAccounted(s)'
    OBVIOUS
  <2>1. UpdateIsAccounted(s)
    OBVIOUS
  <2>2. ~(rec.state = "pending" /\ rec.hash = Null /\ rec.mode = "set_on_claim")
    BY DEF RowWellFormed
  <2>3. rec.state = "password_applied" /\ call[s] = "applied"
    BY <1>7, <2>1, <2>2 DEF UpdateIsAccounted
  <2> QED BY <1>1, <1>7, <2>3 DEF UpdateIsAccounted
<1>9. CredentialIsKnown'
  <2>1. \A s \in Requests : call[s] = "applied" => claim'[s].password = claim[s].password
    BY <1>1, <1>4
  <2> QED BY <1>1, <1>2, <1>7, <2>1 DEF CredentialIsKnown
<1>10. \A s \in Winners' : s \in Winners /\ claim'[s] = claim[s]
  BY <1>1, <1>3 DEF Winners
<1>11. ReplyIsTrue'
  BY <1>1, <1>10 DEF ReplyIsTrue
<1> QED BY <1>5, <1>6, <1>8, <1>9, <1>11 DEF OneUpdateReachesGoTrue

\* What the other four writes have in common.
LEMMA OwnerWriteEffect ==
    ASSUME RowInv, NEW r \in Requests,
           \/ ReleasePasswordReservation(r) \/ MarkClaimPasswordApplied(r)
           \/ MarkClaimPasswordUpdateUnknown(r) \/ FinalizeAccountClaim(r)
    PROVE  /\ call' = call /\ gotrue' = gotrue
           /\ \A s \in Requests \ {r} : claim'[s] = claim[s]
           /\ claim'[r].mode = claim[r].mode
           /\ claim'[r].password = claim[r].password
           /\ claim'[r].pc \in {"rejected", "audit", "respond"}
           /\ claim'[r].pc = "audit" <=> claim[r].pc = "mark_applied"
           /\ claim'[r].pc = "respond" <=> claim[r].pc = "finalize"
           /\ LocalOK(r) /\ rec \in ClaimRow
<1> USE DEF RowInv, ClaimTypeOK
<1>1. PICK to \in {"rejected", "audit", "respond"} :
        /\ claim' = [claim EXCEPT ![r].pc = to]
        /\ to = "audit" <=> claim[r].pc = "mark_applied"
        /\ to = "respond" <=> claim[r].pc = "finalize"
  BY DEF ReleasePasswordReservation, MarkClaimPasswordApplied,
     MarkClaimPasswordUpdateUnknown, FinalizeAccountClaim, Goto
<1>2. call' = call /\ gotrue' = gotrue
  BY DEF ReleasePasswordReservation, MarkClaimPasswordApplied,
     MarkClaimPasswordUpdateUnknown, FinalizeAccountClaim
<1> QED BY <1>1, <1>2 DEF ClaimRequest

\* Releasing, acknowledging or giving up a password update.
LEMMA SettleKeeps ==
    ASSUME RowInv, CallInv, NEW r \in Requests,
           \/ ReleasePasswordReservation(r) \/ MarkClaimPasswordApplied(r)
           \/ MarkClaimPasswordUpdateUnknown(r)
    PROVE  CallInv'
<1> USE ClaimAssumption DEF RowInv, ClaimTypeOK, CallInv
<1>1. /\ call' = call /\ gotrue' = gotrue
      /\ \A s \in Requests \ {r} : claim'[s] = claim[s]
      /\ claim'[r].mode = claim[r].mode
      /\ claim'[r].password = claim[r].password
      /\ claim'[r].pc \in {"rejected", "audit", "respond"}
      /\ claim'[r].pc = "audit" <=> claim[r].pc = "mark_applied"
      /\ claim'[r].pc = "respond" <=> claim[r].pc = "finalize"
      /\ LocalOK(r) /\ rec \in ClaimRow
  BY OwnerWriteEffect
<1>2. claim[r].pc \in {"release", "mark_applied", "mark_unknown"} /\ r \in Updaters
  BY DEF ReleasePasswordReservation, MarkClaimPasswordApplied,
     MarkClaimPasswordUpdateUnknown, Updaters
<1>3. rec.op = r /\ rec.state = "pending" /\ rec.mode = "set_on_claim"
  BY <1>2 DEF UpdaterKeepsReservation
<1>4. /\ rec'.encrypted = rec.encrypted
      /\ \/ rec'.state = "ready" /\ call[r] = "rejected"
         \/ rec'.state = "pending" /\ rec' = rec
         \/ rec'.state = "password_update_unknown"
         \/ /\ rec'.state = "password_applied" /\ call[r] = "applied"
            /\ rec'.hash = claim[r].hash /\ claim[r].mode = "set_on_claim"
  <2>1. CASE ReleasePasswordReservation(r)
    BY <2>1, <1>1, <1>3 DEF ReleasePasswordReservation, CallFits, ClaimRow
  <2>2. CASE MarkClaimPasswordApplied(r)
    BY <2>2, <1>1, <1>3 DEF MarkClaimPasswordApplied, ReservationOwned, CallFits, ClaimRow
  <2>3. CASE MarkClaimPasswordUpdateUnknown(r)
    BY <2>3, <1>1 DEF MarkClaimPasswordUpdateUnknown, ClaimRow
  <2> QED BY <2>1, <2>2, <2>3
<1>5. claim[r].mode = "set_on_claim" \/ claim'[r].pc = "rejected"
  BY <1>1, <1>3 DEF ReleasePasswordReservation, MarkClaimPasswordApplied,
     MarkClaimPasswordUpdateUnknown, ReservationOwned
<1>6. \A s \in Requests : CallFits(s)' /\ ShowsInitial(s)'
  <2>1. CallFits(r)'
    BY <1>1 DEF CallFits
  <2>2. ShowsInitial(r)'
    BY <1>1, <1>5 DEF ShowsInitial
  <2>3. \A s \in Requests \ {r} : CallFits(s)' /\ ShowsInitial(s)'
    BY <1>1, <1>4 DEF CallFits, ShowsInitial
  <2> QED BY <2>1, <2>2, <2>3
<1>7. MayHaveUpdated' = MayHaveUpdated /\ \A s \in MayHaveUpdated : s = r
  BY <1>1, <1>3, HolderIsAlone DEF MayHaveUpdated
<1>8. r \in MayHaveUpdated => UpdateIsAccounted(r)'
  BY <1>1, <1>3, <1>4 DEF UpdateIsAccounted, MayHaveUpdated
<1>9. CredentialIsKnown'
  <2>1. rec'.state = "password_applied" => rec'.hash = HashClaimPassword(gotrue)
    <3> SUFFICES ASSUME rec'.state = "password_applied"
                 PROVE  rec'.hash = HashClaimPassword(gotrue)
      OBVIOUS
    <3>1. call[r] = "applied" /\ rec'.hash = claim[r].hash /\ claim[r].mode = "set_on_claim"
      BY <1>3, <1>4
    <3>2. claim[r].hash = HashClaimPassword(claim[r].password)
      BY <1>1, <1>2, <3>1 DEF LocalOK, Running
    <3>3. gotrue = claim[r].password
      BY <3>1 DEF CredentialIsKnown
    <3> QED BY <3>1, <3>2, <3>3
  <2>2. rec'.state # "claimed" /\ rec.encrypted # Null
    BY <1>3, <1>4 DEF CredentialIsKnown
  <2>3. \A s \in Requests : claim'[s].password = claim[s].password
    BY <1>1
  <2> QED BY <1>1, <1>4, <2>1, <2>2, <2>3 DEF CredentialIsKnown
<1>10. Winners = {} /\ Winners' = {}
  BY <1>1, <1>2, <1>3 DEF OneClaimSucceeds, Winners
<1>11. ReplyIsTrue'
  BY <1>10 DEF ReplyIsTrue
<1> QED BY <1>6, <1>7, <1>8, <1>9, <1>11 DEF OneUpdateReachesGoTrue

\* The claim ends with the password that GoTrue holds: the row's hash names it,
\* or nobody ever changed the initial one.
LEMMA FinalizeKeeps ==
    ASSUME RowInv, CallInv, NEW r \in Requests, FinalizeAccountClaim(r)
    PROVE  CallInv' /\ Winners = {} /\ Winners' = {r}
<1> USE ClaimAssumption DEF RowInv, ClaimTypeOK, CallInv
<1>1. /\ call' = call /\ gotrue' = gotrue
      /\ \A s \in Requests \ {r} : claim'[s] = claim[s]
      /\ claim'[r].mode = claim[r].mode
      /\ claim'[r].password = claim[r].password
      /\ claim'[r].pc \in {"rejected", "audit", "respond"}
      /\ claim'[r].pc = "audit" <=> claim[r].pc = "mark_applied"
      /\ claim'[r].pc = "respond" <=> claim[r].pc = "finalize"
      /\ LocalOK(r) /\ rec \in ClaimRow
  BY OwnerWriteEffect
<1>2. /\ claim[r].pc = "finalize" /\ claim'[r].pc = "respond"
      /\ rec.state = FinalState(r) /\ rec.mode = claim[r].mode
      /\ rec.op = r /\ rec.hash = claim[r].hash
  BY <1>1 DEF FinalizeAccountClaim, ReservationOwned
<1>3. rec'.state = "claimed" /\ rec'.encrypted = Null
  BY <1>1 DEF FinalizeAccountClaim, ClaimRow
<1>4. claim[r].mode \in PasswordModes
  BY <1>1, <1>2 DEF LocalOK, Running
<1>5. Winners = {} /\ Winners' = {r}
  <2>1. rec.state # "claimed"
    BY <1>2 DEF FinalState
  <2>2. Winners = {}
    BY <2>1 DEF OneClaimSucceeds
  <2> QED BY <1>1, <1>2, <2>2 DEF Winners
<1>6. gotrue = claim[r].password
  <2>1. CASE claim[r].mode = "set_on_claim"
    <3>1. rec.state = "password_applied"
      BY <1>2, <2>1 DEF FinalState
    <3>2. rec.hash = HashClaimPassword(gotrue)
      BY <3>1 DEF CredentialIsKnown
    <3>3. rec.hash = HashClaimPassword(claim[r].password)
      BY <1>1, <1>2, <2>1 DEF LocalOK, Running
    <3> QED BY <3>2, <3>3 DEF HashClaimPassword
  <2>2. CASE claim[r].mode = "show_initial_password"
    <3>1. rec.state = "pending" /\ rec.mode = "show_initial_password"
      BY <1>2, <2>2 DEF FinalState
    <3>2. \A s \in Requests : call[s] # "applied"
      BY <3>1 DEF UpdateIsAccounted, MayHaveUpdated
    <3>3. rec.encrypted # Null
      BY <3>1 DEF CredentialIsKnown
    <3>4. gotrue = DecryptInitialPassword(rec.encrypted)
      BY <3>2, <3>3 DEF CredentialIsKnown
    <3>5. claim[r].password = DecryptInitialPassword(rec.encrypted)
      BY <1>2, <2>2, <3>3 DEF ShowsInitial
    <3> QED BY <3>4, <3>5
  <2> QED BY <1>4, <2>1, <2>2 DEF PasswordModes
<1>7. \A s \in Requests : CallFits(s)' /\ ShowsInitial(s)'
  BY <1>1, <1>2, <1>3 DEF CallFits, ShowsInitial
<1>8. MayHaveUpdated' = MayHaveUpdated
  BY <1>1 DEF MayHaveUpdated
<1>9. \A s \in MayHaveUpdated : UpdateIsAccounted(s)'
  <2> SUFFICES ASSUME NEW s \in MayHaveUpdated PROVE UpdateIsAccounted(s)'
    OBVIOUS
  <2>1. UpdateIsAccounted(s) /\ rec.state \in {"pending", "password_applied"}
    BY <1>2 DEF FinalState
  <2>2. ~(rec.state = "pending" /\ rec.mode = "set_on_claim")
    BY <1>2 DEF FinalState
  <2> QED BY <1>1, <1>3, <2>1, <2>2 DEF UpdateIsAccounted
<1>10. CredentialIsKnown'
  BY <1>1, <1>3 DEF CredentialIsKnown
<1>11. ReplyIsTrue'
  BY <1>1, <1>5, <1>6 DEF ReplyIsTrue
<1> QED BY <1>5, <1>7, <1>8, <1>9, <1>10, <1>11 DEF OneUpdateReachesGoTrue

\* The clock, the employee synchronisation and stuttering.
LEMMA RestKeeps ==
    ASSUME RowInv, CallInv,
           \/ \E new \in Statuses : UpdateRecordSourceStatus(new)
           \/ Tick \/ UNCHANGED claimVars
    PROVE  CallInv'
<1>1. /\ rec'.state = rec.state /\ rec'.mode = rec.mode /\ rec'.op = rec.op
      /\ rec'.hash = rec.hash /\ rec'.encrypted = rec.encrypted
      /\ claim' = claim /\ call' = call /\ gotrue' = gotrue
  BY DEF UpdateRecordSourceStatus, Tick, claimVars, RowInv, ClaimTypeOK, ClaimRow
<1> QED BY <1>1 DEF CallInv, CallFits, ShowsInitial, UpdateIsAccounted,
        MayHaveUpdated, OneUpdateReachesGoTrue, CredentialIsKnown, ReplyIsTrue, Winners

LEMMA CallInvStep == RowInv /\ CallInv /\ [ClaimNext]_claimVars => CallInv'
<1> SUFFICES ASSUME RowInv, CallInv, [ClaimNext]_claimVars PROVE CallInv'
  OBVIOUS
<1>1. ASSUME NEW r \in Requests, NEW mode \in PasswordModes, NEW p \in Passwords,
             ClaimAccount(r, mode, p)
      PROVE  CallInv'
  BY <1>1, ClaimAccountPassive, PassiveKeeps
<1>2. ASSUME NEW r \in Requests, QuietMove(r) PROVE CallInv'
  BY <1>2, PassiveMove, PassiveKeeps, SendKeeps
<1>3. ASSUME NEW r \in Requests, GoTrueStep(r) PROVE CallInv'
  BY <1>3, ApplyKeeps, RejectKeeps DEF GoTrueStep
<1>4. ASSUME NEW r \in Requests, RowWrite(r) PROVE CallInv'
  BY <1>4, ReserveKeeps, SettleKeeps, FinalizeKeeps DEF RowWrite
<1>5. CASE UNCHANGED claimVars
  BY <1>5, RestKeeps
<1>6. CASE ClaimNext
  BY <1>1, <1>2, <1>3, <1>4, <1>6, StepCases, RestKeeps
<1> QED BY <1>5, <1>6

LEMMA CallInvAlways == ClaimSpec => [](RowInv /\ CallInv)
<1>1. ClaimInit => RowInv /\ CallInv
  BY RowInvInit, CallInvInit
<1>2. RowInv /\ CallInv /\ [ClaimNext]_claimVars => (RowInv /\ CallInv)'
  BY RowInvStep, CallInvStep
<1> QED BY <1>1, <1>2, PTL DEF ClaimSpec

\* However many requests and retries: at most one password update is performed
\* or left to be performed in GoTrue (applyReservedPassword).
THEOREM OneUpdate == ClaimSpec => []OneUpdateReachesGoTrue
<1>1. CallInv => OneUpdateReachesGoTrue
  BY DEF CallInv
<1> QED BY <1>1, CallInvAlways, PTL

\* The password a claim sets or shows is the one GoTrue accepts from then on,
\* whatever late updates arrive (finalizeAccountClaim, claimAccount's reply).
THEOREM ClaimedPasswordWorks == ClaimSpec => []ReplyIsTrue
<1>1. CallInv => ReplyIsTrue
  BY DEF CallInv
<1> QED BY <1>1, CallInvAlways, PTL

(***************************************************************************)
(* The refinement: each step of claiming is a step of OneTimeClaim or      *)
(* leaves owner, credential and told alone.                                *)
(***************************************************************************)

LEMMA RefinementInit == ClaimInit => Abstract!Init
<1> SUFFICES ASSUME ClaimInit PROVE Abstract!Init
  OBVIOUS
<1>1. gotrue \in Passwords /\ claim = [r \in Requests |-> NoClaim]
  BY DEF ClaimInit
<1>2. Owner = Null
  BY <1>1 DEF Owner, Winners, NoClaim
<1>3. Told = [r \in Requests |-> Null]
  BY <1>1 DEF Told, NoClaim
<1> QED BY <1>1, <1>2, <1>3 DEF Abstract!Init

\* The mapped state is a function of who has won, what was told and GoTrue.
SameClaim == /\ Winners' = Winners /\ Told' = Told

LEMMA PassiveRefines ==
    ASSUME RowInv, CallInv, NEW r \in Requests, PassiveEffect(r),
           claim'[r].pc = "claimed" <=> claim[r].pc = "claimed"
    PROVE  SameClaim
<1> USE DEF PassiveEffect
<1>1. \A s \in Requests : claim'[s].pc = "claimed" <=> claim[s].pc = "claimed"
  OBVIOUS
<1>2. \A s \in Requests : claim[s].pc = "claimed" => claim'[s].password = claim[s].password
  BY DEF Winners
<1>3. Told' = Told
  BY <1>1, <1>2 DEF Told
<1>4. Winners' = Winners
  BY DEF Winners
<1> QED BY <1>3, <1>4 DEF SameClaim

LEMMA RespondRefines ==
    ASSUME RowInv, CallInv, NEW r \in Requests, Respond(r)
    PROVE  Abstract!Tell(r)
<1> USE DEF RowInv, ClaimTypeOK
<1>1. /\ claim[r].pc = "respond" /\ claim' = [claim EXCEPT ![r].pc = "claimed"]
      /\ gotrue' = gotrue
  BY DEF Respond, Goto
<1>2. /\ claim'[r].pc = "claimed" /\ claim'[r].password = claim[r].password
      /\ \A s \in Requests \ {r} : claim'[s] = claim[s]
  BY <1>1 DEF ClaimRequest
<1>3. Winners = {r} /\ Winners' = {r}
  BY <1>1, <1>2 DEF OneClaimSucceeds, Winners
<1>4. Owner = r /\ Owner' = r
  BY <1>3 DEF Owner
<1>5. gotrue = claim[r].password
  BY <1>3 DEF CallInv, ReplyIsTrue
<1>6. Told' = [Told EXCEPT ![r] = gotrue]
  BY <1>2, <1>5 DEF Told
<1> QED BY <1>1, <1>4, <1>6 DEF Abstract!Tell

LEMMA FinalizeRefines ==
    ASSUME RowInv, CallInv, NEW r \in Requests, FinalizeAccountClaim(r)
    PROVE  Abstract!Grant(r)
<1>1. Winners = {} /\ Winners' = {r}
  BY FinalizeKeeps
<1>2. Owner = Null /\ Owner' = r
  BY <1>1 DEF Owner
<1>3. /\ claim[r].pc = "finalize" /\ claim'[r].pc = "respond" /\ gotrue' = gotrue
      /\ \A s \in Requests \ {r} : claim'[s] = claim[s]
  BY OwnerWriteEffect DEF FinalizeAccountClaim
<1>4. Told' = Told
  BY <1>3 DEF Told
<1> QED BY <1>2, <1>3, <1>4 DEF Abstract!Grant

LEMMA ApplyRefines ==
    ASSUME RowInv, CallInv, NEW r \in Requests, GoTrueApplies(r)
    PROVE  Abstract!ChangeCredential
<1>1. Winners = {} /\ claim[r].password \in Passwords
  BY ApplyKeeps
<1>2. claim' = claim /\ gotrue' = claim[r].password
  BY DEF GoTrueApplies
<1>3. Owner = Null /\ Owner' = Owner /\ Told' = Told
  BY <1>1, <1>2 DEF Owner, Winners, Told
<1> QED BY <1>1, <1>2, <1>3 DEF Abstract!ChangeCredential

\* The other writes of the row end no claim.
LEMMA WriteRefines ==
    ASSUME RowInv, CallInv, NEW r \in Requests,
           \/ Reserve(r) \/ ReleasePasswordReservation(r) \/ MarkClaimPasswordApplied(r)
           \/ MarkClaimPasswordUpdateUnknown(r)
    PROVE  SameClaim /\ gotrue' = gotrue
<1> USE DEF RowInv, ClaimTypeOK
<1>1. /\ gotrue' = gotrue
      /\ \A s \in Requests \ {r} : claim'[s] = claim[s]
      /\ claim[r].pc \in {"reserve", "release", "mark_applied", "mark_unknown"}
      /\ claim'[r].pc \in {"update", "audit", "rejected"}
  <2>1. CASE Reserve(r)
    BY <2>1 DEF Reserve, ClaimRequest
  <2>2. CASE ~Reserve(r)
    <3>1. /\ gotrue' = gotrue
          /\ \A s \in Requests \ {r} : claim'[s] = claim[s]
          /\ claim'[r].pc \in {"rejected", "audit", "respond"}
          /\ claim'[r].pc = "respond" <=> claim[r].pc = "finalize"
      BY <2>2, OwnerWriteEffect
    <3>2. claim[r].pc \in {"release", "mark_applied", "mark_unknown"}
      BY <2>2 DEF ReleasePasswordReservation, MarkClaimPasswordApplied,
         MarkClaimPasswordUpdateUnknown
    <3> QED BY <3>1, <3>2
  <2> QED BY <2>1, <2>2
<1> QED BY <1>1 DEF SameClaim, Winners, Told

LEMMA RefinementStep ==
    RowInv /\ CallInv /\ [ClaimNext]_claimVars
      => [Abstract!Next]_<<Owner, gotrue, Told>>
<1> SUFFICES ASSUME RowInv, CallInv, [ClaimNext]_claimVars
             PROVE  [Abstract!Next]_<<Owner, gotrue, Told>>
  OBVIOUS
<1> USE DEF RowInv, ClaimTypeOK
<1>same. ASSUME SameClaim, gotrue' = gotrue
         PROVE  UNCHANGED <<Owner, gotrue, Told>>
  BY <1>same DEF SameClaim, Owner
<1>1. ASSUME NEW r \in Requests, NEW mode \in PasswordModes, NEW p \in Passwords,
             ClaimAccount(r, mode, p)
      PROVE  UNCHANGED <<Owner, gotrue, Told>>
  <2>1. claim[r].pc = "idle" /\ claim'[r].pc \in {"reserve", "unavailable"}
    BY <1>1 DEF ClaimAccount, Goto, ClaimRequest
  <2> QED BY <1>1, <2>1, <1>same, ClaimAccountPassive, PassiveRefines DEF PassiveEffect
<1>2. ASSUME NEW r \in Requests, QuietMove(r), ~Respond(r)
      PROVE  UNCHANGED <<Owner, gotrue, Told>>
  <2>1. CASE SendPasswordUpdate(r)
    <3>1. /\ gotrue' = gotrue /\ claim[r].pc = "update" /\ claim'[r].pc = "updating"
          /\ \A s \in Requests \ {r} : claim'[s] = claim[s]
      BY <2>1 DEF SendPasswordUpdate, Goto, ClaimRequest
    <3> QED BY <3>1, <1>same DEF SameClaim, Winners, Told
  <2>2. CASE ~SendPasswordUpdate(r)
    <3>1. PassiveEffect(r)
      BY <1>2, <2>2, PassiveMove
    <3>2. claim'[r].pc # "claimed" /\ claim[r].pc # "claimed"
      <4>1. CASE Fail(r)
        BY <4>1 DEF Fail, Goto, ClaimRequest, Running
      <4>2. CASE ~Fail(r)
        BY <1>2, <2>2, <4>2 DEF QuietMove, LoseReservationRace, UpdateSucceeds,
           UpdateRejected, UpdateAmbiguous, AuditAccountClaim, ReservationLost,
           Goto, ClaimRequest
      <4> QED BY <4>1, <4>2
    <3> QED BY <3>1, <3>2, <1>same, PassiveRefines DEF PassiveEffect
  <2> QED BY <2>1, <2>2
<1>3. ASSUME NEW r \in Requests, Respond(r) \/ FinalizeAccountClaim(r) \/ GoTrueApplies(r)
      PROVE  Abstract!Next
  BY <1>3, RespondRefines, FinalizeRefines, ApplyRefines DEF Abstract!Next
<1>4. ASSUME NEW r \in Requests, RowWrite(r), ~FinalizeAccountClaim(r)
      PROVE  UNCHANGED <<Owner, gotrue, Told>>
  BY <1>4, <1>same, WriteRefines DEF RowWrite
<1>5. ASSUME NEW r \in Requests, GoTrueRejects(r)
      PROVE  UNCHANGED <<Owner, gotrue, Told>>
  BY <1>5 DEF GoTrueRejects, Owner, Winners, Told
<1>6. ASSUME \/ \E new \in Statuses : UpdateRecordSourceStatus(new)
             \/ Tick \/ UNCHANGED claimVars
      PROVE  UNCHANGED <<Owner, gotrue, Told>>
  <2>1. claim' = claim /\ gotrue' = gotrue
    BY <1>6 DEF UpdateRecordSourceStatus, Tick, claimVars
  <2> QED BY <2>1 DEF Owner, Winners, Told
<1> QED BY <1>1, <1>2, <1>3, <1>4, <1>5, <1>6, StepCases DEF GoTrueStep

\* Claiming implements the one-time claim: it is granted at most once, the
\* credential rests from then on, and the winner is told the one that works.
THEOREM ClaimingIsOneTime == ClaimSpec => ImplementsOneTimeClaim
<1>1. ClaimSpec => [][Abstract!Next]_<<Owner, gotrue, Told>>
  BY CallInvAlways, RefinementStep, PTL DEF ClaimSpec
<1>2. ClaimSpec => Abstract!Init
  BY RefinementInit DEF ClaimSpec
<1> QED BY <1>1, <1>2 DEF ImplementsOneTimeClaim, Abstract!Spec

-----------------------------------------------------------------------------

(***************************************************************************)
(* The inductive invariant: that of claiming, and what an import computed. *)
(***************************************************************************)
ImportInv == RowInv /\ imp \in [Imports -> ImportRun]

LEMMA ImportInvInit == ImportInit => ImportInv
<1> SUFFICES ASSUME ImportInit PROVE ImportInv
  OBVIOUS
<1> USE ClaimAssumption
<1>1. imp \in [Imports -> ImportRun]
  BY DEF ImportInit, NoImport, ImportRun, ImportSteps
<1>2. CASE ClaimInit
  BY <1>1, <1>2, RowInvInit DEF ImportInv
<1>3. CASE /\ rec = NoRow
           /\ gotrue = Null
           /\ claim = [r \in Requests |-> NoClaim]
           /\ call = [r \in Requests |-> "none"]
           /\ clock = 0
  <2>1. ClaimTypeOK
    BY <1>3 DEF ClaimTypeOK, NoRow, ReadyRow, NoClaim, ClaimRow, ClaimRequest,
       ClaimStates, Statuses
  <2>2. \A r \in Requests : LocalOK(r)
    BY <1>3 DEF LocalOK, NoClaim, Running
  <2>3. RowWellFormed
    BY <1>3 DEF RowWellFormed, NoRow, ReadyRow
  <2>4. UpdaterKeepsReservation
    BY <1>3 DEF UpdaterKeepsReservation, Updaters, NoClaim
  <2>5. OneClaimSucceeds
    BY <1>3 DEF OneClaimSucceeds, Winners, NoClaim, NoRow, ReadyRow
  <2> QED BY <1>1, <2>1, <2>2, <2>3, <2>4, <2>5 DEF RowInv, ImportInv
<1> QED BY <1>2, <1>3 DEF ImportInit

(***************************************************************************)
(* What a step of an import does to the row and to GoTrue.                 *)
(***************************************************************************)

\* The claim's own columns are left alone, or the row comes to be.
ImportEffect ==
    /\ claim' = claim /\ call' = call /\ clock' = clock
    /\ rec' \in ClaimRow /\ gotrue' \in Passwords \cup {Null}
    /\ \/ ClaimColumnsUnchanged
       \/ /\ rec.state = "absent" /\ rec'.state = "ready" /\ rec'.count = 0
          /\ rec'.mode = Null /\ rec'.hash = Null /\ rec'.op = Null /\ rec'.lease = Null

LEMMA ImportStepEffect ==
    ASSUME ImportInv, NEW i \in Imports, ImportStep(i)
    PROVE  ImportEffect
<1> USE DEF ImportInv, RowInv, ClaimTypeOK
<1>1. rec \in ClaimRow /\ imp[i] \in ImportRun
  OBVIOUS
<1>2. CASE UNCHANGED claimVars
  BY <1>1, <1>2 DEF ImportEffect, claimVars, ClaimColumnsUnchanged
<1>3. CASE UpdateUser(i) \/ CreateUser(i)
  BY <1>1, <1>3 DEF UpdateUser, CreateUser, ImportEffect, ClaimColumnsUnchanged, ImportRun
<1>4. CASE UpdateRecord(i)
  BY <1>1, <1>4 DEF UpdateRecord, ImportEffect, ClaimColumnsUnchanged, ClaimRow, ImportRun,
     Statuses
<1>5. CASE InsertRecord(i)
  BY <1>1, <1>5 DEF InsertRecord, ReadyRow, ImportEffect, ClaimRow, ImportRun,
     Statuses, ClaimStates
<1> QED BY <1>2, <1>3, <1>4, <1>5 DEF ImportStep, ListUsers, FindRecord, SelectRecord,
        FailImport

\* What an import keeps of the row in hand stays typed, whatever it read.
LEMMA ImportRunTyped ==
    ASSUME ImportInv, NEW i \in Imports, ImportStep(i)
    PROVE  imp' \in [Imports -> ImportRun]
<1> USE DEF ImportInv, RowInv, ClaimTypeOK
<1>1. imp[i] \in ImportRun /\ rec \in ClaimRow
  OBVIOUS
<1>2. ASSUME NEW users \in BOOLEAN, ListUsers(i, users)
      PROVE  imp' \in [Imports -> ImportRun]
  <2>1. (users /\ gotrue # Null) \in BOOLEAN
    OBVIOUS
  <2> QED BY <1>1, <1>2, <2>1 DEF ListUsers, ImportRun, ImportSteps
<1>3. ASSUME NEW given \in Passwords \cup {Null}, NEW proof \in Proofs \cup {Null},
             FindRecord(i, given, proof)
      PROVE  imp' \in [Imports -> ImportRun]
  <2>1. PICK p \in InitialPasswordFor(given) :
          imp' = [imp EXCEPT ![i].pc = IF imp[i].users THEN "user" ELSE "select",
                             ![i].password = p, ![i].proof = proof]
    BY <1>3 DEF FindRecord
  <2>2. rec.encrypted # Null => DecryptInitialPassword(rec.encrypted) \in Passwords
    BY <1>1 DEF ClaimRow, Ciphertexts, EncryptInitialPassword, DecryptInitialPassword
  <2>3. p \in Passwords \cup {Null}
    BY <2>2 DEF InitialPasswordFor
  <2> QED BY ZenonT(40), <1>1, <2>1, <2>3 DEF ImportRun, ImportSteps
<1>4. CASE UpdateUser(i) \/ CreateUser(i)
  BY <1>1, <1>4 DEF UpdateUser, CreateUser, ImportRun, ImportSteps
<1>5. CASE SelectRecord(i)
  <2>1. imp[i].password # Null => EncryptInitialPassword(imp[i].password) \in Ciphertexts
    BY <1>1 DEF ImportRun, Ciphertexts
  <2>2. PICK found \in BOOLEAN, user \in BOOLEAN, encrypted \in Ciphertexts \cup {Null},
             hash \in Proofs \cup {Null} :
          imp' = [imp EXCEPT ![i].pc = "save", ![i].found = found, ![i].user = user,
                             ![i].encrypted = encrypted, ![i].proofHash = hash]
    <3>1. /\ (rec.state # "absent") \in BOOLEAN
          /\ (imp[i].user \/ rec.user) \in BOOLEAN
          /\ rec.encrypted \in Ciphertexts \cup {Null}
          /\ rec.proof \in Proofs \cup {Null} /\ imp[i].proof \in Proofs \cup {Null}
      BY <1>1 DEF ClaimRow, ImportRun
    <3> DEFINE ready == rec.state \in {"absent", "ready"}
               encrypted == IF rec.state = "claimed" THEN Null
                            ELSE IF ready /\ imp[i].password # Null
                                 THEN EncryptInitialPassword(imp[i].password)
                            ELSE rec.encrypted
               hash == IF rec.state = "claimed" THEN Null
                       ELSE IF ready /\ imp[i].proof # Null THEN imp[i].proof
                       ELSE rec.proof
    <3>2. encrypted \in Ciphertexts \cup {Null} /\ hash \in Proofs \cup {Null}
      BY <2>1, <3>1
    <3>3. imp' = [imp EXCEPT ![i].pc = "save", ![i].found = rec.state # "absent",
                             ![i].user = imp[i].user \/ rec.user,
                             ![i].encrypted = encrypted, ![i].proofHash = hash]
      BY <1>5 DEF SelectRecord
    <3> HIDE DEF encrypted, hash
    <3> QED BY <3>1, <3>2, <3>3, Zenon
  <2> QED BY ZenonT(40), <1>1, <2>2 DEF ImportRun, ImportSteps
<1>6. CASE UpdateRecord(i) \/ InsertRecord(i) \/ FailImport(i)
  BY <1>1, <1>6 DEF UpdateRecord, InsertRecord, FailImport, ImportRun, ImportSteps
<1> QED BY <1>2, <1>3, <1>4, <1>5, <1>6 DEF ImportStep

LEMMA ImportEffectKeeps == ASSUME RowInv, ImportEffect PROVE RowInv'
<1> USE DEF ImportEffect
<1>1. ClaimTypeOK'
  BY DEF RowInv, ClaimTypeOK
<1>2. \A r \in Requests : LocalOK(r)'
  BY DEF RowInv, LocalOK
<1>3. Winners' = Winners /\ Updaters' = Updaters
  BY DEF Winners, Updaters
<1>4. CASE ClaimColumnsUnchanged
  BY <1>1, <1>2, <1>3, <1>4 DEF RowInv, ClaimColumnsUnchanged, RowWellFormed,
     UpdaterKeepsReservation, OneClaimSucceeds
<1>5. CASE ~ClaimColumnsUnchanged
  <2>1. rec.state = "absent" /\ rec'.state = "ready" /\ rec'.count = 0
    BY <1>5
  <2>2. Winners = {} /\ Updaters = {}
    BY <2>1 DEF RowInv, OneClaimSucceeds, UpdaterKeepsReservation
  <2>3. RowWellFormed'
    BY <1>5 DEF RowWellFormed
  <2>4. UpdaterKeepsReservation' /\ OneClaimSucceeds'
    BY <1>3, <2>1, <2>2 DEF UpdaterKeepsReservation, OneClaimSucceeds
  <2> QED BY <1>1, <1>2, <2>3, <2>4 DEF RowInv
<1> QED BY <1>4, <1>5

LEMMA ImportInvStep == ImportInv /\ [ImportNext]_systemVars => ImportInv'
<1> SUFFICES ASSUME ImportInv, [ImportNext]_systemVars PROVE ImportInv'
  OBVIOUS
<1>1. CASE ClaimNext /\ UNCHANGED importVars
  BY <1>1, RowInvStep DEF ImportInv, importVars
<1>2. ASSUME NEW i \in Imports, ImportStep(i) PROVE ImportInv'
  BY <1>2, ImportStepEffect, ImportRunTyped, ImportEffectKeeps DEF ImportInv
<1>3. CASE UNCHANGED systemVars
  <2>1. UNCHANGED claimVars /\ imp' = imp
    BY <1>3 DEF systemVars, claimVars
  <2> QED BY <2>1, RowInvStep DEF ImportInv
<1> QED BY <1>1, <1>2, <1>3 DEF ImportNext

LEMMA ImportInvAlways == ImportSpec => []ImportInv
BY ImportInvInit, ImportInvStep, PTL DEF ImportSpec

\* However stale what an import's UPDATE was computed from: the row can still
\* be continued, a reservation stays with its owner and at most one claim
\* succeeds (upsertAccountProvisioningRecord), for any number of imports.
THEOREM ImportsKeepTheClaim == ImportSpec => []ImportInvariant
<1>1. ImportInv => ImportInvariant
  BY DEF ImportInv, RowInv, ImportInvariant, ImportTypeOK, ClaimInvariant
<1> QED BY <1>1, ImportInvAlways, PTL

\* A claim that an import meets stays claimed, and an ambiguous password update
\* is not started over: the UPDATE of an import leaves the claim's columns alone.
THEOREM ImportsUndoNoClaim == ImportSpec => TerminalStates
<1>1. ImportInv /\ [ImportNext]_systemVars => [StaysFinal]_claimVars
  <2> SUFFICES ASSUME ImportInv, [ImportNext]_systemVars PROVE [StaysFinal]_claimVars
    OBVIOUS
  <2>1. CASE ClaimNext
    BY <2>1, ClaimStepStaysFinal DEF ImportInv
  <2>2. ASSUME NEW i \in Imports, ImportStep(i) PROVE StaysFinal
    BY <2>2, ImportStepEffect DEF ImportEffect, ClaimColumnsUnchanged, StaysFinal
  <2>3. CASE UNCHANGED systemVars
    BY <2>3 DEF systemVars, claimVars
  <2> QED BY <2>1, <2>2, <2>3 DEF ImportNext
<1> QED BY <1>1, ImportInvAlways, PTL DEF ImportSpec, TerminalStates, StaysFinal

(***************************************************************************)
(* Chosen passwords.  An import may replace the row's initial password at  *)
(* any time, so what holds of that one without imports does not hold here; *)
(* what holds of the passwords that claimants choose does.                 *)
(***************************************************************************)

\* Which update was asked for, by whom, and what the row knows of it.
UpdateInv ==
    /\ \A r \in Requests : CallFits(r)
    /\ \A r \in MayHaveUpdated : UpdateIsAccounted(r)
    /\ OneUpdateReachesGoTrue

\* GoTrue holds the chosen password from the update on, and the row its hash.
ChosenIsKnown ==
    /\ \A r \in Requests : call[r] = "applied" => gotrue = claim[r].password
    /\ rec.state = "password_applied" => rec.hash = HashClaimPassword(gotrue)
    /\ \A r \in Winners : claim[r].mode = "set_on_claim" => gotrue = claim[r].password

UpdateKeeps == UpdateInv' /\ (ChosenIsKnown => ChosenIsKnown')

\* Moves of a request that neither write the row nor concern GoTrue.
MoveEffect(r) ==
    /\ rec' = rec /\ call' = call /\ gotrue' = gotrue
    /\ \A s \in Requests \ {r} : claim'[s] = claim[s]
    /\ (call[r] # "none" \/ r \in Winners) =>
         claim'[r].password = claim[r].password /\ claim'[r].mode = claim[r].mode
    /\ r \in Winners' <=> r \in Winners
    /\ CallFits(r)'

LEMMA MoveEffectKeeps ==
    ASSUME UpdateInv, NEW r \in Requests, MoveEffect(r) PROVE UpdateKeeps
<1> USE DEF UpdateInv, MoveEffect
<1>1. \A s \in Requests : CallFits(s)'
  BY DEF CallFits
<1>2. MayHaveUpdated' = MayHaveUpdated /\ MayHaveUpdated \subseteq Requests
  BY DEF MayHaveUpdated
<1>3. \A s \in Requests : UpdateIsAccounted(s)' <=> UpdateIsAccounted(s)
  BY DEF UpdateIsAccounted
<1>4. \A s \in Requests : call[s] = "applied" => claim'[s].password = claim[s].password
  OBVIOUS
<1>5. \A s \in Winners' : /\ s \in Winners /\ claim'[s].password = claim[s].password
                         /\ claim'[s].mode = claim[s].mode
  BY DEF Winners
<1>6. ChosenIsKnown => ChosenIsKnown'
  BY <1>4, <1>5 DEF ChosenIsKnown
<1> QED BY <1>1, <1>2, <1>3, <1>6 DEF UpdateKeeps, OneUpdateReachesGoTrue

LEMMA ClaimAccountMove ==
    ASSUME RowInv, UpdateInv, NEW r \in Requests, NEW mode \in PasswordModes,
           NEW p \in Passwords, ClaimAccount(r, mode, p)
    PROVE  MoveEffect(r)
<1> USE DEF RowInv, ClaimTypeOK
<1>1. QuietEffect(r) /\ CallFits(r)
  BY ClaimAccountEffect DEF UpdateInv
<1>2. claim[r].pc = "idle" /\ call' = call /\ gotrue' = gotrue
  BY DEF ClaimAccount
<1>3. claim'[r].pc \in {"reserve", "unavailable"}
  BY DEF ClaimAccount, Goto, ClaimRequest
<1>4. call[r] = "none" /\ r \notin Winners
  BY <1>1, <1>2 DEF CallFits, Winners
<1> QED BY <1>1, <1>2, <1>3, <1>4 DEF MoveEffect, QuietEffect, CallFits

LEMMA QuietMoveMoves ==
    ASSUME RowInv, UpdateInv, NEW r \in Requests, QuietMove(r), ~SendPasswordUpdate(r)
    PROVE  MoveEffect(r)
<1> USE DEF RowInv, ClaimTypeOK
<1>1. /\ QuietEffect(r) /\ CallFits(r)
  BY QuietMoveEffect DEF UpdateInv
<1>2. PICK to \in Running \cup Finished :
        /\ claim' = [claim EXCEPT ![r].pc = to]
        /\ to \in UpdaterSteps => claim[r].pc \in UpdaterSteps
  BY QuietMoveSteps
<1>3. /\ claim'[r].pc = to /\ claim'[r].mode = claim[r].mode
      /\ claim'[r].password = claim[r].password
  BY <1>2 DEF ClaimRequest
<1>4. rec' = rec /\ call' = call /\ gotrue' = gotrue
  BY DEF QuietMove, LoseReservationRace, UpdateSucceeds, UpdateRejected,
     UpdateAmbiguous, AuditAccountClaim, ReservationLost, Respond, Fail
<1>5. CallFits(r)'
  <2>1. CASE LoseReservationRace(r) \/ ReservationLost(r) \/ Respond(r)
    BY <1>1, <1>3, <1>4, <2>1 DEF LoseReservationRace, ReservationLost, Respond, Goto,
       ClaimRequest, CallFits
  <2>2. CASE UpdateSucceeds(r) \/ UpdateRejected(r) \/ UpdateAmbiguous(r)
    BY <1>1, <1>3, <1>4, <2>2 DEF UpdateSucceeds, UpdateRejected, UpdateAmbiguous, Goto,
       ClaimRequest, CallFits
  <2>3. CASE AuditAccountClaim(r)
    BY <1>1, <1>3, <1>4, <2>3 DEF AuditAccountClaim, Goto, ClaimRequest, CallFits
  <2>4. CASE Fail(r)
    BY <1>1, <1>3, <1>4, <2>4 DEF Fail, Goto, ClaimRequest, CallFits
  <2> QED BY <2>1, <2>2, <2>3, <2>4 DEF QuietMove
<1> QED BY <1>1, <1>3, <1>4, <1>5 DEF MoveEffect, QuietEffect

\* Whoever holds the pending reservation is the only one with an update.
LEMMA UpdaterIsAlone ==
    ASSUME UpdateInv, NEW r \in Requests, rec.state = "pending", rec.op = r
    PROVE  MayHaveUpdated \subseteq {r}
BY DEF UpdateInv, UpdateIsAccounted

LEMMA SendKeepsUpdate ==
    ASSUME RowInv, UpdateInv, NEW r \in Requests, SendPasswordUpdate(r)
    PROVE  UpdateKeeps
<1> USE DEF RowInv, ClaimTypeOK, UpdateInv
<1>1. /\ claim[r].pc = "update" /\ rec' = rec /\ gotrue' = gotrue
      /\ call' = [call EXCEPT ![r] = "sent"]
      /\ claim' = [claim EXCEPT ![r].pc = "updating"]
  BY DEF SendPasswordUpdate, Goto
<1>2. /\ claim'[r].pc = "updating" /\ claim'[r].mode = claim[r].mode
      /\ claim'[r].password = claim[r].password
      /\ \A s \in Requests \ {r} : claim'[s] = claim[s] /\ call'[s] = call[s]
      /\ call'[r] = "sent" /\ call[r] = "none"
  BY <1>1 DEF ClaimRequest, CallFits
<1>3. rec.op = r /\ rec.state = "pending" /\ rec.mode = "set_on_claim"
  BY <1>1 DEF UpdaterKeepsReservation, Updaters
<1>4. \A s \in Requests : CallFits(s)'
  BY <1>1, <1>2 DEF CallFits
<1>5. MayHaveUpdated' = {r}
  BY <1>2, <1>3, UpdaterIsAlone DEF MayHaveUpdated
<1>6. UpdateIsAccounted(r)'
  BY <1>1, <1>3 DEF UpdateIsAccounted
<1>7. ChosenIsKnown => ChosenIsKnown'
  BY <1>1, <1>2 DEF ChosenIsKnown, Winners
<1> QED BY <1>4, <1>5, <1>6, <1>7 DEF UpdateKeeps, OneUpdateReachesGoTrue

\* A late update meets a row that waits for it or was marked unknown.
LEMMA GoTrueKeepsUpdate ==
    ASSUME RowInv, UpdateInv, NEW r \in Requests, GoTrueStep(r)
    PROVE  UpdateKeeps
<1> USE DEF RowInv, ClaimTypeOK, UpdateInv
<1>1. /\ rec' = rec /\ claim' = claim /\ call[r] = "sent"
      /\ \/ call'[r] = "applied" /\ gotrue' = claim[r].password
         \/ call'[r] = "rejected" /\ gotrue' = gotrue
      /\ \A s \in Requests \ {r} : call'[s] = call[s]
  BY DEF GoTrueStep, GoTrueApplies, GoTrueRejects
<1>2. r \in MayHaveUpdated /\ MayHaveUpdated = {r} /\ MayHaveUpdated' \subseteq {r}
  BY <1>1 DEF MayHaveUpdated, OneUpdateReachesGoTrue
<1>3. rec.state \in {"pending", "password_update_unknown"}
  BY <1>1, <1>2 DEF UpdateIsAccounted
<1>4. UpdateIsAccounted(r)'
  BY <1>1, <1>2, <1>3 DEF UpdateIsAccounted
<1>5. \A s \in Requests : CallFits(s)'
  BY <1>1 DEF CallFits
<1>6. Winners' = {}
  BY <1>1, <1>3 DEF OneClaimSucceeds, Winners
<1>7. \A s \in Requests : call'[s] = "applied" => s = r /\ gotrue' = claim[r].password
  BY <1>1, <1>2 DEF MayHaveUpdated
<1>8. ChosenIsKnown'
  BY <1>1, <1>3, <1>6, <1>7 DEF ChosenIsKnown
<1> QED BY <1>2, <1>4, <1>5, <1>8 DEF UpdateKeeps, OneUpdateReachesGoTrue

LEMMA ReserveKeepsUpdate ==
    ASSUME RowInv, UpdateInv, NEW r \in Requests, Reserve(r)
    PROVE  UpdateKeeps
<1> USE ClaimAssumption DEF RowInv, ClaimTypeOK, UpdateInv
<1>1. /\ claim[r].pc = "reserve" /\ LocalOK(r) /\ ReservationStateCondition(claim[r])
      /\ rec \in ClaimRow /\ claim[r] \in ClaimRequest
      /\ call' = call /\ gotrue' = gotrue
      /\ \A s \in Requests \ {r} : claim'[s] = claim[s]
  BY DEF Reserve, PersistCondition
<1>2. /\ rec'.state = IF claim[r].expected = "password_applied"
                      THEN "password_applied" ELSE "pending"
      /\ rec'.hash = claim[r].hash
  BY <1>1 DEF Reserve, ReservedRow, ClaimRow
<1>3. /\ claim'[r].pc = IF claim[r].mode = "set_on_claim"
                           /\ claim[r].expected # "password_applied"
                        THEN "update" ELSE "audit"
      /\ claim'[r].password = IF claim[r].mode = "set_on_claim" THEN claim[r].password
                              ELSE DecryptInitialPassword(rec.encrypted)
  BY <1>1 DEF Reserve, ClaimRequest
<1>4. /\ claim[r].mode = "set_on_claim" => claim[r].password \in Passwords
      /\ call[r] = "none" /\ r \notin Winners
  BY <1>1 DEF LocalOK, Running, CallFits, Winners
<1>5. CallFits(r)' /\ \A s \in Requests : CallFits(s)'
  BY <1>1, <1>3, <1>4 DEF CallFits
<1>6. MayHaveUpdated' = MayHaveUpdated
  BY <1>1 DEF MayHaveUpdated
<1>7. \/ rec.state = "password_applied" /\ rec'.state = "password_applied"
         /\ rec'.hash = rec.hash
      \/ /\ \/ rec.state = "ready"
            \/ rec.state = "pending" /\ rec.hash = Null
         /\ rec'.state = "pending"
  <2>1. claim[r].expected \in {"ready", "pending", "password_applied"}
    BY <1>1 DEF LocalOK, Running
  <2> QED BY <1>1, <1>2, <2>1 DEF ReservationStateCondition
<1>8. \A s \in MayHaveUpdated : UpdateIsAccounted(s)'
  <2> SUFFICES ASSUME NEW s \in MayHaveUpdated PROVE UpdateIsAccounted(s)'
    OBVIOUS
  <2>1. ~(rec.state = "pending" /\ rec.hash = Null /\ rec.mode = "set_on_claim")
    BY DEF RowWellFormed
  <2>2. rec.state = "password_applied" /\ call[s] = "applied"
    BY <1>7, <2>1 DEF UpdateIsAccounted
  <2> QED BY <1>1, <1>7, <2>2 DEF UpdateIsAccounted
<1>9. \A s \in Winners' : s \in Winners /\ claim'[s] = claim[s]
  BY <1>1, <1>3 DEF Winners
<1>10. \A s \in Requests : call[s] = "applied" => claim'[s].password = claim[s].password
  BY <1>1, <1>4
<1>11. ChosenIsKnown => ChosenIsKnown'
  BY <1>1, <1>7, <1>9, <1>10 DEF ChosenIsKnown
<1> QED BY <1>5, <1>6, <1>8, <1>11 DEF UpdateKeeps, OneUpdateReachesGoTrue

LEMMA SettleKeepsUpdate ==
    ASSUME RowInv, UpdateInv, NEW r \in Requests,
           \/ ReleasePasswordReservation(r) \/ MarkClaimPasswordApplied(r)
           \/ MarkClaimPasswordUpdateUnknown(r)
    PROVE  UpdateKeeps
<1> USE DEF RowInv, ClaimTypeOK, UpdateInv
<1>1. /\ call' = call /\ gotrue' = gotrue
      /\ \A s \in Requests \ {r} : claim'[s] = claim[s]
      /\ claim'[r].password = claim[r].password
      /\ claim'[r].pc \in {"rejected", "audit", "respond"}
      /\ claim'[r].pc = "respond" <=> claim[r].pc = "finalize"
      /\ LocalOK(r) /\ rec \in ClaimRow
  BY OwnerWriteEffect
<1>2. claim[r].pc \in {"release", "mark_applied", "mark_unknown"} /\ r \in Updaters
  BY DEF ReleasePasswordReservation, MarkClaimPasswordApplied,
     MarkClaimPasswordUpdateUnknown, Updaters
<1>3. rec.op = r /\ rec.state = "pending" /\ rec.mode = "set_on_claim"
  BY <1>2 DEF UpdaterKeepsReservation
<1>4. \/ rec'.state = "ready" /\ call[r] = "rejected"
      \/ rec' = rec
      \/ rec'.state = "password_update_unknown"
      \/ /\ rec'.state = "password_applied" /\ call[r] = "applied"
         /\ rec'.hash = claim[r].hash /\ claim[r].mode = "set_on_claim"
  <2>1. CASE ReleasePasswordReservation(r)
    BY <2>1, <1>1, <1>3 DEF ReleasePasswordReservation, CallFits, ClaimRow
  <2>2. CASE MarkClaimPasswordApplied(r)
    BY <2>2, <1>1, <1>3 DEF MarkClaimPasswordApplied, ReservationOwned, CallFits, ClaimRow
  <2>3. CASE MarkClaimPasswordUpdateUnknown(r)
    BY <2>3, <1>1 DEF MarkClaimPasswordUpdateUnknown, ClaimRow
  <2> QED BY <2>1, <2>2, <2>3
<1>5. \A s \in Requests : CallFits(s)'
  BY <1>1, <1>2 DEF CallFits
<1>6. MayHaveUpdated' = MayHaveUpdated /\ MayHaveUpdated \subseteq {r}
  BY <1>1, <1>3, UpdaterIsAlone DEF MayHaveUpdated
<1>7. r \in MayHaveUpdated => UpdateIsAccounted(r)'
  BY <1>1, <1>3, <1>4 DEF UpdateIsAccounted, MayHaveUpdated
<1>8. Winners' = {}
  BY <1>1, <1>2, <1>3 DEF OneClaimSucceeds, Winners
<1>9. \A s \in Requests : claim'[s].password = claim[s].password
  BY <1>1
<1>10. ChosenIsKnown => ChosenIsKnown'
  <2> SUFFICES ASSUME ChosenIsKnown, rec'.state = "password_applied"
               PROVE  rec'.hash = HashClaimPassword(gotrue)
    BY <1>1, <1>8, <1>9 DEF ChosenIsKnown
  <2>1. call[r] = "applied" /\ rec'.hash = claim[r].hash /\ claim[r].mode = "set_on_claim"
    BY <1>3, <1>4
  <2>2. claim[r].hash = HashClaimPassword(claim[r].password)
    BY <1>1, <1>2, <2>1 DEF LocalOK, Running
  <2> QED BY <2>1, <2>2 DEF ChosenIsKnown
<1> QED BY <1>5, <1>6, <1>7, <1>10 DEF UpdateKeeps, OneUpdateReachesGoTrue

\* The claim of a chosen password ends when the row's hash says it is GoTrue's.
LEMMA FinalizeKeepsUpdate ==
    ASSUME RowInv, UpdateInv, NEW r \in Requests, FinalizeAccountClaim(r)
    PROVE  UpdateKeeps
<1> USE DEF RowInv, ClaimTypeOK, UpdateInv
<1>1. /\ call' = call /\ gotrue' = gotrue
      /\ \A s \in Requests \ {r} : claim'[s] = claim[s]
      /\ claim'[r].mode = claim[r].mode /\ claim'[r].password = claim[r].password
      /\ claim'[r].pc \in {"rejected", "audit", "respond"}
      /\ claim'[r].pc = "respond" <=> claim[r].pc = "finalize"
      /\ LocalOK(r) /\ rec \in ClaimRow
  BY OwnerWriteEffect
<1>2. /\ claim[r].pc = "finalize" /\ claim'[r].pc = "respond"
      /\ rec.state = FinalState(r) /\ rec.mode = claim[r].mode
      /\ rec.hash = claim[r].hash
  BY <1>1 DEF FinalizeAccountClaim, ReservationOwned
<1>3. rec'.state = "claimed"
  BY <1>1 DEF FinalizeAccountClaim, ClaimRow
<1>4. Winners' = {r}
  <2>1. Winners = {}
    BY <1>2 DEF OneClaimSucceeds, FinalState
  <2> QED BY <1>1, <1>2, <2>1 DEF Winners
<1>5. ChosenIsKnown /\ claim[r].mode = "set_on_claim" => gotrue = claim[r].password
  <2> SUFFICES ASSUME ChosenIsKnown, claim[r].mode = "set_on_claim"
               PROVE  gotrue = claim[r].password
    OBVIOUS
  <2>1. rec.hash = HashClaimPassword(gotrue)
    BY <1>2 DEF FinalState, ChosenIsKnown
  <2>2. rec.hash = HashClaimPassword(claim[r].password)
    BY <1>1, <1>2 DEF LocalOK, Running
  <2> QED BY <2>1, <2>2 DEF HashClaimPassword
<1>6. \A s \in Requests : CallFits(s)'
  BY <1>1, <1>2 DEF CallFits
<1>7. MayHaveUpdated' = MayHaveUpdated
  BY <1>1 DEF MayHaveUpdated
<1>8. \A s \in MayHaveUpdated : UpdateIsAccounted(s)'
  <2>1. rec.state = "pending" => rec.mode # "set_on_claim"
    BY <1>2 DEF FinalState
  <2> QED BY <1>1, <1>2, <1>3, <2>1 DEF UpdateIsAccounted, FinalState
<1>9. ChosenIsKnown => ChosenIsKnown'
  BY <1>1, <1>3, <1>4, <1>5 DEF ChosenIsKnown
<1> QED BY <1>6, <1>7, <1>8, <1>9 DEF UpdateKeeps, OneUpdateReachesGoTrue

LEMMA UpdateInvStep ==
    ASSUME RowInv, UpdateInv, [ClaimNext]_claimVars PROVE UpdateKeeps
<1>1. ASSUME NEW r \in Requests, NEW mode \in PasswordModes, NEW p \in Passwords,
             ClaimAccount(r, mode, p)
      PROVE  UpdateKeeps
  BY <1>1, ClaimAccountMove, MoveEffectKeeps
<1>2. ASSUME NEW r \in Requests, QuietMove(r) PROVE UpdateKeeps
  BY <1>2, QuietMoveMoves, MoveEffectKeeps, SendKeepsUpdate
<1>3. ASSUME NEW r \in Requests, RowWrite(r) PROVE UpdateKeeps
  BY <1>3, ReserveKeepsUpdate, SettleKeepsUpdate, FinalizeKeepsUpdate DEF RowWrite
<1>4. CASE \/ \E new \in Statuses : UpdateRecordSourceStatus(new)
           \/ Tick \/ UNCHANGED claimVars
  <2>1. /\ rec'.state = rec.state /\ rec'.mode = rec.mode /\ rec'.op = rec.op
        /\ rec'.hash = rec.hash /\ claim' = claim /\ call' = call /\ gotrue' = gotrue
    BY <1>4 DEF UpdateRecordSourceStatus, Tick, claimVars, RowInv, ClaimTypeOK, ClaimRow
  <2> QED BY <2>1 DEF UpdateInv, UpdateKeeps, CallFits, UpdateIsAccounted, MayHaveUpdated,
          OneUpdateReachesGoTrue, ChosenIsKnown, Winners
<1> QED BY <1>1, <1>2, <1>3, <1>4, StepCases, GoTrueKeepsUpdate

(***************************************************************************)
(* Imports that leave GoTrue's users alone.                                *)
(***************************************************************************)
UsersLeftAlone == \A i \in Imports : ~imp[i].users

\* An import changes a user only when it was asked to.
UserStepsFit(i) ==
    /\ imp[i].pc = "idle" => ~imp[i].users
    /\ imp[i].pc = "user" => imp[i].users

SetPasswordInv ==
    /\ ImportInv
    /\ \A i \in Imports : UserStepsFit(i)
    /\ UpdateInv
    /\ UsersLeftAlone => ChosenIsKnown

LEMMA SetPasswordInvInit == ImportInit => SetPasswordInv
<1> SUFFICES ASSUME ImportInit PROVE SetPasswordInv
  OBVIOUS
<1>1. /\ claim = [r \in Requests |-> NoClaim]
      /\ call = [r \in Requests |-> "none"]
      /\ imp = [i \in Imports |-> NoImport]
  BY DEF ImportInit, ClaimInit
<1>2. rec.state \in {"ready", "absent"}
  <2>1. CASE ClaimInit
    BY <2>1 DEF ClaimInit, ReadyRow
  <2>2. CASE rec = NoRow
    BY <2>2 DEF NoRow, ReadyRow
  <2> QED BY <2>1, <2>2 DEF ImportInit
<1>3. \A i \in Imports : UserStepsFit(i)
  BY <1>1 DEF UserStepsFit, NoImport
<1>4. \A r \in Requests : CallFits(r)
  BY <1>1 DEF CallFits, NoClaim
<1>5. MayHaveUpdated = {} /\ Winners = {}
  BY <1>1 DEF MayHaveUpdated, Winners, NoClaim
<1>6. ChosenIsKnown
  BY <1>1, <1>2, <1>5 DEF ChosenIsKnown
<1> QED BY <1>3, <1>4, <1>5, <1>6, ImportInvInit
        DEF SetPasswordInv, UpdateInv, OneUpdateReachesGoTrue

LEMMA ImportUsers ==
    ASSUME SetPasswordInv, NEW i \in Imports, ImportStep(i)
    PROVE  /\ \A j \in Imports : UserStepsFit(j)'
           /\ UsersLeftAlone' => UsersLeftAlone /\ gotrue' = gotrue
<1> USE DEF SetPasswordInv, ImportInv
<1>1. imp[i] \in ImportRun /\ UserStepsFit(i)
  OBVIOUS
<1> DEFINE Fits == /\ \A j \in Imports \ {i} : imp'[j] = imp[j]
                   /\ UserStepsFit(i)'
                   /\ ~imp'[i].users => ~imp[i].users /\ gotrue' = gotrue
<1>2. Fits
  <2>1. ASSUME NEW users \in BOOLEAN, ListUsers(i, users) PROVE Fits
    BY <1>1, <2>1 DEF ListUsers, UserStepsFit, ImportRun, claimVars
  <2>2. ASSUME NEW given \in Passwords \cup {Null}, NEW proof \in Proofs \cup {Null},
               FindRecord(i, given, proof)
        PROVE  Fits
    BY <1>1, <2>2 DEF FindRecord, UserStepsFit, ImportRun, claimVars
  <2>3. CASE UpdateUser(i) \/ CreateUser(i)
    BY <1>1, <2>3 DEF UpdateUser, CreateUser, UserStepsFit, ImportRun
  <2>4. CASE SelectRecord(i)
    BY <1>1, <2>4 DEF SelectRecord, UserStepsFit, ImportRun, claimVars
  <2>5. CASE UpdateRecord(i) \/ InsertRecord(i) \/ FailImport(i)
    BY <1>1, <2>5 DEF UpdateRecord, InsertRecord, FailImport, UserStepsFit, ImportRun,
       claimVars
  <2> QED BY <2>1, <2>2, <2>3, <2>4, <2>5 DEF ImportStep
<1> QED BY <1>2 DEF UserStepsFit, UsersLeftAlone

LEMMA ImportKeepsUpdate ==
    ASSUME ImportInv, UpdateInv, ImportEffect
    PROVE  UpdateInv' /\ (gotrue' = gotrue => (ChosenIsKnown => ChosenIsKnown'))
<1> USE DEF ImportEffect, UpdateInv
<1>1. MayHaveUpdated' = MayHaveUpdated /\ Winners' = Winners
  BY DEF MayHaveUpdated, Winners
<1>2. \A r \in Requests : CallFits(r)'
  BY DEF CallFits
<1>3. CASE ClaimColumnsUnchanged
  BY <1>1, <1>2, <1>3 DEF ClaimColumnsUnchanged, UpdateIsAccounted, OneUpdateReachesGoTrue,
     ChosenIsKnown
<1>4. CASE ~ClaimColumnsUnchanged
  <2>1. rec.state = "absent" /\ rec'.state = "ready"
    BY <1>4
  <2>2. MayHaveUpdated = {}
    BY <2>1 DEF UpdateIsAccounted
  <2> QED BY <1>1, <1>2, <2>1, <2>2 DEF OneUpdateReachesGoTrue, ChosenIsKnown
<1> QED BY <1>3, <1>4

LEMMA SetPasswordInvStep == SetPasswordInv /\ [ImportNext]_systemVars => SetPasswordInv'
<1> SUFFICES ASSUME SetPasswordInv, [ImportNext]_systemVars PROVE SetPasswordInv'
  OBVIOUS
<1>1. ImportInv'
  BY ImportInvStep DEF SetPasswordInv
<1>2. CASE [ClaimNext]_claimVars /\ imp' = imp
  <2>1. UpdateKeeps
    BY <1>2, UpdateInvStep DEF SetPasswordInv, ImportInv
  <2> QED BY <1>1, <1>2, <2>1 DEF SetPasswordInv, UpdateKeeps, UserStepsFit, UsersLeftAlone
<1>3. ASSUME NEW i \in Imports, ImportStep(i) PROVE SetPasswordInv'
  <2>1. ImportEffect
    BY <1>3, ImportStepEffect DEF SetPasswordInv
  <2>2. UpdateInv' /\ (gotrue' = gotrue => (ChosenIsKnown => ChosenIsKnown'))
    BY <2>1, ImportKeepsUpdate DEF SetPasswordInv
  <2>3. /\ \A j \in Imports : UserStepsFit(j)'
        /\ UsersLeftAlone' => UsersLeftAlone /\ gotrue' = gotrue
    BY <1>3, ImportUsers
  <2> QED BY <1>1, <2>2, <2>3 DEF SetPasswordInv
<1>4. UNCHANGED systemVars => UNCHANGED claimVars /\ imp' = imp
  BY DEF systemVars, claimVars
<1> QED BY <1>2, <1>3, <1>4 DEF ImportNext, importVars

\* A chosen password that a claimant was told is set is the one GoTrue accepts,
\* whatever any number of imports without create_users write into the row.
THEOREM ImportsKeepSetPasswords == ImportSpec => []SetPasswordWorks
<1>1. SetPasswordInv => SetPasswordWorks
  BY DEF SetPasswordInv, SetPasswordWorks, ChosenIsKnown, UsersLeftAlone
<1> QED BY <1>1, SetPasswordInvInit, SetPasswordInvStep, PTL DEF ImportSpec

(***************************************************************************)
(* Status synchronisation: the table's rows and the pages of the job.      *)
(***************************************************************************)

Record == [emp : Employees, status : SyncStatuses]

LEMMA RowsAreASequence ==
    ASSUME NEW o \in SetToSeqs(Employees)
    PROVE  o \in Seq(Employees)
<1>1. Cardinality(Employees) \in Nat
  BY SyncAssumption, FS_CardinalityType
<1>2. o \in [1..Cardinality(Employees) -> Employees]
  BY DEF SetToSeqs
<1> QED BY <1>1, <1>2

LEMMA SmallerOfTwo ==
    ASSUME NEW m \in Nat, NEW n \in Nat
    PROVE  Min({m, n}) = IF m <= n THEN m ELSE n
<1> DEFINE k == IF m <= n THEN m ELSE n
<1>1. k \in {m, n} /\ \A y \in {m, n} : k <= y
  OBVIOUS
<1>2. \A x \in {m, n} : (\A y \in {m, n} : x <= y) => x = k
  OBVIOUS
<1> HIDE DEF k
<1>3. Min({m, n}) = k
  BY <1>1, <1>2 DEF Min
<1> QED BY <1>3 DEF k

\* A page holds rows of the table, and no more than a batch.
LEMMA PageIsABatch ==
    ASSUME SyncTypeOK, NEW j \in Jobs,
           NEW rows, rows = SubSeq(order, job[j].offset + 1,
                              Min({job[j].offset + Min({BatchSize, PageLimit}), Len(order)}))
    PROVE  rows \in Seq(Employees) /\ Len(rows) <= BatchSize
<1> DEFINE limit == Min({BatchSize, PageLimit})
           offset == job[j].offset
           last == Min({offset + limit, Len(order)})
<1>1. limit \in Nat /\ limit <= BatchSize /\ BatchSize \in Nat
  BY SyncAssumption, SmallerOfTwo
<1>2. offset \in Nat
  BY DEF SyncTypeOK, Pass
<1>3. order \in Seq(Employees) /\ Len(order) \in Nat
  BY RowsAreASequence DEF SyncTypeOK
<1>5. rows = SubSeq(order, offset + 1, last)
  OBVIOUS
<1> HIDE DEF limit, offset
<1>4. last \in Nat /\ last <= offset + limit /\ last <= Len(order)
  <2>1. offset + limit \in Nat
    BY <1>1, <1>2
  <2> QED BY <1>3, <2>1, SmallerOfTwo
<1> HIDE DEF last
<1>6. \A i \in (offset + 1)..last : order[i] \in Employees
  BY <1>2, <1>3, <1>4
<1>7. /\ SubSeq(order, offset + 1, last) \in Seq(Employees)
      /\ Len(SubSeq(order, offset + 1, last)) =
           IF offset + 1 <= last THEN last - (offset + 1) + 1 ELSE 0
  <2>1. offset + 1 \in Int /\ last \in Int
    BY <1>2, <1>4
  <2> QED BY <1>6, <2>1, SubSeqProperties, Zenon
<1>8. /\ rows \in Seq(Employees)
      /\ Len(rows) = IF offset + 1 <= last THEN last - (offset + 1) + 1 ELSE 0
  BY <1>5, <1>7, Zenon
<1>9. Len(rows) <= BatchSize
  BY ONLY <1>1, <1>2, <1>4, <1>8
<1> QED BY <1>8, <1>9

(***************************************************************************)
(* Every variable keeps its type, with any number of clients.              *)
(***************************************************************************)

\* A pass that is at a record has one, and calls GoTrue only about a user.
PassFits(p) ==
    p.pc \in {"check", "suspend", "unsuspend"} =>
      /\ Len(p.page) \in 1..BatchSize
      /\ p.pc # "check" => Head(p.page).emp \in Linked

\* A step of the pass of j that leaves the records and the requests alone.
PassMoves(j) ==
    /\ \E p \in Pass : PassFits(p) /\ job' = [job EXCEPT ![j] = p]
    /\ banned' \subseteq Linked /\ excused' \subseteq Employees
    /\ failures' \in 0..MaxFailures
    /\ UNCHANGED <<status, order, sync, changes>>

LEMMA PassKeepsTypes ==
    ASSUME SyncTypeOK, NEW j \in Jobs, PassMoves(j)
    PROVE  SyncTypeOK'
<1>1. PICK p \in Pass : PassFits(p) /\ job' = [job EXCEPT ![j] = p]
  BY DEF PassMoves
<1>2. job' \in [Jobs -> Pass] /\ \A k \in Jobs : PassFits(job'[k])
  BY <1>1 DEF SyncTypeOK, PassFits
<1> QED BY <1>2 DEF SyncTypeOK, PassMoves, PassFits, CallsGoTrue

LEMMA AdvanceFits ==
    ASSUME NEW p \in Pass, Len(p.page) \in 1..BatchSize
    PROVE  Advance(p) \in Pass /\ PassFits(Advance(p))
<1> DEFINE rest == Tail(p.page)
<1>1. BatchSize \in Nat /\ p.page \in Seq(Record) /\ p.offset \in Nat /\ p.full \in BOOLEAN
  BY SyncAssumption DEF Pass, Page, Record
<1>2. rest \in Seq(Record) /\ Len(rest) = Len(p.page) - 1 /\ (rest # <<>> => Len(rest) \in 1..BatchSize)
  BY <1>1
<1> HIDE DEF rest
<1>3. CASE rest # <<>>
  <2>1. Advance(p) = [p EXCEPT !.pc = "check", !.page = rest]
    BY <1>3 DEF Advance, rest
  <2> QED BY <1>1, <1>2, <1>3, <2>1 DEF Pass, Page, Record, PassFits
<1>4. CASE rest = <<>> /\ p.full
  <2> DEFINE next == p.offset + BatchSize
  <2>1. Advance(p) = [p EXCEPT !.pc = "list", !.page = rest, !.offset = next]
    BY <1>4 DEF Advance, rest
  <2>2. next \in Nat
    BY <1>1
  <2> HIDE DEF next
  <2> QED BY <1>2, <2>1, <2>2 DEF Pass, Page, Record, PassFits
<1>5. CASE rest = <<>> /\ ~p.full
  <2>1. Advance(p) = [p EXCEPT !.pc = "done", !.page = rest]
    BY <1>5 DEF Advance, rest
  <2> QED BY <1>1, <1>2, <2>1 DEF Pass, Page, Record, PassFits
<1> QED BY <1>1, <1>3, <1>4, <1>5

LEMMA PassStepMoves ==
    ASSUME SyncTypeOK, NEW j \in Jobs, PassStep(j) \/ JobCallFails(j) \/ PassAborts(j)
    PROVE  PassMoves(j)
<1>1. /\ job[j] \in Pass /\ PassFits(job[j]) /\ job \in [Jobs -> Pass]
      /\ banned \subseteq Linked /\ excused \subseteq Employees /\ Linked \subseteq Employees
      /\ failures \in 0..MaxFailures /\ MaxFailures \in Nat
  BY SyncAssumption DEF SyncTypeOK, PassFits
<1>2. NoPass \in Pass /\ [NoPass EXCEPT !.pc = "list"] \in Pass
      /\ PassFits(NoPass) /\ PassFits([NoPass EXCEPT !.pc = "list"])
  <2>1. <<>> \in Page
    BY DEF Page
  <2> QED BY <2>1 DEF NoPass, Pass, PassFits
<1>3. job[j].pc \in {"check", "suspend", "unsuspend"} =>
        /\ Advance(job[j]) \in Pass /\ PassFits(Advance(job[j]))
        /\ Head(job[j].page).emp \in Employees
        /\ job[j].pc # "check" => Head(job[j].page).emp \in Linked
  <2>1. job[j].pc \in {"check", "suspend", "unsuspend"} => Head(job[j].page) \in Record
    <3>1. job[j].page \in Seq(Record)
      BY <1>1 DEF Pass, Page, Record
    <3>2. ASSUME Len(job[j].page) \in 1..BatchSize PROVE Head(job[j].page) \in Record
      BY <3>1, <3>2, SyncAssumption
    <3> QED BY <1>1, <3>2 DEF PassFits
  <2> QED BY <1>1, <2>1, AdvanceFits DEF PassFits, Record
<1>4. CASE StartPass(j)
  BY <1>1, <1>2, <1>4 DEF StartPass, PassMoves
<1>5. CASE ListPage(j)
  <2> DEFINE rows == SubSeq(order, job[j].offset + 1,
                       Min({job[j].offset + Min({BatchSize, PageLimit}), Len(order)}))
             page == [i \in DOMAIN rows |-> [emp |-> rows[i], status |-> status[rows[i]]]]
             pc == IF rows = <<>> THEN "done" ELSE "check"
  <2>1. rows \in Seq(Employees) /\ Len(rows) <= BatchSize
    BY PageIsABatch
  <2>2. /\ job' = [job EXCEPT ![j].pc = pc, ![j].page = page, ![j].full = MoreAfter(rows)]
        /\ UNCHANGED <<status, order, banned, sync, excused, changes, failures>>
    BY <1>5 DEF ListPage
  <2> HIDE DEF rows
  <2>3. page \in Seq(Record) /\ Len(page) = Len(rows)
    <3>1. DOMAIN rows = 1..Len(rows) /\ Len(rows) \in Nat
          /\ \A i \in 1..Len(rows) : rows[i] \in Employees
      BY <2>1
    <3>2. \A e \in Employees : [emp |-> e, status |-> status[e]] \in Record
      BY DEF SyncTypeOK, Record
    <3>3. page \in [1..Len(rows) -> Record]
      BY <3>1, <3>2
    <3> HIDE DEF page
    <3> QED BY <3>1, <3>3
  <2>4. pc \in {"done", "check"} /\ (pc = "check" => Len(page) \in 1..BatchSize)
    BY <2>1, <2>3, SyncAssumption
  <2> HIDE DEF page, pc
  <2> DEFINE p == [job[j] EXCEPT !.pc = pc, !.page = page, !.full = MoreAfter(rows)]
  <2>5. p \in Pass /\ PassFits(p)
    BY <1>1, <2>3, <2>4 DEF Pass, Page, Record, PassFits, MoreAfter
  <2>6. job' = [job EXCEPT ![j] = p]
    BY <1>1, <2>2
  <2> QED BY <1>1, <2>2, <2>5, <2>6 DEF PassMoves
<1>6. CASE CheckRecord(j)
  <2>1. PICK p \in {Advance(job[j]), [job[j] EXCEPT !.pc = Needed(Head(job[j].page))]} :
          /\ job' = [job EXCEPT ![j] = p]
          /\ p # Advance(job[j]) => Needed(Head(job[j].page)) # "none"
    BY <1>6 DEF CheckRecord
  <2>2. p \in Pass /\ PassFits(p)
    BY <1>1, <1>3, <1>6, <2>1 DEF CheckRecord, Needed, Pass, PassFits
  <2> QED BY <1>1, <1>6, <2>1, <2>2 DEF CheckRecord, PassMoves
<1>7. CASE JobSuspends(j)
  BY <1>1, <1>3, <1>7 DEF JobSuspends, Ban, PassMoves
<1>8. CASE JobReactivates(j)
  BY <1>1, <1>3, <1>8 DEF JobReactivates, Unban, PassMoves
<1>9. CASE JobCallFails(j)
  <2>1. failures' \in 0..MaxFailures /\ UNCHANGED <<status, order, sync, changes>>
        /\ job' = [job EXCEPT ![j] = Advance(job[j])]
        /\ job[j].pc \in {"check", "suspend", "unsuspend"}
    BY <1>1, <1>9 DEF JobCallFails, Failing
  <2>2. banned' \subseteq Linked /\ excused' \subseteq Employees
    BY <1>1, <1>3, <1>9 DEF JobCallFails, PerformedOrNot, Ban, Unban
  <2> QED BY <1>3, <2>1, <2>2 DEF PassMoves
<1>10. CASE PassAborts(j)
  <2>1. failures' \in 0..MaxFailures
    BY <1>1, <1>10 DEF PassAborts, Failing
  <2> QED BY <1>1, <1>2, <1>10, <2>1 DEF PassAborts, PassMoves
<1> QED BY <1>4, <1>5, <1>6, <1>7, <1>8, <1>9, <1>10 DEF PassStep

LEMMA WritingKeepsTypes ==
    ASSUME SyncTypeOK, NEW e \in Employees, NEW new \in SyncStatuses, WriteStatus(e, new)
    PROVE  /\ status' \in [Employees -> SyncStatuses] /\ order' \in SetToSeqs(Employees)
           /\ status'[e] = new /\ \A d \in Employees \ {e} : status'[d] = status[d]
BY DEF SyncTypeOK, WriteStatus

LEMMA RequestTyped ==
    ASSUME SyncTypeOK, NEW s \in Syncs
    PROVE  /\ sync[s].pc \in {"idle", "update", "call"}
           /\ sync[s].pc # "idle" => sync[s] \in SyncRequest
           /\ sync[s].pc = "call" => CallsGoTrue(sync[s]) /\ sync[s].emp \in Linked
           /\ sync[s] \in {NoSync} \cup SyncRequest
BY DEF SyncTypeOK, SyncRequest, NoSync, CallsGoTrue

\* A request goes on to c.
LEMMA RequestMoves ==
    ASSUME SyncTypeOK, NEW s \in Syncs, NEW c \in {NoSync} \cup SyncRequest,
           c.pc = "call" => CallsGoTrue(c), sync' = [sync EXCEPT ![s] = c]
    PROVE  /\ sync' \in [Syncs -> {NoSync} \cup SyncRequest]
           /\ \A t \in Syncs : sync'[t].pc = "call" => CallsGoTrue(sync'[t])
           /\ sync'[s] = c /\ \A t \in Syncs \ {s} : sync'[t] = sync[t]
BY DEF SyncTypeOK

LEMMA SyncStepKeepsTypes ==
    ASSUME SyncTypeOK, NEW s \in Syncs, SyncStep(s)
    PROVE  SyncTypeOK'
<1> DEFINE c == sync[s]
<1>1. /\ changes \in 0..MaxChanges /\ MaxChanges \in Nat /\ excused \subseteq Employees
      /\ failures \in 0..MaxFailures /\ MaxFailures \in Nat /\ Linked \subseteq Employees
      /\ banned \subseteq Linked
  BY SyncAssumption DEF SyncTypeOK
<1>2. NoSync.pc # "call" /\ NoSync \in {NoSync} \cup SyncRequest
  BY DEF NoSync
<1>3. ASSUME NEW e \in Employees, NEW new \in SyncStatuses,
             NEW suspend \in BOOLEAN, NEW reactivate \in BOOLEAN,
             ReadRecord(s, e, new, suspend, reactivate)
      PROVE  SyncTypeOK'
  <2> DEFINE d == [pc |-> "update", emp |-> e, new |-> new, was |-> status[e],
                   suspend |-> suspend, reactivate |-> reactivate]
  <2>1. d \in SyncRequest /\ d.pc # "call"
    BY DEF SyncTypeOK, SyncRequest
  <2>2. sync' = [sync EXCEPT ![s] = d] /\ changes' \in 0..MaxChanges
        /\ UNCHANGED <<status, order, banned, job, excused, failures>>
    BY <1>1, <1>3 DEF ReadRecord
  <2> HIDE DEF d
  <2> QED BY <2>1, <2>2, RequestMoves DEF SyncTypeOK
<1>4. CASE UpdateStatus(s)
  <2>1. c \in SyncRequest /\ c.emp \in Employees /\ c.new \in SyncStatuses
    BY <1>4, RequestTyped DEF UpdateStatus, SyncRequest
  <2>2. /\ WriteStatus(c.emp, c.new) /\ UNCHANGED <<banned, job, changes, failures>>
        /\ excused' \in {excused, excused \cup {c.emp}}
    BY <1>4 DEF UpdateStatus
  <2>3. PICK d \in {NoSync} \cup SyncRequest :
          (d.pc = "call" => CallsGoTrue(d)) /\ sync' = [sync EXCEPT ![s] = d]
    <3> DEFINE d == IF CallsGoTrue(c) THEN [c EXCEPT !.pc = "call"] ELSE NoSync
    <3>1. sync' = [sync EXCEPT ![s] = d]
      BY <1>4 DEF UpdateStatus
    <3>2. CASE CallsGoTrue(c)
      <4>1. [c EXCEPT !.pc = "call"] \in SyncRequest /\ CallsGoTrue([c EXCEPT !.pc = "call"])
        BY <2>1, <3>2 DEF SyncRequest, CallsGoTrue
      <4> QED BY <3>1, <3>2, <4>1
    <3>3. CASE ~CallsGoTrue(c)
      BY <1>2, <3>1, <3>3
    <3> QED BY <3>2, <3>3
  <2>4. status' \in [Employees -> SyncStatuses] /\ order' \in SetToSeqs(Employees)
    BY <2>1, <2>2, WritingKeepsTypes
  <2>5. /\ sync' \in [Syncs -> {NoSync} \cup SyncRequest]
        /\ \A t \in Syncs : sync'[t].pc = "call" => CallsGoTrue(sync'[t])
    BY <2>3, RequestMoves
  <2> QED BY <1>1, <2>1, <2>2, <2>4, <2>5 DEF SyncTypeOK
<1>5. CASE CallGoTrue(s) \/ SyncFails(s)
  <2>1. /\ sync' = [sync EXCEPT ![s] = NoSync] /\ failures' \in 0..MaxFailures
        /\ UNCHANGED <<status, order, job, changes>>
    BY <1>1, <1>5 DEF CallGoTrue, SyncFails, Failing
  <2>2. c.pc = "call" => c.emp \in Linked
    BY RequestTyped
  <2>3. banned' \subseteq Linked /\ excused' \subseteq Employees
    BY <1>1, <1>5, <2>2 DEF CallGoTrue, SyncFails, PerformedOrNot, Ban, Unban
  <2>4. /\ sync' \in [Syncs -> {NoSync} \cup SyncRequest]
        /\ \A t \in Syncs : sync'[t].pc = "call" => CallsGoTrue(sync'[t])
    BY <1>2, <2>1, RequestMoves
  <2> QED BY <2>1, <2>3, <2>4 DEF SyncTypeOK
<1> QED BY <1>3, <1>4, <1>5 DEF SyncStep

\* A user or a record that somebody else changes.
OthersTouch(e) ==
    \/ AdminToggles(e) \/ ImportSuspends(e)
    \/ \E new \in SyncStatuses : ImportWritesStatus(e, new)

LEMMA OthersKeepTypes ==
    ASSUME SyncTypeOK, NEW e \in Employees, OthersTouch(e)
    PROVE  SyncTypeOK'
<1>1. /\ changes \in 0..MaxChanges /\ MaxChanges \in Nat /\ excused \subseteq Employees
      /\ failures \in 0..MaxFailures /\ MaxFailures \in Nat /\ Linked \subseteq Employees
      /\ banned \subseteq Linked
  BY SyncAssumption DEF SyncTypeOK
<1>2. CASE AdminToggles(e) \/ ImportSuspends(e)
  <2>1. failures' \in 0..MaxFailures /\ UNCHANGED <<status, order, sync, job, changes>>
    BY <1>1, <1>2 DEF AdminToggles, ImportSuspends, Failing
  <2>2. banned' \subseteq Linked /\ excused' \subseteq Employees
    BY <1>1, <1>2 DEF AdminToggles, ImportSuspends, Ban, Unban
  <2> QED BY <2>1, <2>2 DEF SyncTypeOK, CallsGoTrue
<1>3. ASSUME NEW new \in SyncStatuses, ImportWritesStatus(e, new)
      PROVE  SyncTypeOK'
  <2>1. /\ changes' \in 0..MaxChanges /\ UNCHANGED <<banned, sync, job, failures>>
        /\ excused' \subseteq Employees
    BY <1>1, <1>3 DEF ImportWritesStatus
  <2>2. status' \in [Employees -> SyncStatuses] /\ order' \in SetToSeqs(Employees)
    BY <1>3, WritingKeepsTypes DEF ImportWritesStatus
  <2> QED BY <2>1, <2>2 DEF SyncTypeOK, CallsGoTrue
<1> QED BY <1>2, <1>3 DEF OthersTouch

LEMMA InitTyped == SyncInit => SyncTypeOK
<1> SUFFICES ASSUME SyncInit PROVE SyncTypeOK
  OBVIOUS
<1>1. status \in [Employees -> SyncStatuses]
  BY SyncAssumption DEF SyncInit
<1>2. NoPass \in Pass /\ NoPass.pc = "idle" /\ NoSync.pc = "idle"
  <2>1. <<>> \in Page
    BY DEF Page
  <2> QED BY <2>1 DEF NoPass, NoSync, Pass
<1>3. changes \in 0..MaxChanges /\ failures \in 0..MaxFailures
  BY SyncAssumption DEF SyncInit
<1> QED BY <1>1, <1>2, <1>3 DEF SyncInit, SyncTypeOK

LEMMA StepKeepsTypes == SyncTypeOK /\ [SyncNext]_syncVars => SyncTypeOK'
<1> SUFFICES ASSUME SyncTypeOK, [SyncNext]_syncVars PROVE SyncTypeOK'
  OBVIOUS
<1>1. CASE UNCHANGED syncVars
  BY <1>1 DEF syncVars, SyncTypeOK, CallsGoTrue
<1>2. CASE SyncNext
  BY <1>2, SyncStepKeepsTypes, PassStepMoves, PassKeepsTypes, OthersKeepTypes
     DEF SyncNext, OthersTouch
<1> QED BY <1>1, <1>2

\* However many clients, jobs, imports and administrators overlap, a call to
\* GoTrue is only ever about an employee who has a user, and a page is never
\* longer than a batch (syncEmployeeStatuses, reconcileAllEmployeeStatuses).
THEOREM OnlyUsersAreCalled == SyncSpec => []SyncTypeOK
BY InitTyped, StepKeepsTypes, PTL DEF SyncSpec

(***************************************************************************)
(* With one client, records and users agree.                               *)
(***************************************************************************)

\* One client sends the sync requests, one after the other.
OneClient == \A s, t \in Syncs : s = t

\* The status that a request has read is the one its record still has, unless
\* an import wrote it meanwhile.
ReadsAreCurrent ==
    \A s \in Syncs :
        sync[s].pc = "update" /\ sync[s].emp \in Linked \ excused =>
            sync[s].was = status[sync[s].emp]

SyncInv == SyncTypeOK /\ SequentialSyncMatches /\ ReadsAreCurrent

Agreement == SequentialSyncMatches /\ ReadsAreCurrent

\* Whoever else changes a user or a record, it is one that is excused then.
LEMMA TouchingKeeps ==
    ASSUME Agreement, NEW e \in Employees, sync' = sync, e \in excused',
           \A d \in Employees \ {e} : status'[d] = status[d] /\ (d \in banned' <=> d \in banned),
           \A d \in Employees \ {e} : d \in excused' <=> d \in excused,
           Linked \subseteq Employees
    PROVE  Agreement'
BY DEF Agreement, SequentialSyncMatches, ReadsAreCurrent, Matches

LEMMA PassKeepsAgreement ==
    ASSUME SyncTypeOK, Agreement, NEW j \in Jobs,
           PassStep(j) \/ JobCallFails(j) \/ PassAborts(j)
    PROVE  Agreement'
<1> DEFINE e == Head(job[j].page).emp
<1>1. CASE StartPass(j) \/ ListPage(j) \/ CheckRecord(j) \/ PassAborts(j)
  <2>1. UNCHANGED <<status, banned, sync, excused>>
    BY <1>1 DEF StartPass, ListPage, CheckRecord, PassAborts
  <2> QED BY <2>1 DEF Agreement, SequentialSyncMatches, ReadsAreCurrent, Matches
<1>2. CASE JobSuspends(j) \/ JobReactivates(j) \/ JobCallFails(j)
  <2>1. /\ UNCHANGED <<status, sync>> /\ excused' = excused \cup {e}
        /\ banned' \in {banned, banned \cup {e}, banned \ {e}}
    BY <1>2 DEF JobSuspends, JobReactivates, JobCallFails, PerformedOrNot, Ban, Unban
  <2>2. e \in Employees /\ Linked \subseteq Employees
    <3>1. excused' \subseteq Employees
      BY <1>2, PassStepMoves DEF PassMoves, PassStep
    <3> QED BY <2>1, <3>1, SyncAssumption
  <2> HIDE DEF e
  <2> QED BY <2>1, <2>2, TouchingKeeps
<1> QED BY <1>1, <1>2 DEF PassStep

LEMMA OthersKeepAgreement ==
    ASSUME SyncTypeOK, Agreement, NEW e \in Employees, OthersTouch(e)
    PROVE  Agreement'
<1>1. sync' = sync /\ excused' = excused \cup {e}
  BY DEF OthersTouch, AdminToggles, ImportSuspends, ImportWritesStatus
<1>2. /\ \A d \in Employees \ {e} : d \in banned' <=> d \in banned
      /\ \A d \in Employees \ {e} : status'[d] = status[d]
  <2>1. CASE AdminToggles(e) \/ ImportSuspends(e)
    BY <2>1 DEF AdminToggles, ImportSuspends, Ban, Unban
  <2>2. ASSUME NEW new \in SyncStatuses, ImportWritesStatus(e, new)
        PROVE  banned' = banned /\ \A d \in Employees \ {e} : status'[d] = status[d]
    BY <2>2, WritingKeepsTypes DEF ImportWritesStatus
  <2> QED BY <2>1, <2>2 DEF OthersTouch
<1> QED BY <1>1, <1>2, TouchingKeeps, SyncAssumption

LEMMA ClientKeepsAgreement ==
    ASSUME OneClient, SyncTypeOK, Agreement, NEW s \in Syncs, SyncStep(s)
    PROVE  Agreement'
<1> DEFINE c == sync[s]
<1>1. \A t \in Syncs : t = s
  BY DEF OneClient
<1>2. Linked \subseteq Employees
  BY SyncAssumption
<1>3. ASSUME NEW e \in Employees, NEW new \in SyncStatuses,
             NEW suspend \in BOOLEAN, NEW reactivate \in BOOLEAN,
             ReadRecord(s, e, new, suspend, reactivate)
      PROVE  Agreement'
  <2>1. /\ sync[s].pc = "idle" /\ UNCHANGED <<status, banned, excused>>
        /\ sync'[s].pc = "update" /\ sync'[s].emp = e /\ sync'[s].was = status[e]
    BY <1>3 DEF ReadRecord, SyncTypeOK
  <2> QED BY <1>1, <2>1 DEF Agreement, SequentialSyncMatches, ReadsAreCurrent, Matches
<1>4. CASE UpdateStatus(s)
  <2>1. c \in SyncRequest /\ c.emp \in Employees /\ c.new \in SyncStatuses /\ c.pc = "update"
        /\ c.suspend \in BOOLEAN /\ c.reactivate \in BOOLEAN
    BY <1>4, RequestTyped DEF UpdateStatus, SyncRequest
  <2>2. /\ status'[c.emp] = c.new /\ \A d \in Employees \ {c.emp} : status'[d] = status[d]
        /\ banned' = banned
    BY <1>4, <2>1, WritingKeepsTypes DEF UpdateStatus
  <2>3. \A e \in Linked \ excused : Matches(e)
    BY <1>1, <2>1 DEF Agreement, SequentialSyncMatches
  <2>4. /\ \A d \in Employees \ {c.emp} : d \in excused' <=> d \in excused
        /\ c.emp \in excused => c.emp \in excused'
    BY <1>4 DEF UpdateStatus
  <2>5. CASE CallsGoTrue(c)
    <3>1. sync'[s].pc = "call" /\ sync'[s].emp = c.emp
      BY <1>4, <2>1, <2>5 DEF UpdateStatus, SyncTypeOK, SyncRequest
    <3> QED BY <1>1, <1>2, <2>2, <2>3, <2>4, <3>1
         DEF Agreement, SequentialSyncMatches, ReadsAreCurrent, Matches
  <2>6. CASE ~CallsGoTrue(c)
    <3>1. sync'[s].pc = "idle"
      BY <1>4, <2>6 DEF UpdateStatus, SyncTypeOK, NoSync
    <3>2. ASSUME NEW e \in Linked \ excused', e = c.emp PROVE Matches(e)'
      <4>1. c.was = status[e] /\ Matches(e)
        BY <2>1, <2>3, <2>4, <3>2 DEF Agreement, ReadsAreCurrent
      <4>2. c.new \in Active <=> c.was \in Active
        BY <1>4, <2>1, <2>6, <3>2 DEF UpdateStatus, CallsGoTrue
      <4> QED BY <2>2, <3>2, <4>1, <4>2 DEF Matches
    <3> QED BY <1>1, <1>2, <2>2, <2>3, <2>4, <3>1, <3>2
         DEF Agreement, SequentialSyncMatches, ReadsAreCurrent, Matches
  <2> QED BY <2>5, <2>6
<1>5. CASE CallGoTrue(s) \/ SyncFails(s)
  <2>1. sync'[s].pc = "idle" /\ status' = status
    BY <1>5 DEF CallGoTrue, SyncFails, SyncTypeOK, NoSync
  <2>2. CASE c.pc = "update"
    <3>1. UNCHANGED <<banned, excused>>
      BY <1>5, <2>2 DEF CallGoTrue, SyncFails
    <3> QED BY <1>1, <2>1, <2>2, <3>1
         DEF Agreement, SequentialSyncMatches, ReadsAreCurrent, Matches
  <2>3. CASE c.pc = "call"
    <3>1. \A e \in Linked \ excused : e = c.emp \/ Matches(e)
      BY <1>1 DEF Agreement, SequentialSyncMatches
    <3>2. /\ banned' \in {banned, banned \cup {c.emp}, banned \ {c.emp}}
          /\ excused' \in {excused \cup {c.emp}, excused \ {c.emp}}
      BY <1>5, <2>3 DEF CallGoTrue, SyncFails, PerformedOrNot, Ban, Unban
    <3>3. ASSUME NEW e \in Linked \ excused', e = c.emp PROVE Matches(e)'
      <4>1. ~SyncFails(s)
        BY <2>3, <3>3 DEF SyncFails
      <4>2. CallGoTrue(s) /\ status[e] = c.new
        BY <1>5, <3>3, <4>1 DEF CallGoTrue
      <4> QED BY <2>1, <3>3, <4>2 DEF CallGoTrue, Ban, Unban, Matches
    <3> QED BY <1>1, <2>1, <3>1, <3>2, <3>3
         DEF Agreement, SequentialSyncMatches, ReadsAreCurrent, Matches
  <2> QED BY <1>5, <2>2, <2>3, RequestTyped DEF CallGoTrue, SyncFails
<1> QED BY <1>3, <1>4, <1>5 DEF SyncStep

LEMMA SyncInvInit == SyncInit => SyncInv
<1>1. SyncInit => Agreement
  BY SyncAssumption DEF SyncInit, Agreement, SequentialSyncMatches, ReadsAreCurrent, Matches, NoSync
<1> QED BY <1>1, InitTyped DEF SyncInv, Agreement

LEMMA SyncInvStep ==
    ASSUME OneClient, SyncInv, [SyncNext]_syncVars PROVE SyncInv'
<1>1. SyncTypeOK' /\ SyncTypeOK /\ Agreement
  BY StepKeepsTypes DEF SyncInv, Agreement
<1>2. CASE UNCHANGED syncVars
  BY <1>1, <1>2 DEF syncVars, Agreement, SyncInv, SequentialSyncMatches, ReadsAreCurrent, Matches
<1>3. CASE SyncNext
  <2>1. Agreement'
    BY <1>1, <1>3, ClientKeepsAgreement, PassKeepsAgreement, OthersKeepAgreement
       DEF SyncNext, OthersTouch
  <2> QED BY <1>1, <2>1 DEF Agreement, SyncInv
<1> QED BY <1>2, <1>3

\* With one client, however its requests overlap with the reconcile job, with
\* imports and with administrators, GoTrue and the records agree about everyone
\* whom none of these others touched and no call failed for, but for the one
\* whom the request is about to call GoTrue about (syncEmployeeStatuses).  With
\* two clients it is not so: a request decides by the status it has read, which
\* the other may have replaced.
THEOREM RecordsAndUsersAgree ==
    ASSUME OneClient PROVE SyncSpec => []SyncInvariant
<1>1. SyncInv /\ [SyncNext]_syncVars => SyncInv'
  BY SyncInvStep
<1>2. SyncInv => SyncInvariant
  BY DEF SyncInv, SyncInvariant
<1> QED BY <1>1, <1>2, SyncInvInit, PTL DEF SyncSpec
=============================================================================
