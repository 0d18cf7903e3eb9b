---------------------------- MODULE AccountImport ----------------------------
(***************************************************************************)
(* Claims while administrators import: POST /v1/account-provisioning/import *)
(* (routes/account-provisioning.ts, postImport) for the account that        *)
(* AccountClaim describes.  An import reads the row, changes the password   *)
(* in GoTrue, reads the row again and writes it, each in its own step and   *)
(* none conditional on what an earlier one read.                            *)
(***************************************************************************)
EXTENDS AccountClaim

CONSTANT Imports    \* import requests that carry this account

VARIABLES imp    \* imp[i]: the local state of import i

importVars == <<imp>>
systemVars == <<rec, claim, call, gotrue, clock, imp>>

\* users: create_users of the payload; known: the list of users holds this one.
NoImport == [pc |-> "idle", users |-> FALSE, known |-> FALSE, password |-> Null, proof |-> Null,
             found |-> FALSE, encrypted |-> Null, proofHash |-> Null,
             user |-> FALSE]

ImportSteps == {"idle", "find", "user", "select", "save", "done", "failed"}

\* No account yet, or one that an earlier import left ready to be claimed.
NoRow == [ReadyRow(Null, Null, FALSE, "active") EXCEPT !.state = "absent"]

ImportInit ==
    /\ imp = [i \in Imports |-> NoImport]
    /\ \/ ClaimInit
       \/ /\ rec = NoRow
          /\ gotrue = Null
          /\ claim = [r \in Requests |-> NoClaim]
          /\ call = [r \in Requests |-> "none"]
          /\ clock = 0

---------------------------------------------------------------------------
(* The steps of one import. *)

\* The batch lists GoTrue's users once, before its first record.
ListUsers(i, users) ==
    /\ imp[i].pc = "idle"
    /\ imp' = [imp EXCEPT ![i].pc = "find", ![i].users = users,
                          ![i].known = users /\ gotrue # Null]
    /\ UNCHANGED claimVars

\* resolveProvisioningInitialPassword: nothing once the account was claimed,
\* the password the record gives, the stored one, or a generated one.
InitialPasswordFor(given) ==
    IF rec.state = "claimed" THEN {Null}
    ELSE IF given # Null THEN {given}
    ELSE IF rec.encrypted # Null THEN {DecryptInitialPassword(rec.encrypted)}
    ELSE Passwords

FindRecord(i, given, proof) ==
    /\ imp[i].pc = "find"
    /\ \E p \in InitialPasswordFor(given) :
         imp' = [imp EXCEPT ![i].pc = IF imp[i].users THEN "user" ELSE "select",
                            ![i].password = p, ![i].proof = proof]
    /\ UNCHANGED claimVars

\* adapter.updateUser on a user the list holds.
UpdateUser(i) ==
    /\ imp[i].pc = "user" /\ imp[i].known
    /\ gotrue' = IF imp[i].password = Null THEN gotrue ELSE imp[i].password
    /\ imp' = [imp EXCEPT ![i].pc = "select", ![i].user = TRUE]
    /\ UNCHANGED <<rec, claim, call, clock>>

\* adapter.createUser, which GoTrue refuses when the e-mail is taken by now.
CreateUser(i) ==
    /\ imp[i].pc = "user" /\ ~imp[i].known
    /\ gotrue = Null /\ imp[i].password # Null
    /\ gotrue' = imp[i].password
    /\ imp' = [imp EXCEPT ![i].pc = "select", ![i].user = TRUE]
    /\ UNCHANGED <<rec, claim, call, clock>>

\* The first half of upsertAccountProvisioningRecord: the SELECT, and the
\* columns computed from the row it returned.
SelectRecord(i) ==
    LET ready == rec.state \in {"absent", "ready"}
    IN  /\ imp[i].pc = "select"
        /\ imp' = [imp EXCEPT
             ![i].pc = "save",
             ![i].found = rec.state # "absent",
             ![i].user = @ \/ rec.user,
             ![i].encrypted =
                IF rec.state = "claimed" THEN Null
                ELSE IF ready /\ imp[i].password # Null
                     THEN EncryptInitialPassword(imp[i].password)
                ELSE rec.encrypted,
             ![i].proofHash =
                IF rec.state = "claimed" THEN Null
                ELSE IF ready /\ imp[i].proof # Null THEN imp[i].proof
                ELSE rec.proof]
        /\ UNCHANGED claimVars

\* Wrong: an import of a known record makes it claimable again.
UpdateReopens(i) ==
    /\ imp[i].pc = "save" /\ imp[i].found
    /\ rec' = [rec EXCEPT !.state = "ready", !.encrypted = imp[i].encrypted,
                          !.user = imp[i].user, !.proof = imp[i].proofHash,
                          !.status = "active"]
    /\ imp' = [imp EXCEPT ![i].pc = "done"]
    /\ UNCHANGED <<claim, call, gotrue, clock>>

\* The UPDATE by id: whatever the row holds by now, these columns are replaced.
UpdateRecord(i) ==
    /\ imp[i].pc = "save" /\ imp[i].found
    /\ rec' = [rec EXCEPT !.encrypted = imp[i].encrypted, !.user = imp[i].user,
                          !.proof = imp[i].proofHash, !.status = "active"]
    /\ imp' = [imp EXCEPT ![i].pc = "done"]
    /\ UNCHANGED <<claim, call, gotrue, clock>>

\* The INSERT, which the unique index refuses when the row exists by now.
InsertRecord(i) ==
    /\ imp[i].pc = "save" /\ ~imp[i].found
    /\ rec.state = "absent"
    /\ rec' = ReadyRow(imp[i].proofHash, imp[i].encrypted, imp[i].user, "active")
    /\ imp' = [imp EXCEPT ![i].pc = "done"]
    /\ UNCHANGED <<claim, call, gotrue, clock>>

\* A call that throws, one of the two refusals above among them, is recorded
\* in the summary's errors; the record is left as it is.
FailImport(i) ==
    /\ imp[i].pc \in {"find", "user", "select", "save"}
    /\ imp' = [imp EXCEPT ![i].pc = "failed"]
    /\ UNCHANGED claimVars

ImportStep(i) ==
    \/ \E users \in BOOLEAN : ListUsers(i, users)
    \/ \E given \in Passwords \cup {Null}, proof \in Proofs \cup {Null} :
         FindRecord(i, given, proof)
    \/ UpdateUser(i) \/ CreateUser(i)
    \/ SelectRecord(i) \/ UpdateRecord(i) \/ InsertRecord(i)
    \/ FailImport(i)

ImportNext ==
    \/ ClaimNext /\ UNCHANGED importVars
    \/ \E i \in Imports : ImportStep(i)

ImportSpec == ImportInit /\ [][ImportNext]_systemVars

---------------------------------------------------------------------------
(* Properties. *)

ImportRun ==
    [pc : ImportSteps, users : BOOLEAN, known : BOOLEAN, password : Passwords \cup {Null},
     proof : Proofs \cup {Null}, found : BOOLEAN,
     encrypted : Ciphertexts \cup {Null}, proofHash : Proofs \cup {Null},
     user : BOOLEAN]

\* The type invariant of the claims and the imports.
ImportTypeOK == ClaimTypeOK /\ imp \in [Imports -> ImportRun]

\* No write of an import, however stale what it was computed from, breaks what
\* claiming relies on, nor the one claim (upsertAccountProvisioningRecord
\* leaves the columns of the claim alone).
ImportInvariant == ImportTypeOK /\ ClaimInvariant /\ OneClaimSucceeds

\* A password that a claimant was told is set is the one GoTrue accepts, while
\* every import leaves GoTrue's users alone: no write of the row, however stale,
\* makes a claim end with a password that was not set.
SetPasswordWorks ==
    (\A i \in Imports : ~imp[i].users) =>
      \A r \in Winners : claim[r].mode = "set_on_claim" => gotrue = claim[r].password

\* The test "does not issue a new initial password after the account was
\* claimed": an import's password does not replace the one of a claimed account.
NoInitialPasswordAfterClaim ==
    [][ gotrue' # gotrue /\ call' = call => rec.state # "claimed" ]_systemVars
=============================================================================
