----------------------- MODULE TemplateInstantiation -----------------------
(***************************************************************************)
(* Creating an organization from a template under one Idempotency-Key:     *)
(* instantiateFromTemplate and its helpers in                              *)
(* packages/auth-server/src/repositories/organization-templates.ts, run by *)
(* POST /v1/org-templates/:templateId/instantiate.                         *)
(*                                                                         *)
(* An attempt reserves the key's row, creates the organization, its roles  *)
(* and permissions one call at a time in SupaCloud, and records the        *)
(* outcome.  When a call throws it deletes, in reverse, what it has a      *)
(* receipt for, and records whether the key may be tried again.  Attempts  *)
(* with the same key run concurrently.  A request without a key makes the  *)
(* same calls and has no row.                                              *)
(***************************************************************************)
EXTENDS Naturals, Sequences, FiniteSets

CONSTANTS
    Attempts,  \* requests that carry the key
    Hashes,    \* request hashes: the template's id and the body
    Plan,      \* the kinds of the calls the template asks for, in order
    Null

\* Calls that create a resource and return a receipt with its id, and others.
Creations == {"organization", "role", "permission"}
Bindings == {"member", "assignment"}

ASSUME PlanAssumption ==
    /\ Plan \in Seq(Creations \cup Bindings) /\ Plan # <<>>
    /\ \A k \in 1..Len(Plan) : Plan[k] = "organization" <=> k = 1
    /\ Null \notin Attempts \cup Hashes

VARIABLES
    row,        \* the key's row of organization_template_instantiations
    remote,     \* the resources in SupaCloud, named by attempt and call
    run,        \* run[a]: the local state of attempt a
    announced   \* attempts whose audit event and webhook were sent

sagaVars == <<row, remote, run, announced>>

NoRun == [pc |-> "idle", hash |-> Null, at |-> 1, created |-> <<>>,
          left |-> 0, unknown |-> FALSE, failed |-> FALSE]
NoRow == [status |-> "absent", hash |-> Null, org |-> Null]

SagaInit ==
    /\ row = NoRow
    /\ remote = {}
    /\ run = [a \in Attempts |-> NoRun]
    /\ announced = {}

Goto(a, step) == run' = [run EXCEPT ![a].pc = step]

---------------------------------------------------------------------------
(* reserveInstantiation. *)

\* INSERT ... ON CONFLICT DO NOTHING.
Reserve(a, h) ==
    /\ run[a].pc = "idle"
    /\ IF row.status = "absent"
       THEN /\ row' = [status |-> "pending", hash |-> h, org |-> Null]
            /\ run' = [run EXCEPT ![a].pc = "call", ![a].hash = h]
       ELSE /\ run' = [run EXCEPT ![a].pc = "inspect", ![a].hash = h]
            /\ UNCHANGED row
    /\ UNCHANGED <<remote, announced>>

\* Wrong: the result is replayed to any request with the key.
ReplayToAnyone(a) ==
    IF row.status = "completed" THEN "replayed"
    ELSE IF row.hash # run[a].hash THEN "refused"
    ELSE IF row.status = "failed" THEN "retry"
    ELSE "refused"

\* The row that was there: another request's key, a result to replay, a
\* failure to try again; pending and recovery_required rows are left alone.
Disposition(a) ==
    IF row.hash # run[a].hash THEN "refused"
    ELSE IF row.status = "completed" THEN "replayed"
    ELSE IF row.status = "failed" THEN "retry"
    ELSE "refused"

Inspect(a) ==
    /\ run[a].pc = "inspect"
    /\ Goto(a, Disposition(a))
    /\ UNCHANGED <<row, remote, announced>>

\* Wrong: the retry does not check that the row is still failed.
RetryBlindly(a) ==
    /\ run[a].pc = "retry"
    /\ row' = [row EXCEPT !.status = "pending"]
    /\ Goto(a, "call")
    /\ UNCHANGED <<remote, announced>>

\* The compare-and-set UPDATE that takes a failed row over.
Retry(a) ==
    /\ run[a].pc = "retry"
    /\ IF row.status = "failed" /\ row.hash = run[a].hash
       THEN row' = [row EXCEPT !.status = "pending"] /\ Goto(a, "call")
       ELSE Goto(a, "refused") /\ UNCHANGED row
    /\ UNCHANGED <<remote, announced>>

---------------------------------------------------------------------------
(* The calls of SupaCloud. *)

Kind(a) == Plan[run[a].at]
Calling(a) == run[a].pc = "call" /\ run[a].at <= Len(Plan)

\* What call number at of attempt a creates.
Resource(a) == IF Kind(a) \in Creations THEN {<<a, run[a].at>>} ELSE {}

CallReturns(a) ==
    /\ Calling(a)
    /\ remote' = remote \cup Resource(a)
    /\ run' = [run EXCEPT
         ![a].at = @ + 1,
         ![a].created = IF Kind(a) \in Creations THEN Append(@, <<a, run[a].at>>) ELSE @]
    /\ UNCHANGED <<row, announced>>

\* The catch clause: what is to be deleted is what there are receipts for.
Compensate(a, unknown) ==
    run' = [run EXCEPT ![a].pc = "undo", ![a].left = Len(run[a].created),
                       ![a].unknown = unknown]

\* The call is refused, aborted or lost; whether it was performed is not known.
CallThrows(a) ==
    /\ Calling(a)
    /\ remote' \in {remote, remote \cup Resource(a)}
    /\ Compensate(a, FALSE)
    /\ UNCHANGED <<row, announced>>

\* The resource was created but its receipt has no id.
ReceiptInvalid(a) ==
    /\ Calling(a) /\ Kind(a) \in Creations
    /\ remote' = remote \cup Resource(a)
    /\ Compensate(a, TRUE)
    /\ UNCHANGED <<row, announced>>

---------------------------------------------------------------------------
(* finishInstantiation: an UPDATE by key and hash, whatever the status. *)

Recorded(a, status, org) ==
    IF row.hash = run[a].hash THEN [row EXCEPT !.status = status, !.org = org] ELSE row

Complete(a) ==
    /\ run[a].pc = "call" /\ run[a].at > Len(Plan)
    /\ row' = Recorded(a, "completed", a)
    /\ Goto(a, "announce")
    /\ UNCHANGED <<remote, announced>>

\* The UPDATE throws, committed or not; the organization is deleted again.
CompleteThrows(a) ==
    /\ run[a].pc = "call" /\ run[a].at > Len(Plan)
    /\ row' \in {row, Recorded(a, "completed", a)}
    /\ Compensate(a, FALSE)
    /\ UNCHANGED <<remote, announced>>

---------------------------------------------------------------------------
(* Compensation. *)

DeleteReturns(a) ==
    /\ run[a].pc = "undo" /\ run[a].left > 0
    /\ remote' = remote \ {run[a].created[run[a].left]}
    /\ run' = [run EXCEPT ![a].left = @ - 1]
    /\ UNCHANGED <<row, announced>>

\* Wrong: a delete that throws is skipped without a trace.
DeleteErrorIgnored(a) ==
    /\ run[a].pc = "undo" /\ run[a].left > 0
    /\ remote' \in {remote, remote \ {run[a].created[run[a].left]}}
    /\ run' = [run EXCEPT ![a].left = @ - 1]
    /\ UNCHANGED <<row, announced>>

DeleteThrows(a) ==
    /\ run[a].pc = "undo" /\ run[a].left > 0
    /\ remote' \in {remote, remote \ {run[a].created[run[a].left]}}
    /\ run' = [run EXCEPT ![a].left = @ - 1, ![a].failed = TRUE]
    /\ UNCHANGED <<row, announced>>

Verdict(a) ==
    IF run[a].failed \/ run[a].unknown \/ run[a].created = <<>>
    THEN "recovery_required" ELSE "failed"

\* Wrong: an outcome that could not be recorded is forgotten.
VerdictForgotten(a) ==
    /\ run[a].pc = "undo" /\ run[a].left = 0
    /\ Goto(a, "error")
    /\ UNCHANGED <<row, remote, announced>>

\* finishInstantiationBestEffort, and the error to the caller.
RecordVerdict(a) ==
    /\ run[a].pc = "undo" /\ run[a].left = 0
    /\ row' = Recorded(a, Verdict(a),
                       IF Verdict(a) = "recovery_required" /\ run[a].created # <<>>
                       THEN a ELSE Null)
    /\ Goto(a, "error")
    /\ UNCHANGED <<remote, announced>>

RecordThrows(a) ==
    /\ run[a].pc = "undo" /\ run[a].left = 0
    /\ Goto(a, "unrecorded")
    /\ UNCHANGED <<row, remote, announced>>

---------------------------------------------------------------------------
(* The route, once it has the result. *)

\* Wrong: a replay is announced like a new organization.
AnnounceReplay(a) ==
    /\ run[a].pc \in {"announce", "replayed"}
    /\ announced' = announced \cup {a}
    /\ Goto(a, "created")
    /\ UNCHANGED <<row, remote>>

\* The audit event and the webhook of a result that is not a replay.
Announce(a) ==
    /\ run[a].pc = "announce"
    /\ announced' = announced \cup {a}
    /\ Goto(a, "created")
    /\ UNCHANGED <<row, remote>>

Saga == {"call", "undo"}
Running == Saga \cup {"inspect", "retry", "announce"}

\* The function dies, or a statement outside the catch clause throws.
Crash(a) ==
    /\ run[a].pc \in Running
    /\ Goto(a, IF run[a].pc = "announce" THEN "unannounced" ELSE "crashed")
    /\ UNCHANGED <<row, remote, announced>>

Proceed(a) ==
    \/ Inspect(a) \/ Retry(a)
    \/ CallReturns(a) \/ CallThrows(a) \/ ReceiptInvalid(a)
    \/ Complete(a) \/ CompleteThrows(a)
    \/ DeleteReturns(a) \/ DeleteThrows(a)
    \/ RecordVerdict(a) \/ RecordThrows(a) \/ Announce(a)

SagaNext ==
    \E a \in Attempts : (\E h \in Hashes : Reserve(a, h)) \/ Proceed(a) \/ Crash(a)

SagaSpec == SagaInit /\ [][SagaNext]_sagaVars

\* Every call and statement returns or throws, so an attempt runs to its end.
SagaFairSpec == SagaSpec /\ \A a \in Attempts : WF_sagaVars(Proceed(a))
---------------------------------------------------------------------------
(* Properties. *)

Outcomes == {"replayed", "refused", "created", "unannounced", "error",
             "unrecorded", "crashed"}
Resources == Attempts \X (1..Len(Plan))

AttemptRun ==
    [pc : {"idle"} \cup Running \cup Outcomes, hash : Hashes \cup {Null},
     at : 1..(Len(Plan) + 1), created : Seq(Resources), left : 0..Len(Plan),
     unknown : BOOLEAN, failed : BOOLEAN]

\* The type invariant.
SagaTypeOK ==
    /\ row \in [status : {"absent", "pending", "completed", "failed", "recovery_required"},
                hash : Hashes \cup {Null}, org : Attempts \cup {Null}]
    /\ remote \subseteq Resources
    /\ run \in [Attempts -> AttemptRun]
    /\ announced \subseteq Attempts

InSaga == {a \in Attempts : run[a].pc \in Saga}
Succeeded == {a \in Attempts : run[a].pc \in {"announce", "created", "unannounced"}}

\* What attempt a has a receipt for and SupaCloud still holds.
Held(a) == {run[a].created[k] : k \in 1..Len(run[a].created)} \cap remote

\* At most one attempt of the key creates or deletes at a time, and it is one
\* of the request the row was reserved for.
OneSagaPerKey ==
    /\ \A a, b \in InSaga : a = b
    /\ \A a \in InSaga : row.hash = run[a].hash /\ row.status \in {"pending", "completed"}

\* An organization that was reported created stays, with everything the
\* template asked for, however many attempts with its key follow.
SuccessIsKept ==
    \A a \in Succeeded :
      /\ row.status = "completed" /\ row.org = a
      /\ \A k \in 1..Len(Plan) : Plan[k] \in Creations => <<a, k>> \in remote

\* What an attempt that ended without success could not delete again is always
\* visible in the row: as pending, for recovery, or as a completed result.  A
\* key that may be tried again, one that failed, has left nothing behind: its
\* retry cannot build a second organization next to a first.
LeftoversAreVisible ==
    \A a \in Attempts :
      run[a].pc \in {"error", "unrecorded", "crashed"} /\ Held(a) # {} =>
        \/ row.status \in {"pending", "recovery_required"}
        \/ row.status = "completed" /\ row.org = a

\* A result is replayed to the request it was computed for, and to no other
\* that happens to send the same key.
ReplaysOwnRequest ==
    \A a \in Attempts : run[a].pc = "replayed" => run[a].hash = row.hash

\* The test "does not repeat audit or webhook side effects when an
\* instantiation is replayed": one announcement per key.
AnnouncedOnce == \A a, b \in announced : a = b

\* What an Idempotency-Key promises in every state: the types, one attempt at
\* work, one announcement, and each result for its own request.
SagaInvariant == SagaTypeOK /\ OneSagaPerKey /\ ReplaysOwnRequest /\ AnnouncedOnce

\* A key does not stay pending unless an attempt died or could not record how
\* it ended.
KeySettles ==
    row.status = "pending" ~>
      (row.status # "pending" \/ \E a \in Attempts : run[a].pc \in {"crashed", "unrecorded"})
=============================================================================
