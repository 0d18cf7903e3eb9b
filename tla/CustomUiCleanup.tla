--------------------------- MODULE CustomUiCleanup ---------------------------
(***************************************************************************)
(* The cleanup queue of the Custom UI: retryCleanupQueue and its helpers in *)
(* packages/auth-server/src/routes/sign-in-experience.ts.                  *)
(*                                                                         *)
(* One row of tenant_configs, changed by compare-and-set, lists the        *)
(* batches of files that uploads of an earlier version left behind.  Every *)
(* deletion of the Custom UI goes through the queue first: it claims a     *)
(* batch, deletes its files, reads back that they are gone and drops the   *)
(* batch, or releases it.  A claim whose holder died can be taken over     *)
(* after ten minutes, and so can one whose holder is only slow.            *)
(***************************************************************************)
EXTENDS Naturals, FiniteSets

CONSTANTS
    Requests,   \* deletions of the Custom UI, each repeated at will
    NBatches,   \* batches in the row, numbered in its order
    Active,     \* the batch that names the assets of the manifest, or Null
    Objects,    \* stored files of each batch
    CasAttempts, \* compare-and-sets made for one change: 3 in the code
    MaxFaults,  \* bound: failed calls and crashes
    Null

Batches == 1..NBatches
States == {"reserved", "pending", "upload_outcome_unknown", "cleanup_claimed"}

ASSUME CleanupAssumption ==
    /\ NBatches \in Nat /\ Active \in Batches \cup {Null}
    /\ Null \notin Batches /\ Null \notin Requests /\ Null \notin States
    /\ Objects # {} /\ MaxFaults \in Nat /\ CasAttempts \in Nat \ {0}

VARIABLES
    manifest,   \* of the Custom UI: "enabled", "disabled" or "none"
    queue,      \* queue[b]: the state of the batch in the row, or Null
    old,        \* old[b]: the time stamp of the batch is ten minutes old
    stored,     \* stored[b]: files of the batch in the storage bucket
    fresh,      \* requests for which the row is still as they last read it
    work,       \* work[r]: the local state of request r
    faults      \* faults so far

cleanupVars == <<manifest, queue, old, stored, fresh, work, faults>>

NotPlanned == [state |-> Null, old |-> FALSE, taken |-> FALSE]

\* plan: the batches still to go through, as first read, and whether another
\* claim has been written since; on: the batch in hand; holds: the claim on it
\* is in the row, so its token is; tries: compare-and-sets made for the change.
NoWork == [pc |-> "idle", active |-> Null, plan |-> [b \in Batches |-> NotPlanned],
           on |-> Null, holds |-> FALSE, tries |-> 0]

\* The queues an earlier version left, with claims of requests long dead.
CleanupInit ==
    /\ manifest \in (IF Active = Null THEN {"none"} ELSE {"enabled", "disabled"})
    /\ queue \in [Batches -> States]
    /\ old = [b \in Batches |-> FALSE]
    /\ stored = [b \in Batches |-> Objects]
    /\ fresh = {}
    /\ work = [r \in Requests |-> NoWork]
    /\ faults = 0

Fault == faults < MaxFaults /\ faults' = faults + 1
Row == <<queue, old, fresh>>

---------------------------------------------------------------------------
\* The manifest is deactivated.  What becomes of its own files and of its row
\* after that is the concern of CustomUiDeletion.
Deactivate ==
    /\ manifest = "enabled" /\ manifest' = "disabled"
    /\ UNCHANGED <<queue, old, stored, fresh, work, faults>>

\* Ten minutes pass: the stale time of reservations and claims, and the quiet
\* time of uploads whose outcome is unknown.
TenMinutes(b) ==
    /\ queue[b] \notin {"pending", Null}   \* whose age nobody asks
    /\ ~old[b] /\ old' = [old EXCEPT ![b] = TRUE]
    /\ UNCHANGED <<manifest, queue, stored, fresh, work, faults>>

---------------------------------------------------------------------------
(* A request goes through the queue. *)

\* Wrong: the manifest in use is not passed on.
NothingActive == Null

\* deletionBaseState: the manifest counts only while it is enabled.
ActiveManifest == IF manifest = "enabled" THEN Active ELSE Null

Start(r) ==
    /\ work[r].pc = "idle"
    /\ work' = [work EXCEPT ![r].pc = "list", ![r].active = ActiveManifest]
    /\ UNCHANGED <<manifest, Row, stored, faults>>

\* retryCleanupQueue reads the queue once.
ListQueue(r) ==
    /\ work[r].pc = "list"
    /\ work' = [work EXCEPT ![r].pc = "next",
                    ![r].plan = [b \in Batches |->
                        [NotPlanned EXCEPT !.state = queue[b], !.old = queue[b] # Null /\ old[b]]]]
    /\ UNCHANGED <<manifest, Row, stored, faults>>

\* sameCleanupBatchOwner: the batch is as it was planned.  A batch is reserved
\* or of unknown outcome once, a claim is told from others by its token.
SameOwner(r, b) ==
    /\ queue[b] = work[r].plan[b].state
    /\ queue[b] = "cleanup_claimed" => ~work[r].plan[b].taken

\* The time stamp the request read is ten minutes old by now.
PlanIsOld(r, b) == work[r].plan[b].old \/ (SameOwner(r, b) /\ old[b])

\* Wrong: what a dead request claimed stays claimed.
NeverTakenOver(r, b) ==
    \/ work[r].plan[b].state = "pending"
    \/ work[r].plan[b].state # "cleanup_claimed" /\ PlanIsOld(r, b)

\* claimRetryCleanupBatch: a pending batch at once, another when it is old.
Claimable(r, b) ==
    \/ work[r].plan[b].state = "pending"
    \/ PlanIsOld(r, b)

\* The change wanted of the next batch: for the assets in use only to forget
\* the reservation, for others to claim the batch; Null to pass it over.
Wanted(r, b) ==
    IF b = work[r].active
    THEN IF work[r].plan[b].state = "reserved" THEN "unreserve" ELSE Null
    ELSE IF Claimable(r, b) THEN "claim" ELSE Null

---------------------------------------------------------------------------
(* mutateCleanupQueue: read, decide, write if the row has not changed. *)

Changes == {"unreserve", "claim", "drop", "release"}

\* Wrong: whoever has deleted the files drops the batch or releases it.
OwnsAny(r, b) == queue[b] = "cleanup_claimed"

OwnClaim(r, b) == queue[b] = "cleanup_claimed" /\ work[r].holds

\* The change of kind k still applies to batch b as it is now.
Applies(r, k, b) ==
    /\ queue[b] # Null
    /\ CASE k \in {"unreserve", "claim"} -> SameOwner(r, b)
         [] k \in {"drop", "release"}    -> OwnClaim(r, b)

Changed(r) ==
    CASE work[r].pc \in {"unreserve", "drop"} -> Null
      [] work[r].pc = "claim"                 -> "cleanup_claimed"
      [] work[r].pc = "release"               -> "pending"

Forget(r, b) == [work[r].plan EXCEPT ![b] = NotPlanned]

\* What follows the change, done or not.
After(r, done) == IF work[r].pc = "claim" /\ done THEN "delete" ELSE "next"

\* r goes on with a step of the batch in hand, or with the next batch.
At(r, step) ==
    [work[r] EXCEPT !.pc = step, !.tries = 0, !.plan = Forget(r, work[r].on),
        !.on = IF step = "next" THEN Null ELSE @, !.holds = step # "next" /\ (@ \/ step = "delete")]
Goto(r, step) == work' = [work EXCEPT ![r] = At(r, step)]

\* The next batch of the list is passed over, or the row is read to change it.
NextBatch(r) ==
    LET todo == {b \in Batches : work[r].plan[b].state # Null}
    IN  /\ work[r].pc = "next"
        /\ \/ /\ todo = {}
              /\ work' = [work EXCEPT ![r] = NoWork] /\ UNCHANGED fresh
           \/ \E b \in todo :
                LET k == Wanted(r, b) IN
                /\ \A x \in todo : b <= x
                /\ IF k # Null /\ Applies(r, k, b)
                   THEN /\ work' = [work EXCEPT ![r].pc = k, ![r].on = b, ![r].tries = 1]
                        /\ fresh' = fresh \cup {r}
                   ELSE /\ work' = [work EXCEPT ![r].plan = Forget(r, b)]
                        /\ UNCHANGED fresh
        /\ UNCHANGED <<manifest, queue, old, stored, faults>>

AttemptsLeft(r) == work[r].tries < CasAttempts

\* The row is read for another try, or for the first one.
ReadRow(r) ==
    /\ work[r].pc \in Changes /\ r \notin fresh
    /\ LET goesOn == Applies(r, work[r].pc, work[r].on) /\ AttemptsLeft(r) IN
       \/ /\ goesOn
          /\ fresh' = fresh \cup {r}
          /\ work' = [work EXCEPT ![r].tries = @ + 1]
       \/ /\ ~goesOn
          /\ Goto(r, After(r, FALSE))
          /\ UNCHANGED fresh
    /\ UNCHANGED <<manifest, queue, old, stored, faults>>

\* The row is written; a claim ends the claim another had on the batch.
Write(r, next) ==
    LET b == work[r].on
        claim == work[r].pc = "claim"
    IN  /\ queue' = [queue EXCEPT ![b] = Changed(r)]
        /\ old' = [old EXCEPT ![b] = FALSE]
        /\ fresh' = {}
        /\ work' = [q \in Requests |->
                IF q = r THEN next
                ELSE [work[q] EXCEPT
                        !.holds = @ /\ ~(claim /\ work[q].on = b),
                        !.plan[b].taken = @ \/ (claim /\ work[q].plan[b].state # Null)]]

\* compareAndSwapTenantConfig matches the row; when another has written it
\* since, r is no longer in fresh and reads again.
WriteRow(r) ==
    /\ work[r].pc \in Changes /\ r \in fresh
    /\ Write(r, At(r, After(r, TRUE)))
    /\ UNCHANGED <<manifest, stored, faults>>

\* The database fails, before or after it commits: 503, the request ends.
WriteRowFails(r) ==
    /\ work[r].pc \in Changes /\ r \in fresh
    /\ Fault
    /\ \/ Write(r, NoWork)
       \/ /\ work' = [work EXCEPT ![r] = NoWork]
          /\ fresh' = fresh \ {r}
          /\ UNCHANGED <<queue, old>>
    /\ UNCHANGED <<manifest, stored>>

---------------------------------------------------------------------------
(* removeStorageObjects. *)

\* The call deletes every file, or fails having deleted some.
DeleteFiles(r) ==
    /\ work[r].pc = "delete"
    /\ \/ stored' = [stored EXCEPT ![work[r].on] = {}] /\ UNCHANGED faults
       \/ /\ Fault
          /\ \E left \in SUBSET stored[work[r].on] : stored' = [stored EXCEPT ![work[r].on] = left]
    /\ work' = [work EXCEPT ![r].pc = "verify"]
    /\ UNCHANGED <<manifest, Row>>

\* Wrong: the answer of the delete is believed.
Trusting(r) ==
    /\ work[r].pc = "verify"
    /\ Goto(r, "drop")
    /\ UNCHANGED <<manifest, Row, stored, faults>>

\* storageObjectsAreMissing: a file that cannot be read counts as present.
ReadBack(r) ==
    /\ work[r].pc = "verify"
    /\ \/ stored[work[r].on] = {} /\ Goto(r, "drop") /\ UNCHANGED faults
       \/ stored[work[r].on] # {} /\ Goto(r, "release") /\ UNCHANGED faults
       \/ Fault /\ Goto(r, "release")
    /\ UNCHANGED <<manifest, Row, stored>>

\* The process dies.
Crash(r) ==
    /\ work[r].pc # "idle"
    /\ Fault
    /\ work' = [work EXCEPT ![r] = NoWork]
    /\ fresh' = fresh \ {r}
    /\ UNCHANGED <<manifest, queue, old, stored>>

---------------------------------------------------------------------------

Steps(r) ==
    \/ Start(r) \/ ListQueue(r) \/ NextBatch(r)
    \/ ReadRow(r) \/ WriteRow(r) \/ DeleteFiles(r) \/ ReadBack(r)

CleanupNext ==
    \/ Deactivate
    \/ \E b \in Batches : TenMinutes(b)
    \/ \E r \in Requests : Steps(r) \/ WriteRowFails(r) \/ Crash(r)

CleanupSpec == CleanupInit /\ [][CleanupNext]_cleanupVars

\* The administrator repeats the deletion, a request goes on, time passes.
CleanupFairSpec ==
    /\ CleanupSpec
    /\ \A r \in Requests : WF_cleanupVars(Steps(r))
    /\ \A b \in Batches : WF_cleanupVars(TenMinutes(b))

---------------------------------------------------------------------------

PlannedBatch == [state : States \cup {Null}, old : BOOLEAN, taken : BOOLEAN]
RequestWork ==
    [pc : {"idle", "list", "next", "delete", "verify"} \cup Changes,
     active : Batches \cup {Null}, plan : [Batches -> PlannedBatch],
     on : Batches \cup {Null}, holds : BOOLEAN, tries : 0..CasAttempts]

\* The type invariant.
CleanupTypeOK ==
    /\ manifest \in {"enabled", "disabled", "none"}
    /\ queue \in [Batches -> States \cup {Null}]
    /\ old \in [Batches -> BOOLEAN]
    /\ stored \in [Batches -> SUBSET Objects]
    /\ fresh \subseteq Requests
    /\ work \in [Requests -> RequestWork]
    /\ faults \in 0..MaxFaults

\* The queue forgets a batch only when its files are gone: nothing is left in
\* the bucket that no row names any more, whichever claim was taken over,
\* write lost or process killed.
ForgottenMeansGone ==
    \A b \in Batches : queue[b] = Null /\ b # Active => stored[b] = {}

\* The files of the Custom UI in use are never taken for those of an abandoned
\* upload.
FilesInUseAreKept ==
    manifest = "enabled" => stored[Active] = Objects

\* The queue and the storage agree: what is in use is there, what is abandoned
\* is named by a batch.
CleanupInvariant == CleanupTypeOK /\ ForgottenMeansGone /\ FilesInUseAreKept

\* The batch a request works on is still claimed while its claim stands: a slow
\* request whose batch was taken over neither drops nor releases it under the
\* new holder.
HoldersOwnTheirBatch ==
    \A r \in Requests : work[r].holds => queue[work[r].on] = "cleanup_claimed"

\* A claim ages while its holder is still at work.
SlowHolder ==
    \E b \in Batches : ~old[b] /\ old'[b] /\ \E r \in Requests : work[r].on = b /\ work[r].holds

\* Every abandoned batch is cleaned up in the end, once failures stop and a
\* request no longer takes ten minutes for one batch: no batch is left claimed
\* for good, and no two requests keep each other from finishing.
QueueDrains ==
    <>[][~SlowHolder]_cleanupVars => <>[](\A b \in Batches \ {Active} : queue[b] = Null)
=============================================================================
