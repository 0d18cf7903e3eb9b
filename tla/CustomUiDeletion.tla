-------------------------- MODULE CustomUiDeletion --------------------------
(***************************************************************************)
(* Deleting the Custom UI left by an earlier version: deleteCustomUiAssets *)
(* and its helpers in                                                      *)
(* packages/auth-server/src/routes/sign-in-experience.ts.                  *)
(*                                                                         *)
(* The manifest is one row of tenant_configs, changed only by              *)
(* compare-and-set on its revision.  It doubles as an outbox of one audit  *)
(* event: a write that changes the manifest's lifecycle also stores the    *)
(* event, and a request must see it delivered before it goes on.  A        *)
(* request leases the delivery by writing "sending", posts, and records    *)
(* what came of it; a lease ten minutes old is recovered by reading the    *)
(* audit log back, never by posting again.  Requests run concurrently, may *)
(* die at any step, and the administrator repeats them.                    *)
(***************************************************************************)
EXTENDS Naturals, FiniteSets

CONSTANTS
    Requests,   \* requests that delete the Custom UI, each repeated at will
    Objects,    \* stored files of the manifest
    MaxFaults,  \* bound: rejected, failed or lost calls and crashes
    Null

Events == {"uploaded", "delete_pending", "deleted"}
Deliveries == {"ready", "sending", "delivered", "delivery_unknown"}
Manifests == [enabled : BOOLEAN, life : {"active", "cleanup_pending", "objects_deleted"},
              event : Events \cup {Null}, delivery : Deliveries \cup {Null}, rev : Nat]
Replies == {"deleted", "deleted_audit_pending", "deactivated", "unavailable", "conflict"}

ASSUME DeletionAssumption ==
    /\ Objects # {} /\ IsFiniteSet(Objects)
    /\ MaxFaults \in Nat
    /\ Null \notin Events \cup Deliveries \cup Manifests \cup Replies

VARIABLES
    row,        \* the manifest's row of tenant_configs, or Null
    aged,       \* the row was last written ten minutes ago or more
    stored,     \* files in the storage bucket
    log,        \* log[e]: how often the audit service recorded event e
    underway,   \* events whose post was given up but may still be recorded
    committed,  \* history: events that a write of the row stored
    req,        \* req[r]: the local state of request r
    reply,      \* reply[r]: how r ended, while it is not repeated
    faults      \* faults so far

uiVars == <<row, aged, stored, log, underway, committed, req, reply, faults>>

\* snap: the row as the request last read or wrote it; own: the event it
\* committed itself; post: what became of its post.
NoRequest == [pc |-> "idle", snap |-> Null, own |-> Null, post |-> Null]

\* The manifests an upload of the earlier version left: in use or disabled,
\* its audit event delivered and cleared, refused or of unknown fate.
DeletionInit ==
    /\ row \in [enabled : BOOLEAN, life : {"active"}, event : {"uploaded", Null},
                delivery : {"ready", "delivery_unknown", Null}, rev : {0}]
    /\ row.event = Null <=> row.delivery = Null
    /\ log \in {[e \in Events |-> IF e = "uploaded" THEN n ELSE 0] : n \in 0..1}
    /\ row.delivery = Null => log["uploaded"] = 1
    /\ row.delivery = "ready" => log["uploaded"] = 0
    /\ aged = FALSE
    /\ stored = Objects
    /\ underway = {}
    /\ committed = {"uploaded"}
    /\ req = [r \in Requests |-> NoRequest]
    /\ reply = [r \in Requests |-> Null]
    /\ faults = 0

---------------------------------------------------------------------------
(* The row: reading how to go on, and the compare-and-set. *)

Fault == faults < MaxFaults /\ faults' = faults + 1

\* What is next once no audit event is pending, by the manifest.
Resume(manifest) ==
    IF manifest.life = "objects_deleted" THEN "drop"
    ELSE IF manifest.enabled THEN "deactivate"
    ELSE "remove"

\* Wrong: a stale lease is taken for a post that was never sent.
ResendStale(manifest, stale) ==
    CASE manifest.event = Null            -> Resume(manifest)
      [] manifest.delivery = "delivered"  -> "clear"
      [] manifest.delivery = "ready" \/ (manifest.delivery # "delivered" /\ stale) -> "lease"
      [] OTHER -> "pending"

\* Wrong: an unknown delivery is never looked at again.
UnknownForGood(manifest, stale) ==
    CASE manifest.event = Null            -> Resume(manifest)
      [] manifest.delivery = "delivered"  -> "clear"
      [] manifest.delivery = "ready"      -> "lease"
      [] manifest.delivery = "sending" /\ stale -> "readback"
      [] OTHER -> "pending"

\* Wrong: a pending event does not hold the deletion up.
FlushIgnored(manifest, stale) ==
    CASE manifest.delivery = "delivered"  -> "clear"
      [] manifest.delivery = "ready"      -> "lease"
      [] OTHER -> Resume(manifest)

\* flushPendingAudit: how the delivery of the pending event can go on.
Flush(manifest, stale) ==
    CASE manifest.event = Null            -> Resume(manifest)
      [] manifest.delivery = "delivered"  -> "clear"
      [] manifest.delivery = "ready"      -> "lease"
      [] manifest.delivery \in {"sending", "delivery_unknown"} /\ stale -> "readback"
      [] OTHER -> "pending"

Store(new) ==
    /\ row' = [new EXCEPT !.rev = @ + 1]
    /\ aged' = FALSE
    /\ committed' = committed \cup ({new.event} \ {Null})

KeepRow == UNCHANGED <<row, aged, committed>>

\* Wrong: the row is written whatever its revision.
BlindSwap(r, new, step, own) ==
    /\ Store(new)
    /\ req' = [req EXCEPT ![r] = [@ EXCEPT !.pc = step, !.snap = row', !.own = own]]
    /\ UNCHANGED faults

\* The row is still the one r knows, and r goes on with what it wrote.
Swap(r, new, step, own) ==
    /\ row = req[r].snap
    /\ Store(new)
    /\ req' = [req EXCEPT ![r] = [@ EXCEPT !.pc = step, !.snap = row', !.own = own]]
    /\ UNCHANGED faults

\* It matches no row, or the database fails before or after it commits.
SwapFails(r, new) ==
    \/ row # req[r].snap /\ KeepRow /\ UNCHANGED faults
    \/ row = req[r].snap /\ Fault /\ (KeepRow \/ Store(new))

Goto(r, step) == req' = [req EXCEPT ![r].pc = step]

\* The request ends with an answer and forgets what it knew.
Finish(r, answer) ==
    /\ req' = [req EXCEPT ![r] = NoRequest]
    /\ reply' = [reply EXCEPT ![r] = answer]

---------------------------------------------------------------------------
(* A request. *)

\* deletionBaseState: read the row and take up its pending event, if any.
Delete(r) ==
    /\ req[r].pc = "idle"
    /\ IF row = Null
       THEN Finish(r, "deleted")
       ELSE /\ req' = [req EXCEPT ![r] = [@ EXCEPT !.pc = Flush(row, aged), !.snap = row]]
            /\ reply' = [reply EXCEPT ![r] = Null]
    /\ UNCHANGED <<row, aged, stored, log, underway, committed, faults>>

\* The event stays pending.  After its own deactivation or deletion the
\* request says so; before them it answers 503.
GiveUp(r) ==
    /\ req[r].pc = "pending"
    /\ Finish(r, CASE req[r].own = "delete_pending" -> "deactivated"
                   [] req[r].own = "deleted" -> "deleted_audit_pending"
                   [] OTHER -> "unavailable")
    /\ UNCHANGED <<row, aged, stored, log, underway, committed, faults>>

\* writeAuditDeliveryState and clearDeliveredAudit: on success go on.
WriteDelivery(r, at, new, next) ==
    /\ req[r].pc = at
    /\ \/ Swap(r, new, next, req[r].own)
       \/ SwapFails(r, new) /\ Goto(r, "pending")
    /\ UNCHANGED <<stored, log, underway, reply>>

\* Wrong: a disabled manifest is normalised before its event is delivered.
DeliverNormalised(r, state) ==
    [req[r].snap EXCEPT !.delivery = state,
                        !.life = IF req[r].snap.enabled THEN @ ELSE "cleanup_pending"]

Deliver(r, state) == [req[r].snap EXCEPT !.delivery = state]

\* Lease the delivery.
Lease(r) == WriteDelivery(r, "lease", Deliver(r, "sending"), "post")

\* Wrong: a refused event is dropped, as a delivered one.
SettleRefusedAsDelivered(r) ==
    IF req[r].post = "unknown"
    THEN WriteDelivery(r, "settle", Deliver(r, "delivery_unknown"), "pending")
    ELSE WriteDelivery(r, "settle", Deliver(r, "delivered"), "clear")

\* Record what became of the post.
Settle(r) ==
    CASE req[r].post = "delivered" ->
            WriteDelivery(r, "settle", Deliver(r, "delivered"), "clear")
      [] req[r].post = "rejected" ->
            WriteDelivery(r, "settle", Deliver(r, "ready"), "pending")
      [] OTHER ->
            WriteDelivery(r, "settle", Deliver(r, "delivery_unknown"), "pending")

\* recoverStaleAuditDelivery: the audit log proved the delivery.
Confirm(r) == WriteDelivery(r, "confirm", Deliver(r, "delivered"), "clear")

Clear(r) ==
    WriteDelivery(r, "clear", [req[r].snap EXCEPT !.event = Null, !.delivery = Null],
                  Resume(req[r].snap))

---------------------------------------------------------------------------
(* The audit service. *)

Posted(r, result) == req' = [req EXCEPT ![r].pc = "settle", ![r].post = result]
Record(e) == log' = [log EXCEPT ![e] = @ + 1]

\* The post is recorded and answered, refused with a 4xx, or its answer is
\* lost: it was recorded, never will be, or is still on its way.
Post(r) ==
    /\ req[r].pc = "post"
    /\ LET e == req[r].snap.event IN
       \/ Record(e) /\ Posted(r, "delivered") /\ UNCHANGED <<underway, faults>>
       \/ Fault /\ Posted(r, "rejected") /\ UNCHANGED <<log, underway>>
       \/ /\ Fault /\ Posted(r, "unknown")
          /\ \/ Record(e) /\ UNCHANGED underway
             \/ UNCHANGED <<log, underway>>
             \/ underway' = underway \cup {e} /\ UNCHANGED log
    /\ UNCHANGED <<row, aged, stored, committed, reply>>

\* A post given up on arrives after all.
Land(e) ==
    /\ e \in underway
    /\ Record(e)
    /\ underway' = underway \ {e}
    /\ UNCHANGED <<row, aged, stored, committed, req, reply, faults>>

\* auditDeliveryHasUniqueReadBack, which may fail.
ReadBack(r) ==
    /\ req[r].pc = "readback"
    /\ \/ Goto(r, IF log[req[r].snap.event] = 1 THEN "confirm" ELSE "pending") /\ UNCHANGED faults
       \/ Fault /\ Goto(r, "pending")
    /\ UNCHANGED <<row, aged, stored, log, underway, committed, reply>>

---------------------------------------------------------------------------
(* The deletion. *)

\* writeCustomUiManifest with an event: a conflict is a 409, a failure a 503.
WriteManifest(r, at, life, event) ==
    /\ req[r].pc = at
    /\ LET new == [req[r].snap EXCEPT !.life = life, !.enabled = FALSE,
                                      !.event = event, !.delivery = "ready"]
       IN \/ Swap(r, new, "lease", event) /\ UNCHANGED reply
          \/ SwapFails(r, new) /\ Finish(r, IF row = req[r].snap THEN "unavailable" ELSE "conflict")
    /\ UNCHANGED <<stored, log, underway>>

Deactivate(r) == WriteManifest(r, "deactivate", "cleanup_pending", "delete_pending")
RecordDeletion(r) == WriteManifest(r, "record", "objects_deleted", "deleted")

\* Wrong: a successful delete request is enough, nothing is read back.
RemoveUnchecked(r) ==
    /\ req[r].pc = "remove"
    /\ stored' \in SUBSET stored
    /\ Goto(r, "record")
    /\ UNCHANGED <<row, aged, log, underway, committed, faults, reply>>

\* removeStorageObjects: a delete request, then every object is read back.
\* The request may leave objects behind, the reading may fail.
RemoveObjects(r) ==
    /\ req[r].pc = "remove"
    /\ \/ stored' = {} /\ Goto(r, "record") /\ UNCHANGED <<faults, reply>>
       \/ Fault /\ stored' \in SUBSET stored /\ Finish(r, "unavailable")
    /\ UNCHANGED <<row, aged, log, underway, committed>>

\* deleteTenantConfigIfRevision.
Drop(r) ==
    /\ req[r].pc = "drop"
    /\ \/ row = req[r].snap /\ row' = Null /\ Finish(r, "deleted") /\ UNCHANGED faults
       \/ row # req[r].snap /\ Finish(r, "conflict") /\ UNCHANGED <<row, faults>>
       \/ row = req[r].snap /\ Fault /\ row' \in {row, Null} /\ Finish(r, "unavailable")
    /\ UNCHANGED <<aged, stored, log, underway, committed>>

---------------------------------------------------------------------------
(* The environment. *)

\* Ten minutes pass since the row was written.
Age ==
    /\ row # Null /\ ~aged
    /\ aged' = TRUE
    /\ UNCHANGED <<row, stored, log, underway, committed, req, reply, faults>>

\* The process dies, a post of its own perhaps still on its way.
Crash(r) ==
    /\ req[r].pc # "idle"
    /\ Fault
    /\ Finish(r, Null)
    /\ UNCHANGED <<row, aged, stored, log, underway, committed>>

Step(r) ==
    \/ GiveUp(r) \/ Lease(r) \/ Post(r) \/ (req[r].pc = "settle" /\ Settle(r))
    \/ Clear(r) \/ ReadBack(r) \/ Confirm(r)
    \/ Deactivate(r) \/ RemoveObjects(r) \/ RecordDeletion(r) \/ Drop(r)

DeletionNext ==
    \/ \E r \in Requests : Delete(r) \/ Step(r) \/ Crash(r)
    \/ \E e \in Events : Land(e)
    \/ Age

DeletionSpec == DeletionInit /\ [][DeletionNext]_uiVars

\* Every call returns or times out, posts on their way arrive, time passes,
\* and the administrator, told to retry, does.
DeletionFairSpec ==
    /\ DeletionSpec
    /\ \A r \in Requests : WF_uiVars(Step(r)) /\ WF_uiVars(Delete(r))
    /\ \A e \in Events : WF_uiVars(Land(e))
    /\ WF_uiVars(Age)

---------------------------------------------------------------------------
(* Properties. *)

\* A manifest the parser accepts (validManifestLifecycle): its event is the
\* one of its lifecycle.
ValidManifest(mf) ==
    /\ mf.event = Null <=> mf.delivery = Null
    /\ mf.event \in {Null, CASE mf.life = "active" -> "uploaded"
                             [] mf.life = "cleanup_pending" -> "delete_pending"
                             [] OTHER -> "deleted"}

RequestState ==
    [pc : {"idle", "lease", "post", "settle", "readback", "confirm", "clear", "pending",
           "deactivate", "remove", "record", "drop"},
     snap : Manifests \cup {Null}, own : Events \cup {Null},
     post : {"delivered", "rejected", "unknown", Null}]

\* Every row, also one written by a request that knew an older row, is a
\* manifest that parseCustomUiManifest accepts: otherwise every later request
\* ends with custom_ui_manifest_invalid.
DeletionTypeOK ==
    /\ row = Null \/ (row \in Manifests /\ ValidManifest(row))
    /\ stored \subseteq Objects
    /\ log \in [Events -> Nat] /\ underway \subseteq Events /\ committed \subseteq Events
    /\ req \in [Requests -> RequestState]
    /\ reply \in [Requests -> Replies \cup {Null}]

\* The outbox loses nothing: an event that was committed with a change of the
\* manifest is in the audit log, or still in the row, whatever requests
\* overlap, die or misjudge the outcome of a post or a write.
CommittedEventsAreKept ==
    \A e \in committed : log[e] > 0 \/ (row # Null /\ row.event = e)

\* The outbox repeats nothing: however often deletion is retried, an event is
\* recorded once, without relying on the audit service to drop duplicates.
RecordedAtMostOnce == \A e \in Events : log[e] <= 1

\* The outbox is exact: every event once, from rows that can always be read.
DeletionInvariant == DeletionTypeOK /\ CommittedEventsAreKept /\ RecordedAtMostOnce

Disabled == row = Null \/ ~row.enabled

\* Files are touched only when the Custom UI is disabled and the audit log
\* tells of the deactivation, if there was one.
RemovalIsAnnounced ==
    stored # Objects =>
        /\ Disabled
        /\ "delete_pending" \in committed => log["delete_pending"] = 1

\* What a request answers is true: "deleted" when the row is gone or, with the
\* audit event pending, when the files are.
DeletedRepliesAreTrue ==
    \A r \in Requests :
        /\ reply[r] = "deleted" => row = Null
        /\ reply[r] = "deleted_audit_pending" => stored = {}
        /\ reply[r] = "deactivated" => Disabled

\* The row goes last: without it there is no file, the audit log is complete,
\* and no reply says more than that.
GoneMeansGone ==
    /\ row = Null => stored = {} /\ \A e \in committed \cup {"deleted"} : log[e] = 1
    /\ DeletedRepliesAreTrue

\* The leased event was not recorded and never will be: its post was lost, or
\* its sender died before posting.
AuditLost ==
    row # Null /\ row.delivery \in {"sending", "delivery_unknown"}
    /\ log[row.event] = 0 /\ row.event \notin underway
    /\ \A r \in Requests : ~(req[r].pc = "post" /\ req[r].snap = row)

\* Retried deletion comes to an end, unless a leased audit event was lost: the
\* outbox never posts twice, so that row waits for an operator.
DeletionEnds == <>(row = Null \/ AuditLost)
=============================================================================
