--------------------------- MODULE ProjectStorage ---------------------------
(***************************************************************************)
(* Provisioning of a project (routes/provisioning.ts) beside uploads of    *)
(* branding images (storage/index.ts).                                     *)
(*                                                                         *)
(* A reconciliation goes through the steps of provisioning and keeps the   *)
(* outcome of each in a row; its last step creates the buckets of the      *)
(* project's storage, which an upload creates as well when it finds none.  *)
(* Reconciliations, uploads and rollbacks overlap; calls upstream fail     *)
(* before or after they took effect.                                       *)
(***************************************************************************)
EXTENDS Naturals, Sequences, SequencesExt

CONSTANTS
    Runs,         \* reconciliations under way at one time, repeated for ever
    Uploads,      \* uploads of a logo, each of an image of its own
    Checks,       \* the steps before the buckets, in order
    MaxFaults,    \* bound: calls that fail
    MaxRollbacks, \* bound: rollbacks
    Null

Buckets == {"avatars", "branding"}

ASSUME StorageAssumption ==
    /\ Checks \in Seq(STRING) /\ MaxFaults \in Nat /\ MaxRollbacks \in Nat
    /\ "storage_buckets" \notin ToSet(Checks)
    /\ Null \notin Runs \cup Uploads \cup Buckets \cup {"completed", "failed"}

VARIABLES
    row,     \* provisioning_records: the status of each step
    buckets, \* the buckets of the project's storage
    files,   \* the images stored in the branding bucket
    logo,    \* logo_url of the sign-in experience
    run,     \* run[c]: reconciliation c
    up,      \* up[u]: upload u
    faults, rollbacks,
    writer   \* History: writer[s]: the run that wrote the row of s last

storage == <<buckets, files, logo>>
storageVars == <<row, storage, run, up, faults, rollbacks, writer>>

Steps == Append(Checks, "storage_buckets")
StepSet == ToSet(Steps)
NoResults == [s \in StepSet |-> Null]

StorageInit ==
    /\ row = NoResults /\ writer = NoResults
    /\ buckets = {} /\ files = {} /\ logo = Null
    /\ run = [c \in Runs |-> [pc |-> "idle", at |-> 0, bucket |-> Null,
                              outcome |-> Null, results |-> NoResults, full |-> FALSE]]
    /\ up = [u \in Uploads |-> "bucket"]
    /\ faults = 0 /\ rollbacks = 0

Fault == faults < MaxFaults /\ faults' = faults + 1

-----------------------------------------------------------------------------
(* A reconciliation *)

Step(c) == Steps[run[c].at]

\* The next step; the last one starts with the avatars.
AtStep(q, i) ==
    IF i > Len(Steps) THEN [q EXCEPT !.pc = "finish", !.bucket = Null]
    ELSE [q EXCEPT !.pc = "step", !.at = i,
                   !.bucket = IF i = Len(Steps) THEN "avatars" ELSE Null]

StartRun(c) ==
    /\ run[c].pc = "idle"
    /\ run' = [run EXCEPT ![c] = AtStep([@ EXCEPT !.results = NoResults, !.full = FALSE], 1)]
    /\ UNCHANGED <<row, storage, up, faults, rollbacks, writer>>

Operated(q, outcome) == [q EXCEPT !.pc = "record", !.outcome = outcome]

\* A migration, the configuration or the routes are as they should be.
CheckPasses(c) ==
    /\ run[c].pc = "step" /\ run[c].bucket = Null
    /\ run' = [run EXCEPT ![c] = Operated(@, "completed")]
    /\ UNCHANGED <<row, storage, up, faults, rollbacks, writer>>

\* Wrong: a bucket that is already there fails the step.
FailsIfPresent(q, present) ==
    IF present THEN Operated(q, "failed")
    ELSE IF q.bucket = "avatars" THEN [q EXCEPT !.bucket = "branding"]
    ELSE Operated(q, "completed")

\* 409 is as good as created.
AfterCreation(q, present) ==
    IF q.bucket = "avatars" THEN [q EXCEPT !.bucket = "branding"]
    ELSE Operated(q, "completed")

CreateBucket(c) ==
    /\ run[c].pc = "step" /\ run[c].bucket # Null
    /\ buckets' = buckets \cup {run[c].bucket}
    /\ run' = [run EXCEPT ![c] = AfterCreation(@, run[c].bucket \in buckets)]
    /\ UNCHANGED <<row, files, logo, up, faults, rollbacks, writer>>

\* Wrong: whatever createStorageBucket throws is taken for a conflict.
EveryErrorIsConflict(q) ==
    IF q.bucket = Null THEN Operated(q, "failed") ELSE AfterCreation(q, TRUE)
AfterError(q) == Operated(q, "failed")

\* The call fails, and may have created the bucket.
StepFails(c) ==
    /\ run[c].pc = "step" /\ Fault
    /\ buckets' \in {buckets, buckets \cup ({run[c].bucket} \ {Null})}
    /\ run' = [run EXCEPT ![c] = AfterError(@)]
    /\ UNCHANGED <<row, files, logo, up, rollbacks, writer>>

\* Wrong: ON CONFLICT DO NOTHING.
KeptIfPresent(s, status) == IF row[s] = Null THEN [row EXCEPT ![s] = status] ELSE row
\* Wrong: the status is left to the default of the column.
StatusByDefault(s, status) == [row EXCEPT ![s] = "pending"]
\* recordStep(): an upsert of the row of the step.
Upserted(s, status) == [row EXCEPT ![s] = status]

Recorded(q, result) ==
    AtStep([q EXCEPT !.results[Steps[q.at]] = result, !.outcome = Null], q.at + 1)

RecordStep(c) ==
    /\ run[c].pc = "record"
    /\ row' = Upserted(Step(c), run[c].outcome)
    /\ writer' = [writer EXCEPT ![Step(c)] = c]
    /\ run' = [run EXCEPT ![c] = Recorded(@, run[c].outcome)]
    /\ UNCHANGED <<storage, up, faults, rollbacks>>

\* recordStepSafely(): the result is a failure then, whatever was committed.
RecordFails(c) ==
    /\ run[c].pc = "record" /\ Fault
    /\ \/ UNCHANGED <<row, writer>>
       \/ /\ row' = Upserted(Step(c), run[c].outcome)
          /\ writer' = [writer EXCEPT ![Step(c)] = c]
    /\ run' = [run EXCEPT ![c] = Recorded(@, "unsaved")]
    /\ UNCHANGED <<storage, up, rollbacks>>

\* isProjectFullyProvisioned() reads the rows; a read that fails means no.
FinishRun(c) ==
    /\ run[c].pc = "finish"
    /\ run' = [run EXCEPT ![c].pc = "idle",
                          ![c].full = \A s \in StepSet : row[s] = "completed"]
    /\ UNCHANGED <<row, storage, up, faults, rollbacks, writer>>

FinishUnread(c) ==
    /\ run[c].pc = "finish" /\ Fault
    /\ run' = [run EXCEPT ![c].pc = "idle", ![c].full = FALSE]
    /\ UNCHANGED <<row, storage, up, rollbacks, writer>>

\* postByProjectRefRollback resets the records, not what they are about.
Rollback ==
    /\ rollbacks < MaxRollbacks
    /\ rollbacks' = rollbacks + 1
    /\ row' = NoResults /\ writer' = NoResults
    /\ UNCHANGED <<storage, run, up, faults>>

-----------------------------------------------------------------------------
(* An upload: storeBrandingFile(), persistBrandingAssetUrl() *)

Go(u, pc) == up' = [up EXCEPT ![u] = pc]

FindBucket(u) ==
    /\ up[u] = "bucket"
    /\ Go(u, IF "branding" \in buckets THEN "upload" ELSE "create")
    /\ UNCHANGED <<row, storage, run, faults, rollbacks, writer>>

\* Unlike the reconciliation, an upload takes a conflict for a failure.
CreateForUpload(u) ==
    /\ up[u] = "create"
    /\ buckets' = buckets \cup {"branding"}
    /\ Go(u, IF "branding" \in buckets THEN "failed" ELSE "upload")
    /\ UNCHANGED <<row, files, logo, run, faults, rollbacks, writer>>

\* Wrong: an upload that failed goes on.
GoOn(u) == Go(u, IF up[u] = "upload" THEN "persist" ELSE "failed")
GiveUp(u) == Go(u, "failed")

\* The name of the file is a hash of its content: no upload replaces another's.
UploadFile(u) ==
    /\ up[u] = "upload"
    /\ files' = files \cup {u}
    /\ Go(u, "persist")
    /\ UNCHANGED <<row, buckets, logo, run, faults, rollbacks, writer>>

Persist(u) ==
    /\ up[u] = "persist"
    /\ logo' = u
    /\ Go(u, "readback")
    /\ UNCHANGED <<row, buckets, files, run, faults, rollbacks, writer>>

\* Wrong: another field is compared.
OtherField(u) == FALSE
Confirmed(u) == logo = u

\* Another upload may have come between; this one is then reported as failed.
\* What follows a success only writes the audit log.
ReadBack(u) ==
    /\ up[u] = "readback"
    /\ Go(u, IF Confirmed(u) THEN "done" ELSE "failed")
    /\ UNCHANGED <<row, storage, run, faults, rollbacks, writer>>

\* A call of an upload fails, before or after it took effect.
UploadFails(u) ==
    /\ up[u] \notin {"done", "failed"} /\ Fault
    /\ buckets' \in {buckets, IF up[u] = "create" THEN buckets \cup {"branding"} ELSE buckets}
    /\ files' \in {files, IF up[u] = "upload" THEN files \cup {u} ELSE files}
    /\ logo' \in {logo, IF up[u] = "persist" THEN u ELSE logo}
    /\ GiveUp(u)
    /\ UNCHANGED <<row, run, rollbacks, writer>>

-----------------------------------------------------------------------------
RunStep(c) ==
    \/ StartRun(c) \/ CheckPasses(c) \/ CreateBucket(c)
    \/ RecordStep(c) \/ FinishRun(c)

StorageNext ==
    \/ \E c \in Runs : RunStep(c) \/ StepFails(c) \/ RecordFails(c) \/ FinishUnread(c)
    \/ \E u \in Uploads :
        \/ FindBucket(u) \/ CreateForUpload(u) \/ UploadFile(u) \/ Persist(u)
        \/ ReadBack(u) \/ UploadFails(u)
    \/ Rollback

\* Administrators repeat the reconciliation, and its calls end.
StorageSpec ==
    /\ StorageInit /\ [][StorageNext]_storageVars
    /\ \A c \in Runs : WF_storageVars(RunStep(c))

-----------------------------------------------------------------------------
(* Properties *)

Reconciliation ==
    [pc : {"idle", "step", "record", "finish"}, at : 0 .. Len(Steps),
     bucket : Buckets \cup {Null}, outcome : {Null, "completed", "failed"},
     results : [StepSet -> {Null, "completed", "failed", "unsaved"}],
     full : BOOLEAN]

\* Every variable has its type.
StorageTypeOK ==
    /\ row \in [StepSet -> {Null, "completed", "failed"}]
    /\ buckets \subseteq Buckets /\ files \subseteq Uploads /\ logo \in Uploads \cup {Null}
    /\ run \in [Runs -> Reconciliation] /\ writer \in [StepSet -> Runs \cup {Null}]
    /\ faults \in 0 .. MaxFaults /\ rollbacks \in 0 .. MaxRollbacks
    /\ up \in [Uploads ->
         {"bucket", "create", "upload", "persist", "readback", "done", "failed"}]

\* The row that calls the buckets complete stands for both of them, whoever
\* created them and however many reconciliations wrote it: only a conflict
\* counts as success, and both creations come before the row.
CompletedIsBuilt ==
    row["storage_buckets"] = "completed" => buckets = Buckets

\* A reconciliation that reports the project as complete has no failed step of
\* its own behind it, unless that failure could not be recorded or another
\* reconciliation did the step since: the upsert lets no older success stand.
OwnFailureShows ==
    [][\A c \in Runs, s \in StepSet :
          ~run[c].full /\ run'[c].full /\ run[c].results[s] = "failed"
          => writer[s] # c]_storageVars

\* The sign-in page refers to no image that is not stored, whatever uploads
\* failed or overtook each other (the file is stored before its URL).
LogoIsStored == logo # Null => logo \in files

\* What is recorded or referred to exists, in every state.
StorageInvariant == StorageTypeOK /\ CompletedIsBuilt /\ LogoIsStored

\* When no call failed and all uploads are over, the image that is shown is one
\* whose upload was reported as done, however they overlapped: only an upload
\* whose URL was overwritten fails, and the last one to be written succeeds.
FailedIsNotShown ==
    faults = 0 /\ (\A u \in Uploads : up[u] \in {"done", "failed"}) =>
        (logo # Null => up[logo] = "done")

\* "Idempotent provision/reconcile": once calls have stopped failing and nobody
\* rolls back, the project ends up provisioned and stays so, whatever earlier
\* reconciliations and uploads left behind.
Converges == <>[](\A s \in StepSet : row[s] = "completed")
=============================================================================
