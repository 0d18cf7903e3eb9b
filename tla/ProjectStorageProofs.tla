------------------------ MODULE ProjectStorageProofs ------------------------
(***************************************************************************)
(* Provisioning beside uploads, for any steps, any number of               *)
(* reconciliations and uploads, and however many calls fail.               *)
(***************************************************************************)
EXTENDS ProjectStorage, SequenceTheorems, TLAPS

(***************************************************************************)
(* The inductive invariant.                                                *)
(***************************************************************************)

\* A reconciliation is at the bucket of its last step, creates the avatars
\* before the branding, and has both when it calls the step completed.
Fits(q) ==
    /\ q.pc = "step" =>
         /\ q.at \in 1..Len(Steps) /\ (q.bucket # Null => q.at = Len(Steps))
         /\ q.at = Len(Steps) => q.bucket # Null
         /\ q.bucket = "branding" => "avatars" \in buckets
    /\ q.pc = "record" =>
         /\ q.at \in 1..Len(Steps) /\ q.outcome \in {"completed", "failed"}
         /\ q.at = Len(Steps) /\ q.outcome = "completed" => buckets = Buckets

\* The row of a step that the run that wrote it last saw fail says so.
FailureIsWritten ==
    \A c \in Runs, s \in StepSet :
        run[c].results[s] = "failed" /\ writer[s] = c => row[s] = "failed"

RunsInv ==
    /\ row \in [StepSet -> {Null, "completed", "failed"}] /\ buckets \subseteq Buckets
    /\ run \in [Runs -> Reconciliation] /\ writer \in [StepSet -> Runs \cup {Null}]
    /\ \A c \in Runs : Fits(run[c])
    /\ CompletedIsBuilt /\ FailureIsWritten

\* A URL is stored after its image, and the last one stored is confirmed.
UploadsInv ==
    /\ files \subseteq Uploads /\ logo \in Uploads \cup {Null}
    /\ up \in [Uploads ->
         {"bucket", "create", "upload", "persist", "readback", "done", "failed"}]
    /\ \A u \in Uploads : up[u] \in {"persist", "readback", "done"} => u \in files
    /\ LogoIsStored
    /\ (faults = 0 /\ logo # Null) => up[logo] \in {"readback", "done"}

BoundsInv == faults \in 0..MaxFaults /\ rollbacks \in 0..MaxRollbacks

StorageInv == RunsInv /\ UploadsInv /\ BoundsInv

(***************************************************************************)
(* The steps, and what a reconciliation is.                                *)
(***************************************************************************)
LEMMA StepsAre ==
    /\ Len(Steps) \in Nat \ {0} /\ Steps[Len(Steps)] = "storage_buckets"
    /\ \A i \in 1..Len(Steps) :
         /\ Steps[i] \in StepSet
         /\ Steps[i] = "storage_buckets" => i = Len(Steps)
    /\ "storage_buckets" \in StepSet
<1>1. /\ Checks \in Seq(STRING) /\ Len(Checks) \in Nat /\ Len(Steps) = Len(Checks) + 1
      /\ Steps[Len(Checks) + 1] = "storage_buckets"
      /\ \A i \in 1..Len(Checks) : Steps[i] = Checks[i]
  BY StorageAssumption DEF Steps
<1>2. StepSet = {Steps[i] : i \in 1..Len(Steps)}
  BY <1>1 DEF StepSet, ToSet, Steps
<1>3. \A i \in 1..Len(Checks) : Checks[i] # "storage_buckets"
  BY <1>1, StorageAssumption DEF ToSet
<1> QED BY <1>1, <1>2, <1>3

LEMMA NoResultsTyped ==
    /\ NoResults \in [StepSet -> {Null}] /\ \A s \in StepSet : NoResults[s] = Null
    /\ Null # "completed" /\ Null # "failed" /\ Null \notin Buckets
    /\ Null \notin Runs /\ Null \notin Uploads
BY StorageAssumption DEF NoResults

\* The next step, whatever the one before.
LEMMA AtStepIs ==
    ASSUME NEW q \in Reconciliation, NEW i \in 1..(Len(Steps) + 1)
    PROVE  /\ AtStep(q, i) \in Reconciliation /\ AtStep(q, i).results = q.results
           /\ AtStep(q, i).full = q.full
           /\ AtStep(q, i).pc # "record"
           /\ AtStep(q, i).pc = "step" =>
                /\ AtStep(q, i).at \in 1..Len(Steps) /\ AtStep(q, i).bucket # "branding"
                /\ AtStep(q, i).bucket # Null => AtStep(q, i).at = Len(Steps)
                /\ AtStep(q, i).at = Len(Steps) => AtStep(q, i).bucket # Null
<1>1. CASE i > Len(Steps)
  <2>1. AtStep(q, i) = [q EXCEPT !.pc = "finish", !.bucket = Null]
    BY <1>1 DEF AtStep
  <2> QED BY <2>1 DEF Reconciliation
<1>2. CASE i <= Len(Steps)
  <2> DEFINE b == IF i = Len(Steps) THEN "avatars" ELSE Null
             w == [q EXCEPT !.pc = "step", !.at = i, !.bucket = b]
  <2>1. Len(Steps) \in Nat /\ i \in 1..Len(Steps) /\ i \in 0..Len(Steps)
    BY <1>2, StepsAre
  <2>2. AtStep(q, i) = w
    BY <2>1 DEF AtStep
  <2>3. b \in Buckets \cup {Null} /\ b # "branding" /\ (b # Null <=> i = Len(Steps))
    BY NoResultsTyped DEF Buckets
  <2> HIDE DEF b
  <2>4. w \in Reconciliation /\ w.pc = "step" /\ w.at = i /\ w.bucket = b
        /\ w.results = q.results /\ w.full = q.full
    BY <2>1, <2>3 DEF Reconciliation
  <2> QED BY <2>1, <2>2, <2>3, <2>4
<1> QED BY <1>1, <1>2, StepsAre

LEMMA StorageInvInit == StorageInit => StorageInv
<1> SUFFICES ASSUME StorageInit PROVE StorageInv
  OBVIOUS
<1> USE NoResultsTyped, StorageAssumption DEF StorageInit
<1>1. RunsInv
  <2>1. run \in [Runs -> Reconciliation]
    BY StepsAre DEF Reconciliation
  <2>2. \A c \in Runs : Fits(run[c])
    BY DEF Fits
  <2>3. CompletedIsBuilt /\ FailureIsWritten
    BY StepsAre DEF CompletedIsBuilt, FailureIsWritten
  <2> QED BY <2>1, <2>2, <2>3 DEF RunsInv
<1>2. UploadsInv
  BY DEF UploadsInv, LogoIsStored
<1>3. BoundsInv
  BY DEF BoundsInv
<1> QED BY <1>1, <1>2, <1>3 DEF StorageInv

(***************************************************************************)
(* Reconciliations.                                                        *)
(***************************************************************************)
BucketsGrow == buckets \subseteq buckets' /\ buckets' \subseteq Buckets

LEMMA FitsStays ==
    ASSUME RunsInv, BucketsGrow, NEW c \in Runs, UNCHANGED run[c] PROVE Fits(run[c])'
<1>1. Fits(run[c]) /\ (buckets = Buckets => buckets' = Buckets)
  BY DEF RunsInv, BucketsGrow
<1> QED BY <1>1 DEF Fits, BucketsGrow

\* Calls elsewhere can only add buckets.
LEMMA RunsIdle ==
    ASSUME RunsInv, UNCHANGED <<row, run, writer>>, BucketsGrow PROVE RunsInv'
<1>1. \A c \in Runs : Fits(run[c])'
  BY FitsStays
<1>2. CompletedIsBuilt'
  BY DEF RunsInv, CompletedIsBuilt, BucketsGrow
<1> QED BY <1>1, <1>2 DEF RunsInv, FailureIsWritten, BucketsGrow

\* A reconciliation goes on and leaves the rows alone.
LEMMA RunGoesOn ==
    ASSUME RunsInv, NEW c \in Runs, NEW q \in Reconciliation, run' = [run EXCEPT ![c] = q],
           UNCHANGED <<row, writer>>, BucketsGrow, Fits(run[c])',
           \A s \in StepSet : q.results[s] = "failed" => run[c].results[s] = "failed"
    PROVE  RunsInv'
<1>1. /\ run' \in [Runs -> Reconciliation] /\ run'[c] = q
      /\ \A d \in Runs \ {c} : run'[d] = run[d]
  BY DEF RunsInv
<1>2. \A d \in Runs : Fits(run[d])'
  BY <1>1, FitsStays
<1>3. CompletedIsBuilt'
  BY DEF RunsInv, CompletedIsBuilt, BucketsGrow
<1>4. FailureIsWritten'
  BY <1>1 DEF RunsInv, FailureIsWritten
<1> QED BY <1>1, <1>2, <1>3, <1>4 DEF RunsInv, BucketsGrow

LEMMA StartRunKeeps ==
    ASSUME RunsInv, NEW c \in Runs, StartRun(c) PROVE RunsInv'
<1> DEFINE e == [run[c] EXCEPT !.results = NoResults, !.full = FALSE]
           q == AtStep(e, 1)
<1>1. /\ run[c] \in Reconciliation /\ run' = [run EXCEPT ![c] = q]
      /\ UNCHANGED <<row, writer, buckets>>
  BY DEF RunsInv, StartRun, storage
<1>2. e \in Reconciliation /\ e.results = NoResults
  BY ZenonT(40), <1>1, NoResultsTyped DEF Reconciliation
<1> HIDE DEF e
<1>3. /\ q \in Reconciliation /\ q.results = NoResults /\ q.pc # "record"
      /\ q.pc = "step" =>
           /\ q.at \in 1..Len(Steps) /\ q.bucket # "branding"
           /\ q.bucket # Null => q.at = Len(Steps)
           /\ q.at = Len(Steps) => q.bucket # Null
  BY <1>2, StepsAre, AtStepIs
<1> HIDE DEF q
<1>4. run'[c] = q /\ BucketsGrow
  BY <1>1 DEF RunsInv, BucketsGrow
<1>5. Fits(run[c])'
  BY <1>3, <1>4 DEF Fits
<1> QED BY <1>1, <1>3, <1>4, <1>5, NoResultsTyped, RunGoesOn

LEMMA CheckPassesKeeps ==
    ASSUME RunsInv, NEW c \in Runs, CheckPasses(c) PROVE RunsInv'
<1> DEFINE q == Operated(run[c], "completed")
<1>1. /\ run[c] \in Reconciliation /\ run' = [run EXCEPT ![c] = q] /\ Fits(run[c])
      /\ run[c].pc = "step" /\ run[c].bucket = Null /\ UNCHANGED <<row, writer, buckets>>
  BY DEF RunsInv, CheckPasses, storage
<1>2. /\ q \in Reconciliation /\ q.pc = "record" /\ q.outcome = "completed"
      /\ q.at = run[c].at /\ q.results = run[c].results
  BY <1>1 DEF Operated, Reconciliation
<1> HIDE DEF q
<1>3. run'[c] = q /\ BucketsGrow
  BY <1>1 DEF RunsInv, BucketsGrow
<1>4. Fits(run[c])'
  BY <1>1, <1>2, <1>3 DEF Fits
<1> QED BY <1>1, <1>2, <1>3, <1>4, RunGoesOn

LEMMA CreateBucketKeeps ==
    ASSUME RunsInv, NEW c \in Runs, CreateBucket(c) PROVE RunsInv'
<1> DEFINE q == AfterCreation(run[c], run[c].bucket \in buckets)
<1>1. /\ run[c] \in Reconciliation /\ run' = [run EXCEPT ![c] = q] /\ Fits(run[c])
      /\ run[c].pc = "step" /\ run[c].bucket \in Buckets /\ UNCHANGED <<row, writer>>
      /\ buckets \subseteq Buckets /\ buckets' = buckets \cup {run[c].bucket}
  BY DEF RunsInv, CreateBucket, Reconciliation
<1>2. /\ q \in Reconciliation /\ q.at = run[c].at /\ q.results = run[c].results
      /\ run[c].bucket = "avatars" => q.pc = "step" /\ q.bucket = "branding"
      /\ run[c].bucket = "branding" => q.pc = "record" /\ q.outcome = "completed"
  BY <1>1 DEF AfterCreation, Operated, Reconciliation, Buckets
<1> HIDE DEF q
<1>3. run'[c] = q /\ BucketsGrow
  BY <1>1 DEF RunsInv, BucketsGrow
<1>4. Fits(run[c])'
  BY <1>1, <1>2, <1>3, NoResultsTyped DEF Fits, Buckets
<1> QED BY <1>1, <1>2, <1>3, <1>4, RunGoesOn

LEMMA StepFailsKeeps ==
    ASSUME RunsInv, NEW c \in Runs, StepFails(c) PROVE RunsInv'
<1> DEFINE q == Operated(run[c], "failed")
<1>1. /\ run[c] \in Reconciliation /\ run' = [run EXCEPT ![c] = q] /\ Fits(run[c])
      /\ run[c].pc = "step" /\ UNCHANGED <<row, writer>> /\ BucketsGrow
  BY DEF RunsInv, StepFails, AfterError, Reconciliation, BucketsGrow
<1>2. /\ q \in Reconciliation /\ q.pc = "record" /\ q.outcome = "failed"
      /\ q.at = run[c].at /\ q.results = run[c].results
  BY <1>1 DEF Operated, Reconciliation
<1> HIDE DEF q
<1>3. run'[c] = q
  BY <1>1 DEF RunsInv
<1>4. Fits(run[c])'
  BY <1>1, <1>2, <1>3 DEF Fits
<1> QED BY <1>1, <1>2, <1>3, <1>4, RunGoesOn

\* What a reconciliation is when it has recorded a result.
LEMMA RecordedIs ==
    ASSUME RunsInv, NEW c \in Runs, run[c].pc = "record",
           NEW result \in {"completed", "failed", "unsaved"}
    PROVE  LET q == Recorded(run[c], result)
           IN  /\ q \in Reconciliation
               /\ q.results = [run[c].results EXCEPT ![Step(c)] = result]
               /\ q.pc # "record"
               /\ q.pc = "step" =>
                    /\ q.at \in 1..Len(Steps) /\ q.bucket # "branding"
                    /\ q.bucket # Null => q.at = Len(Steps)
                    /\ q.at = Len(Steps) => q.bucket # Null
               /\ Step(c) \in StepSet
<1> DEFINE e == [run[c] EXCEPT !.results[Steps[run[c].at]] = result, !.outcome = Null]
<1>1. run[c] \in Reconciliation /\ run[c].at \in 1..Len(Steps) /\ Step(c) \in StepSet
  BY StepsAre DEF RunsInv, Fits, Step
<1>2. e \in Reconciliation /\ e.results = [run[c].results EXCEPT ![Step(c)] = result]
  BY <1>1 DEF Reconciliation, Step
<1>3. run[c].at + 1 \in 1..(Len(Steps) + 1)
  BY <1>1, StepsAre
<1>4. Recorded(run[c], result) = AtStep(e, run[c].at + 1)
  BY DEF Recorded
<1> HIDE DEF e
<1> QED BY <1>1, <1>2, <1>3, <1>4, AtStepIs

\* The row of the step is written, or neither the row nor the writer.
LEMMA RecordKeeps ==
    ASSUME RunsInv, NEW c \in Runs, run[c].pc = "record",
           NEW result \in {"completed", "failed", "unsaved"},
           run' = [run EXCEPT ![c] = Recorded(@, result)], UNCHANGED buckets,
           \/ /\ row' = Upserted(Step(c), run[c].outcome)
              /\ writer' = [writer EXCEPT ![Step(c)] = c]
              /\ result \in {run[c].outcome, "unsaved"}
           \/ UNCHANGED <<row, writer>> /\ result = "unsaved"
    PROVE  RunsInv'
<1> DEFINE q == Recorded(run[c], result)
<1>1. /\ q \in Reconciliation
      /\ q.results = [run[c].results EXCEPT ![Step(c)] = result]
      /\ q.pc # "record"
      /\ q.pc = "step" =>
           /\ q.at \in 1..Len(Steps) /\ q.bucket # "branding"
           /\ q.bucket # Null => q.at = Len(Steps)
           /\ q.at = Len(Steps) => q.bucket # Null
      /\ Step(c) \in StepSet
  BY RecordedIs
<1>2. run' = [run EXCEPT ![c] = q]
  OBVIOUS
<1> HIDE DEF q
<1>3. /\ run' \in [Runs -> Reconciliation] /\ run'[c] = q
      /\ \A d \in Runs \ {c} : run'[d] = run[d] /\ run[c].results \in [StepSet ->
              {Null, "completed", "failed", "unsaved"}]
      /\ BucketsGrow
  BY <1>1, <1>2 DEF RunsInv, BucketsGrow, Reconciliation
<1>4. Fits(run[c])'
  BY <1>1, <1>3 DEF Fits
<1>5. \A d \in Runs : Fits(run[d])'
  BY <1>3, <1>4, FitsStays
<1>6. Fits(run[c]) /\ run[c].outcome \in {"completed", "failed"}
  BY DEF RunsInv, Fits
<1>7. /\ row' \in [StepSet -> {Null, "completed", "failed"}]
      /\ writer' \in [StepSet -> Runs \cup {Null}]
  BY <1>1, <1>6 DEF RunsInv, Upserted
<1>8. CompletedIsBuilt'
  <2>1. CASE UNCHANGED row
    BY <2>1 DEF RunsInv, CompletedIsBuilt
  <2>2. CASE row' = Upserted(Step(c), run[c].outcome)
    <3>1. \A s \in StepSet : row'[s] = IF s = Step(c) THEN run[c].outcome ELSE row[s]
      BY <2>2 DEF RunsInv, Upserted
    <3>2. Step(c) = "storage_buckets" => run[c].at = Len(Steps)
      BY <1>6, StepsAre DEF Step, Fits
    <3> QED BY <1>6, <3>1, <3>2, StepsAre DEF RunsInv, CompletedIsBuilt, Fits
  <2> QED BY <2>1, <2>2
<1>9. FailureIsWritten'
  <2> SUFFICES ASSUME NEW d \in Runs, NEW s \in StepSet,
                      run'[d].results[s] = "failed", writer'[s] = d
               PROVE  row'[s] = "failed"
    BY DEF FailureIsWritten
  <2>1. CASE s = Step(c) /\ writer'[s] = c /\ d = c
    BY <1>1, <1>3, <1>6, <2>1 DEF RunsInv, Upserted, Reconciliation
  <2>2. CASE s # Step(c) \/ d # c
    <3>1. run[d].results[s] = "failed"
      BY <1>1, <1>3, <2>2 DEF RunsInv, Reconciliation
    <3>2. writer[s] = d /\ row'[s] = row[s]
      BY <1>1, <2>2 DEF RunsInv, Upserted
    <3> QED BY <3>1, <3>2 DEF RunsInv, FailureIsWritten
  <2> QED BY <2>1, <2>2
<1> QED BY <1>3, <1>5, <1>7, <1>8, <1>9 DEF RunsInv, BucketsGrow

LEMMA RecordingKeeps ==
    ASSUME RunsInv, NEW c \in Runs, RecordStep(c) \/ RecordFails(c) PROVE RunsInv'
<1>1. run[c].pc = "record" /\ run[c].outcome \in {"completed", "failed"}
  BY DEF RecordStep, RecordFails, RunsInv, Fits
<1>2. CASE RecordStep(c)
  <2>1. /\ run' = [run EXCEPT ![c] = Recorded(@, run[c].outcome)] /\ UNCHANGED buckets
        /\ row' = Upserted(Step(c), run[c].outcome)
        /\ writer' = [writer EXCEPT ![Step(c)] = c]
    BY <1>2 DEF RecordStep, storage
  <2> QED BY <1>1, <2>1, RecordKeeps
<1>3. CASE RecordFails(c)
  <2>1. /\ run' = [run EXCEPT ![c] = Recorded(@, "unsaved")] /\ UNCHANGED buckets
        /\ \/ UNCHANGED <<row, writer>>
           \/ /\ row' = Upserted(Step(c), run[c].outcome)
              /\ writer' = [writer EXCEPT ![Step(c)] = c]
    BY <1>3 DEF RecordFails, storage
  <2> QED BY <1>1, <2>1, RecordKeeps
<1> QED BY <1>2, <1>3

LEMMA FinishKeeps ==
    ASSUME RunsInv, NEW c \in Runs, FinishRun(c) \/ FinishUnread(c) PROVE RunsInv'
<1>1. PICK b \in BOOLEAN : run' = [run EXCEPT ![c].pc = "idle", ![c].full = b]
  BY DEF FinishRun, FinishUnread
<1> DEFINE q == [run[c] EXCEPT !.pc = "idle", !.full = b]
<1>2. run[c] \in Reconciliation /\ run' = [run EXCEPT ![c] = q] /\ UNCHANGED <<row, writer, buckets>>
  BY <1>1 DEF FinishRun, FinishUnread, storage, RunsInv
<1>3. q \in Reconciliation /\ q.pc = "idle" /\ q.results = run[c].results
  BY <1>2 DEF Reconciliation
<1> HIDE DEF q
<1>4. run'[c] = q /\ BucketsGrow
  BY <1>2 DEF RunsInv, BucketsGrow
<1>5. Fits(run[c])'
  BY <1>3, <1>4 DEF Fits
<1> QED BY <1>2, <1>3, <1>4, <1>5, RunGoesOn

LEMMA RollbackKeeps == RunsInv /\ Rollback => RunsInv'
<1> SUFFICES ASSUME RunsInv, Rollback PROVE RunsInv'
  OBVIOUS
<1>1. row' = NoResults /\ writer' = NoResults /\ UNCHANGED <<buckets, run>>
  BY DEF Rollback, storage
<1>2. \A c \in Runs : Fits(run[c])'
  BY <1>1, FitsStays DEF BucketsGrow, RunsInv
<1>3. CompletedIsBuilt' /\ FailureIsWritten'
  BY <1>1, NoResultsTyped, StepsAre DEF CompletedIsBuilt, FailureIsWritten
<1> QED BY <1>1, <1>2, <1>3, NoResultsTyped DEF RunsInv

LEMMA RunsKeep ==
    ASSUME RunsInv, NEW c \in Runs,
           RunStep(c) \/ StepFails(c) \/ RecordFails(c) \/ FinishUnread(c)
    PROVE  RunsInv'
BY StartRunKeeps, CheckPassesKeeps, CreateBucketKeeps, StepFailsKeeps, RecordingKeeps,
   FinishKeeps DEF RunStep

(***************************************************************************)
(* Uploads.                                                                *)
(***************************************************************************)
LEMMA UploadsIdle ==
    ASSUME UploadsInv, UNCHANGED <<files, logo, up>>, faults' = 0 => faults = 0
    PROVE  UploadsInv'
BY DEF UploadsInv, LogoIsStored

LEMMA FaultCounts ==
    ASSUME BoundsInv, Fault PROVE faults' \in 0..MaxFaults /\ faults' # 0
BY StorageAssumption DEF BoundsInv, Fault

\* An upload goes on; images stay, and so do those the others stored.
LEMMA UploadGoesOn ==
    ASSUME UploadsInv, NEW u \in Uploads,
           NEW pc \in {"upload", "create", "persist", "readback", "done", "failed"}, Go(u, pc),
           files' \in {files, files \cup {u}},
           pc \in {"persist", "readback", "done"} => u \in files',
           logo' # logo => logo' = u /\ u \in files',
           faults' = 0 =>
             /\ faults = 0
             /\ logo' = u => pc \in {"readback", "done"}
    PROVE  UploadsInv'
<1>1. /\ up' \in [Uploads ->
             {"bucket", "create", "upload", "persist", "readback", "done", "failed"}]
      /\ up'[u] = pc /\ \A v \in Uploads \ {u} : up'[v] = up[v]
  BY DEF UploadsInv, Go
<1>2. files \subseteq files' /\ files' \subseteq Uploads
  BY DEF UploadsInv
<1>3. logo' \in Uploads \cup {Null} /\ LogoIsStored'
  BY <1>2 DEF UploadsInv, LogoIsStored
<1>4. \A v \in Uploads : up'[v] \in {"persist", "readback", "done"} => v \in files'
  BY <1>1, <1>2 DEF UploadsInv
<1>5. (faults' = 0 /\ logo' # Null) => up'[logo'] \in {"readback", "done"}
  <2> SUFFICES ASSUME faults' = 0, logo' # Null PROVE up'[logo'] \in {"readback", "done"}
    OBVIOUS
  <2>1. CASE logo' = u
    BY <1>1, <2>1
  <2>2. CASE logo' # u
    BY <1>1, <1>3, <2>2 DEF UploadsInv
  <2> QED BY <2>1, <2>2
<1> QED BY <1>1, <1>2, <1>3, <1>4, <1>5 DEF UploadsInv

LEMMA UploadStepKeeps ==
    ASSUME StorageInv, NEW u \in Uploads,
           FindBucket(u) \/ CreateForUpload(u) \/ UploadFile(u) \/ Persist(u) \/ ReadBack(u)
    PROVE  StorageInv'
<1> USE DEF StorageInv
<1>1. UNCHANGED <<row, run, writer, faults, rollbacks>> /\ BoundsInv'
  BY DEF FindBucket, CreateForUpload, UploadFile, Persist, ReadBack, BoundsInv
<1>2. BucketsGrow
  BY DEF FindBucket, CreateForUpload, UploadFile, Persist, ReadBack, storage, BucketsGrow,
         RunsInv, Buckets
<1>3. RunsInv'
  BY <1>1, <1>2, RunsIdle
<1>4. logo # u \/ up[u] \in {"readback", "done"} \/ faults # 0
  BY NoResultsTyped DEF UploadsInv
<1>5. UploadsInv'
  <2>1. CASE FindBucket(u) \/ CreateForUpload(u)
    <3>1. PICK pc \in {"create", "upload", "failed"} : Go(u, pc)
      BY <2>1 DEF FindBucket, CreateForUpload
    <3>2. /\ UNCHANGED <<files, logo>> /\ up[u] \in {"bucket", "create"}
      BY <2>1 DEF FindBucket, CreateForUpload, storage
    <3> QED BY <1>1, <1>4, <3>1, <3>2, UploadGoesOn
  <2>2. CASE UploadFile(u)
    <3>1. /\ Go(u, "persist") /\ files' = files \cup {u} /\ UNCHANGED logo /\ up[u] = "upload"
      BY <2>2 DEF UploadFile
    <3> QED BY <1>1, <1>4, <3>1, UploadGoesOn
  <2>3. CASE Persist(u)
    <3>1. /\ Go(u, "readback") /\ logo' = u /\ UNCHANGED files /\ u \in files
      BY <2>3 DEF Persist, UploadsInv
    <3> QED BY <1>1, <3>1, UploadGoesOn
  <2>4. CASE ReadBack(u)
    <3>1. /\ UNCHANGED <<files, logo>> /\ u \in files
          /\ Go(u, IF logo = u THEN "done" ELSE "failed")
      BY <2>4 DEF ReadBack, Confirmed, storage, UploadsInv
    <3>2. CASE logo = u
      BY <1>1, <3>1, <3>2, UploadGoesOn
    <3>3. CASE logo # u
      BY <1>1, <3>1, <3>3, UploadGoesOn
    <3> QED BY <3>2, <3>3
  <2> QED BY <2>1, <2>2, <2>3, <2>4
<1> QED BY <1>1, <1>3, <1>5

LEMMA UploadFailsKeeps ==
    ASSUME StorageInv, NEW u \in Uploads, UploadFails(u) PROVE StorageInv'
<1> USE DEF StorageInv
<1>1. /\ UNCHANGED <<row, run, writer, rollbacks>> /\ Fault /\ Go(u, "failed")
      /\ buckets' \in {buckets, buckets \cup {"branding"}}
      /\ files' \in {files, files \cup {u}} /\ (up[u] # "upload" => files' = files)
      /\ logo' \in {logo, u} /\ (logo' # logo => up[u] = "persist")
  BY DEF UploadFails, GiveUp
<1>2. faults' \in 0..MaxFaults /\ faults' # 0
  BY <1>1, FaultCounts
<1>3. BoundsInv'
  BY <1>1, <1>2 DEF BoundsInv
<1>4. BucketsGrow
  BY <1>1 DEF BucketsGrow, RunsInv, Buckets
<1>5. RunsInv'
  BY <1>1, <1>4, RunsIdle
<1>6. logo' # logo => logo' = u /\ u \in files'
  BY <1>1 DEF UploadsInv
<1>7. UploadsInv'
  BY <1>1, <1>2, <1>6, UploadGoesOn
<1> QED BY <1>3, <1>5, <1>7

(***************************************************************************)
(* The invariant, and what it says.                                        *)
(***************************************************************************)
LEMMA RunStepKeeps ==
    ASSUME StorageInv, NEW c \in Runs,
           RunStep(c) \/ StepFails(c) \/ RecordFails(c) \/ FinishUnread(c)
    PROVE  StorageInv'
<1> USE DEF StorageInv
<1>1. RunsInv'
  BY RunsKeep
<1>2. /\ UNCHANGED <<files, logo, up, rollbacks>>
      /\ faults' \in 0..MaxFaults /\ (faults' = 0 => faults = 0)
  <2>1. CASE RunStep(c)
    BY <2>1 DEF RunStep, StartRun, CheckPasses, CreateBucket, RecordStep, FinishRun, storage,
                BoundsInv
  <2>2. CASE StepFails(c) \/ RecordFails(c) \/ FinishUnread(c)
    BY <2>2, FaultCounts DEF StepFails, RecordFails, FinishUnread, storage
  <2> QED BY <2>1, <2>2
<1>3. UploadsInv' /\ BoundsInv'
  BY <1>2, UploadsIdle DEF BoundsInv
<1> QED BY <1>1, <1>3

LEMMA StorageInvStep == StorageInv /\ [StorageNext]_storageVars => StorageInv'
<1> SUFFICES ASSUME StorageInv, [StorageNext]_storageVars PROVE StorageInv'
  OBVIOUS
<1>1. CASE Rollback
  <2>1. /\ UNCHANGED <<files, logo, up, faults>> /\ rollbacks' \in 0..MaxRollbacks
    BY <1>1, StorageAssumption DEF Rollback, storage, StorageInv, BoundsInv
  <2> QED BY <1>1, <2>1, RollbackKeeps, UploadsIdle DEF StorageInv, BoundsInv
<1>2. CASE UNCHANGED storageVars
  <2>1. UNCHANGED <<row, run, writer, buckets, files, logo, up, faults, rollbacks>>
    BY <1>2 DEF storageVars, storage
  <2>2. RunsInv'
    BY <2>1, RunsIdle DEF StorageInv, BucketsGrow, RunsInv
  <2> QED BY <2>1, <2>2, UploadsIdle DEF StorageInv, BoundsInv
<1> QED BY <1>1, <1>2, RunStepKeeps, UploadStepKeeps, UploadFailsKeeps DEF StorageNext

LEMMA StorageInvAlways == StorageSpec => []StorageInv
<1> QED BY StorageInvInit, StorageInvStep, PTL DEF StorageSpec

\* What the rows call completed was built, and the sign-in page refers to
\* stored images only, for any steps of the provisioning, however many
\* reconciliations, uploads and rollbacks overlap and however many calls fail.
THEOREM RecordsAreTrue == StorageSpec => []StorageInvariant
<1>1. StorageInv => StorageInvariant
  BY DEF StorageInv, RunsInv, UploadsInv, BoundsInv, StorageInvariant, StorageTypeOK
<1> QED BY <1>1, StorageInvAlways, PTL

\* As long as no call failed, the image that is shown when all uploads are over
\* is one whose upload was reported as done, for any number of uploads.
THEOREM ShownIsDone == StorageSpec => []FailedIsNotShown
<1>1. StorageInv => FailedIsNotShown
  <2> SUFFICES ASSUME StorageInv, faults = 0, logo # Null,
                      \A u \in Uploads : up[u] \in {"done", "failed"}
               PROVE  up[logo] = "done"
    BY DEF FailedIsNotShown
  <2> QED BY DEF StorageInv, UploadsInv
<1> QED BY <1>1, StorageInvAlways, PTL

\* Only the end of a reconciliation makes it report, and only from the rows.
LEMMA OnlyTheEndReports ==
    ASSUME RunsInv, NEW c \in Runs, ~run[c].full, run'[c].full,
           RunStep(c) \/ StepFails(c) \/ RecordFails(c) \/ FinishUnread(c)
    PROVE  \A s \in StepSet : row[s] = "completed"
<1>1. /\ run \in [Runs -> Reconciliation] /\ run[c] \in Reconciliation
      /\ run[c].pc = "record" =>
           run[c].at \in 1..Len(Steps) /\ run[c].outcome \in {"completed", "failed"}
  BY DEF RunsInv, Fits
<1>2. ASSUME StartRun(c) PROVE FALSE
  <2> DEFINE e == [run[c] EXCEPT !.results = NoResults, !.full = FALSE]
  <2>1. e \in Reconciliation /\ e.full = FALSE
    BY <1>1, NoResultsTyped DEF Reconciliation
  <2>2. run'[c] = AtStep(e, 1)
    BY <1>1, <1>2 DEF StartRun
  <2> HIDE DEF e
  <2> QED BY <2>1, <2>2, AtStepIs, StepsAre
<1>3. ASSUME CheckPasses(c) \/ CreateBucket(c) \/ StepFails(c) PROVE FALSE
  <2>1. \/ \E o \in {"completed", "failed"} : run'[c] = Operated(run[c], o)
        \/ run'[c] = [run[c] EXCEPT !.bucket = "branding"]
    BY <1>1, <1>3 DEF CheckPasses, CreateBucket, StepFails, AfterCreation, AfterError
  <2>2. CASE \E o \in {"completed", "failed"} : run'[c] = Operated(run[c], o)
    <3>1. PICK o \in {"completed", "failed"} : run'[c] = Operated(run[c], o)
      BY <2>2
    <3>2. Operated(run[c], o).full = run[c].full
      BY <1>1 DEF Operated, Reconciliation
    <3> QED BY <3>1, <3>2
  <2>3. CASE run'[c] = [run[c] EXCEPT !.bucket = "branding"]
    BY <1>1, <2>3 DEF Reconciliation
  <2> QED BY <2>1, <2>2, <2>3
<1>4. ASSUME RecordStep(c) \/ RecordFails(c) PROVE FALSE
  <2>1. PICK result \in {"completed", "failed", "unsaved"} :
          run'[c] = Recorded(run[c], result)
    BY <1>1, <1>4 DEF RecordStep, RecordFails
  <2> DEFINE e == [run[c] EXCEPT !.results[Steps[run[c].at]] = result, !.outcome = Null]
  <2>2. /\ run[c].at \in 1..Len(Steps) /\ run[c].at + 1 \in 1..(Len(Steps) + 1)
        /\ Steps[run[c].at] \in StepSet
    BY <1>1, <1>4, StepsAre DEF RecordStep, RecordFails
  <2>3. e \in Reconciliation /\ e.full = run[c].full
    BY <1>1, <2>2 DEF Reconciliation
  <2>4. run'[c] = AtStep(e, run[c].at + 1)
    BY <2>1 DEF Recorded
  <2> HIDE DEF e
  <2> QED BY <2>2, <2>3, <2>4, AtStepIs
<1>5. ASSUME FinishUnread(c) PROVE FALSE
  BY <1>1, <1>5 DEF FinishUnread, Reconciliation
<1>6. ASSUME FinishRun(c) PROVE \A s \in StepSet : row[s] = "completed"
  BY <1>1, <1>6 DEF FinishRun, Reconciliation
<1> QED BY <1>2, <1>3, <1>4, <1>5, <1>6 DEF RunStep

\* A reconciliation never reports as fully provisioned a project one of whose
\* steps it saw fail and recorded itself, whatever others record meanwhile.
THEOREM FailuresShow == StorageSpec => OwnFailureShows
<1>1. StorageInv /\ [StorageNext]_storageVars =>
        [\A c \in Runs, s \in StepSet :
            ~run[c].full /\ run'[c].full /\ run[c].results[s] = "failed"
            => writer[s] # c]_storageVars
  <2> SUFFICES ASSUME StorageInv, StorageNext, NEW c \in Runs, NEW s \in StepSet,
                      ~run[c].full, run'[c].full, run[c].results[s] = "failed",
                      writer[s] = c
               PROVE  FALSE
    BY DEF storageVars
  <2>1. row[s] = "failed"
    BY DEF StorageInv, RunsInv, FailureIsWritten
  <2>2. PICK d \in Runs : RunStep(d) \/ StepFails(d) \/ RecordFails(d) \/ FinishUnread(d)
    BY DEF StorageNext, FindBucket, CreateForUpload, UploadFile, Persist, ReadBack,
           UploadFails, Rollback
  <2>3. PICK q : run' = [run EXCEPT ![d] = q]
    BY <2>2 DEF RunStep, StartRun, CheckPasses, CreateBucket, StepFails, RecordStep,
                RecordFails, FinishRun, FinishUnread
  <2>4. d = c
    BY <2>3 DEF StorageInv, RunsInv
  <2> QED BY <2>1, <2>2, <2>4, OnlyTheEndReports DEF StorageInv
<1> QED BY <1>1, StorageInvAlways, PTL DEF StorageSpec, OwnFailureShows
=============================================================================
