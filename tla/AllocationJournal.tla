-------------------------- MODULE AllocationJournal --------------------------
(***************************************************************************)
(* The allocation of a platform project for one run of the contract        *)
(* acceptance: scripts/real-contract-allocation.ts, with the allocate and  *)
(* bind commands of scripts/real-contract-deploy.ts.                       *)
(*                                                                         *)
(* A project is created by one POST whose outcome may stay unknown.  A     *)
(* directory of files, each written once and never changed, records how    *)
(* far the run has come, so that no crash, second process or power failure *)
(* makes it send the POST again, and so that the project created can be    *)
(* found and bound afterwards.                                             *)
(*                                                                         *)
(* The model starts with the directory and intent.json in place, and       *)
(* leaves out the permission checks of each access.                        *)
(***************************************************************************)
EXTENDS Naturals, FiniteSets

CONSTANTS
    Processes,  \* processes that have the journal open
    Projects,   \* projects a POST of this run may create
    MaxFaults,  \* bound: crashes, power failures, failed writes, lost answers
    MaxOthers,  \* bound: changes of the platform's list by other runs
    Absent, Torn, Null

Names == {"started", "receipt", "unknown", "reconciliation", "bound"}

\* What a reconciliation records of the platform's list, and what a binding says.
Inventories == [ours : SUBSET Projects, others : 0..MaxOthers]
Bindings == [project : Projects, source : {"receipt", "reconciled"}]

ASSUME AllocationAssumption ==
    /\ MaxFaults \in Nat /\ MaxOthers \in Nat
    /\ IsFiniteSet(Projects) /\ {Absent, Torn, Null} \cap Projects = {}
    /\ Absent # Torn
    /\ \A x \in {Absent, Torn} : x # "written" /\ x \notin Inventories \cup Bindings

VARIABLES
    files,    \* files[f]: what a process that opens f finds
    durable,  \* the files whose names are on the disk
    work,     \* work[r]: the operation process r is in
    sent,     \* POSTs sent
    adrift,   \* POSTs nobody waits for any more, still to be performed or not
    created,  \* the projects that carry the name of the run
    others,   \* counts the other runs' changes of the platform's list
    ready,    \* the created project is ACTIVE_HEALTHY, with its authority
    reported, \* an operation has returned a bound allocation
    faults    \* faults so far

platform == <<adrift, created, others, ready>>
journalVars == <<files, durable, work, sent, platform, reported, faults>>

NoEvidence == [ours |-> {}, others |-> 0, ready |-> FALSE]
Idle == [pc |-> "idle", file |-> Null, value |-> Null, evidence |-> NoEvidence, made |-> Null]

JournalInit ==
    /\ files = [f \in Names |-> Absent]
    /\ durable = {}
    /\ work = [r \in Processes |-> Idle]
    /\ sent = 0 /\ adrift = 0 /\ created = {} /\ others = 0 /\ ready = FALSE
    /\ reported = FALSE
    /\ faults = 0

Fault == faults < MaxFaults /\ faults' = faults + 1
Complete(f) == files[f] \notin {Absent, Torn}
Become(r, w) == work' = [work EXCEPT ![r] = w]

\* r goes on to create file f with content v.
Writing(r, f, v) == [work[r] EXCEPT !.pc = "open", !.file = f, !.value = v]

---------------------------------------------------------------------------
(* writeNew: create the file exclusively, write and flush its content,     *)
(* flush the directory.                                                    *)

Inventory(evidence) == [ours |-> evidence.ours, others |-> evidence.others]
TheProject(evidence) == CHOOSE p \in evidence.ours : TRUE

BoundReconciled(r) ==
    Writing(r, "bound", [project |-> TheProject(work[r].evidence), source |-> "reconciled"])

\* Wrong: the binding is left for another call once the evidence is recorded.
EvidenceOnly(r) ==
    IF work[r].file = "started" THEN [work[r] EXCEPT !.pc = "send"] ELSE Idle

\* What r does when its file is written, and when it could not be written.
AfterWrite(r) ==
    CASE work[r].file = "started"        -> [work[r] EXCEPT !.pc = "send"]
      [] work[r].file = "reconciliation" -> BoundReconciled(r)
      [] OTHER                           -> Idle
AfterFailure(r) ==
    IF work[r].file = "receipt" THEN Writing(r, "unknown", "written") ELSE Idle

\* Wrong: a file left over from a failed attempt is written over.
OpenOrOverwrite(r) ==
    /\ work[r].pc = "open"
    /\ files' = [files EXCEPT ![work[r].file] = Torn]
    /\ Become(r, [work[r] EXCEPT !.pc = "fill"])
    /\ UNCHANGED <<durable, sent, platform, reported, faults>>

OpenFile(r) ==
    /\ work[r].pc = "open"
    /\ \/ /\ files[work[r].file] = Absent
          /\ files' = [files EXCEPT ![work[r].file] = Torn]
          /\ Become(r, [work[r] EXCEPT !.pc = "fill"])
       \/ /\ files[work[r].file] # Absent   \* EEXIST
          /\ Become(r, AfterFailure(r))
          /\ UNCHANGED files
    /\ UNCHANGED <<durable, sent, platform, reported, faults>>

FillFile(r) ==
    /\ work[r].pc = "fill"
    /\ files' = [files EXCEPT ![work[r].file] = work[r].value]
    /\ Become(r, [work[r] EXCEPT !.pc = "sync"])
    /\ UNCHANGED <<durable, sent, platform, reported, faults>>

\* Wrong: the directory is not flushed.
FileOnly(r) ==
    /\ work[r].pc = "sync"
    /\ reported' = (reported \/ work[r].file = "bound")
    /\ Become(r, AfterWrite(r))
    /\ UNCHANGED <<files, durable, sent, platform, faults>>

\* Every name in the directory is on the disk then, not only that of the file.
SyncDirectory(r) ==
    /\ work[r].pc = "sync"
    /\ durable' = {f \in Names : files[f] # Absent}
    /\ reported' = (reported \/ work[r].file = "bound")
    /\ Become(r, AfterWrite(r))
    /\ UNCHANGED <<files, sent, platform, faults>>

\* Any of the calls fails; what was written stays.
WriteFails(r) ==
    /\ work[r].pc \in {"open", "fill", "sync"}
    /\ Fault
    /\ Become(r, AfterFailure(r))
    /\ UNCHANGED <<files, durable, sent, platform, reported>>

---------------------------------------------------------------------------
(* createOnce. *)

CreateOnce(r) ==
    /\ work[r].pc = "idle"
    /\ Become(r, Writing(r, "started", "written"))
    /\ UNCHANGED <<files, durable, sent, platform, reported, faults>>

Send(r) ==
    /\ work[r].pc = "send"
    /\ sent' = sent + 1
    /\ Become(r, [work[r] EXCEPT !.pc = "wait"])
    /\ UNCHANGED <<files, durable, platform, reported, faults>>

\* The platform performs the POST r waits for.
Perform(r) ==
    /\ work[r].pc = "wait" /\ work[r].made = Null
    /\ \E p \in Projects \ created :
        /\ created' = created \cup {p}
        /\ Become(r, [work[r] EXCEPT !.made = p])
    /\ UNCHANGED <<files, durable, sent, adrift, others, ready, reported, faults>>

\* Wrong: the platform's reply is stored as it came, credentials and all.
RawReply(p) == [project |-> p, credentials |-> TRUE]

\* projectProjection keeps what identifies the project.
Projection(p) == p

Receive(r) ==
    /\ work[r].pc = "wait" /\ work[r].made # Null
    /\ Become(r, Writing(r, "receipt", Projection(work[r].made)))
    /\ UNCHANGED <<files, durable, sent, platform, reported, faults>>

\* The POST is refused, its answer is lost or malformed, or 60 seconds pass:
\* the outcome is recorded as unknown, and the POST may still be performed.
OutcomeUnknown(r) ==
    /\ work[r].pc = "wait"
    /\ Fault
    /\ adrift' \in (IF work[r].made = Null THEN {adrift, adrift + 1} ELSE {adrift})
    /\ Become(r, Writing(r, "unknown", "written"))
    /\ UNCHANGED <<files, durable, sent, created, others, ready, reported>>

---------------------------------------------------------------------------
(* bind and reconcile: the operator reads the platform, then the journal   *)
(* is asked to record what was found.                                      *)

Gather(r, op) ==
    /\ work[r].pc = "idle"
    /\ Become(r, [Idle EXCEPT !.pc = op,
            !.evidence = [ours |-> created, others |-> others, ready |-> ready]])
    /\ UNCHANGED <<files, durable, sent, platform, reported, faults>>

\* Among the projects listed exactly one has the name of the run, and it is
\* read back in order.
OneReadyProject(evidence) == Cardinality(evidence.ours) = 1 /\ evidence.ready

Bind(r) ==
    LET e == work[r].evidence
        bound == [project |-> files["receipt"], source |-> "receipt"]
    IN  /\ work[r].pc = "bind"
        /\ \/ /\ Complete("started") /\ Complete("receipt")
              /\ OneReadyProject(e) /\ e.ours = {files["receipt"]}
              /\ Become(r, Writing(r, "bound", bound))
           \/ /\ ~(/\ Complete("started") /\ Complete("receipt")
                   /\ OneReadyProject(e) /\ e.ours = {files["receipt"]})
              /\ Become(r, Idle)
        /\ UNCHANGED <<files, durable, sent, platform, reported, faults>>

\* Wrong: only what was acknowledged can be reconciled.
ReceiptNeeded(e) == files["receipt"] = TheProject(e)

\* A receipt need not exist; one that does must name the same project.
ReceiptAllows(e) == files["receipt"] \in {Absent, TheProject(e)}

\* recordBound: everything is validated before the evidence is recorded.
MayRecord(e) == Complete("started") /\ OneReadyProject(e) /\ ReceiptAllows(e)

Reconcile(r) ==
    LET e == work[r].evidence IN
    /\ work[r].pc = "reconcile"
    /\ Become(r,
        IF ~MayRecord(e) THEN Idle
        ELSE IF files["reconciliation"] = Absent
        THEN Writing(r, "reconciliation", Inventory(e))
        ELSE IF files["reconciliation"] = Inventory(e) THEN BoundReconciled(r)
        ELSE Idle)
    /\ UNCHANGED <<files, durable, sent, platform, reported, faults>>

---------------------------------------------------------------------------
(* The platform, and failures. *)

PerformLate ==
    /\ adrift > 0 /\ adrift' = adrift - 1
    /\ \/ \E p \in Projects \ created : created' = created \cup {p}
       \/ UNCHANGED created
    /\ UNCHANGED <<files, durable, work, sent, others, ready, reported, faults>>

BecomeReady ==
    /\ created # {} /\ ~ready /\ ready' = TRUE
    /\ UNCHANGED <<files, durable, work, sent, adrift, created, others, reported, faults>>

OtherRun ==
    /\ others < MaxOthers /\ others' = others + 1
    /\ UNCHANGED <<files, durable, work, sent, adrift, created, ready, reported, faults>>

Unanswered(rs) == Cardinality({r \in rs : work[r].pc = "wait" /\ work[r].made = Null})

Crash(r) ==
    /\ work[r].pc # "idle"
    /\ Fault
    /\ adrift' = adrift + Unanswered({r})
    /\ Become(r, Idle)
    /\ UNCHANGED <<files, durable, sent, created, others, ready, reported>>

\* All processes die, and of the files whose names were not flushed some go.
PowerFails ==
    /\ Fault
    /\ adrift' = adrift + Unanswered(Processes)
    /\ work' = [r \in Processes |-> Idle]
    /\ \E lost \in SUBSET (Names \ durable) :
        files' = [f \in Names |-> IF f \in lost THEN Absent ELSE files[f]]
    /\ durable' = {f \in Names : files'[f] # Absent}
    /\ UNCHANGED <<sent, created, others, ready, reported>>

---------------------------------------------------------------------------

Steps(r) ==
    \/ CreateOnce(r) \/ Gather(r, "bind") \/ Gather(r, "reconcile")
    \/ OpenFile(r) \/ FillFile(r) \/ SyncDirectory(r)
    \/ Send(r) \/ Perform(r) \/ Receive(r) \/ Bind(r) \/ Reconcile(r)

JournalNext ==
    \/ \E r \in Processes : Steps(r) \/ WriteFails(r) \/ OutcomeUnknown(r) \/ Crash(r)
    \/ PerformLate \/ BecomeReady \/ OtherRun \/ PowerFails

JournalSpec == JournalInit /\ [][JournalNext]_journalVars

\* A process goes on with what it has begun, the platform with what it was
\* asked, and the operator tries the reconciliation again and again.
JournalFairSpec ==
    /\ JournalSpec
    /\ \A r \in Processes : WF_journalVars(Steps(r)) /\ SF_journalVars(Gather(r, "reconcile"))
    /\ WF_journalVars(BecomeReady)

---------------------------------------------------------------------------

\* loadAllocationProof: the project the files prove to be that of the run.
Proof ==
    IF /\ Complete("started") /\ Complete("bound")
       /\ \/ /\ files["bound"].source = "receipt"
             /\ files["receipt"] = files["bound"].project
          \/ /\ files["bound"].source = "reconciled"
             /\ Complete("reconciliation") /\ files["reconciliation"].ours = {files["bound"].project}
             /\ files["receipt"] \in {Absent, files["bound"].project}
    THEN files["bound"].project
    ELSE Null

Evidence == [ours : SUBSET Projects, others : 0..MaxOthers, ready : BOOLEAN]
JournalTypeOK ==
    /\ files["started"] \in {Absent, Torn, "written"}
    /\ files["unknown"] \in {Absent, Torn, "written"}
    /\ files["receipt"] \in {Absent, Torn} \cup Projects
    /\ files["reconciliation"] \in {Absent, Torn} \cup Inventories
    /\ files["bound"] \in {Absent, Torn} \cup Bindings
    /\ durable \subseteq {f \in Names : files[f] # Absent}
    /\ sent \in Nat /\ adrift \in Nat /\ created \subseteq Projects /\ others \in 0..MaxOthers
    /\ ready \in BOOLEAN /\ reported \in BOOLEAN /\ faults \in 0..MaxFaults
    /\ \A r \in Processes :
        /\ work[r].pc \in {"idle", "open", "fill", "sync", "send", "wait", "bind", "reconcile"}
        /\ work[r].file \in Names \cup {Null} /\ work[r].made \in Projects \cup {Null}
        /\ work[r].evidence \in Evidence

\* The marker is the one chance to send: no crash, power failure, concurrent
\* or later process gets a second one.
SentAtMostOnce == sent <= 1

\* With the types, in every state.
JournalInvariant == JournalTypeOK /\ SentAtMostOnce

\* An allocation reported as bound is still proved by the files, whatever
\* process or machine dies after that; only the receipt of a POST that was
\* still answered meanwhile can spoil it, when it is left half written.
ReportedBindingSurvives ==
    reported /\ files["receipt"] # Torn => Proof # Null

\* The journal has come to a state no operation can complete any more: a file
\* is half written; the evidence of a reconciliation is there without the
\* binding, and binds only while the platform's list stays as it was; or a
\* power failure took the receipt that a binding refers to.
Stuck ==
    \/ \E f \in Names : files[f] = Torn
    \/ Complete("reconciliation") /\ files["bound"] = Absent
    \/ Complete("bound") /\ Proof = Null

\* Only a failure leads there: concurrent operations, projects that are not
\* ready yet and evidence gathered too early do not.
StuckOnlyByFailure ==
    (faults = 0 /\ \A r \in Processes : work[r].pc = "idle") => ~Stuck

\* A project that was created is bound in the end, the answer of its POST
\* received or not, unless the journal is stuck for good.
CreatedIsBound ==
    (created # {}) ~> (Proof # Null \/ []Stuck)
=============================================================================
