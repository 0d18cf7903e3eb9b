------------------------- MODULE EmployeeStatusSync -------------------------
(***************************************************************************)
(* Employee status synchronisation:                                        *)
(* packages/auth-server/src/sync/employee-status.ts.                       *)
(*                                                                         *)
(* A sync request (syncEmployeeStatuses) writes the status it was sent to  *)
(* the provisioning record and then suspends or reactivates the user in    *)
(* GoTrue.  The reconcile job (reconcileAllEmployeeStatuses) pages through *)
(* the records and brings GoTrue's users in line with them.  An import     *)
(* (routes/account-provisioning.ts, postImport) changes one side only: the *)
(* record if it says that the employee is active, the user if not.         *)
(* Nothing keeps the three from overlapping.  A batch of several records   *)
(* is a sequence of sync requests: the code carries nothing from one       *)
(* record to the next.                                                     *)
(***************************************************************************)
EXTENDS Naturals, FiniteSets, SequencesExt

CONSTANTS
    Employees,    \* the provisioning records of the external type
    Linked,       \* those with a user_id
    SyncStatuses, \* values of source_status
    Active,       \* those of ACTIVE_STATUSES
    Syncs,        \* clients that send sync requests
    Jobs,         \* schedulers that start the reconcile job
    BatchSize,    \* batchSize, as the request or the default sets it
    PageLimit,    \* the 1000 rows to which listRecordsForSync limits a page
    MaxChanges,   \* bound on the statuses that are sent and imported
    MaxFailures   \* bound on failures, crashes and what others do to users

ASSUME SyncAssumption ==
    /\ Linked \subseteq Employees /\ IsFiniteSet(Employees)
    /\ Active \subseteq SyncStatuses
    /\ Syncs \cap Jobs = {}
    /\ BatchSize \in Nat \ {0} /\ PageLimit \in Nat \ {0}
    /\ MaxChanges \in Nat /\ MaxFailures \in Nat

VARIABLES
    status,     \* status[e]: source_status of the record of e
    order,      \* the order in which the table's rows are scanned
    banned,     \* the employees whose user GoTrue holds suspended
    sync,       \* sync[s]: the record the request of s is at
    job,        \* job[j]: the pass of the reconcile job
    excused,    \* employees whose last sync did not, or was told not to, call
                \* GoTrue, or whose user or record others changed since
    changes, failures

syncVars == <<status, order, banned, sync, job, excused, changes, failures>>

SyncRequest == [pc : {"update", "call"}, emp : Employees, new : SyncStatuses,
                was : SyncStatuses, suspend : BOOLEAN, reactivate : BOOLEAN]
NoSync == [pc |-> "idle"]

Page == Seq([emp : Employees, status : SyncStatuses])
Pass == [pc : {"idle", "list", "check", "suspend", "unsuspend", "done"},
         page : Page, offset : Nat, full : BOOLEAN]
NoPass == [pc |-> "idle", page |-> <<>>, offset |-> 0, full |-> FALSE]

SyncInit ==
    /\ \E active \in Active : status = [e \in Employees |-> active]
    /\ order \in SetToSeqs(Employees)
    /\ banned = {}
    /\ sync = [s \in Syncs |-> NoSync]
    /\ job = [j \in Jobs |-> NoPass]
    /\ excused = {}
    /\ changes = 0 /\ failures = 0

Failing == failures < MaxFailures /\ failures' = failures + 1

\* suspendUser and unsuspendUser, as GoTrue performs them.
Ban(e) == banned' = banned \cup {e}
Unban(e) == banned' = banned \ {e}

\* Whether a call that failed or was aborted was performed is not known.
PerformedOrNot(e, isActive) ==
    UNCHANGED banned \/ IF isActive THEN Unban(e) ELSE Ban(e)

---------------------------------------------------------------------------
(* A sync request. *)

\* The record is read; a status that does not change is counted and left.
ReadRecord(s, e, new, suspend, reactivate) ==
    /\ sync[s].pc = "idle"
    /\ changes < MaxChanges
    /\ status[e] # new
    /\ sync' = [sync EXCEPT ![s] = [pc |-> "update", emp |-> e, new |-> new,
                                    was |-> status[e], suspend |-> suspend,
                                    reactivate |-> reactivate]]
    /\ changes' = changes + 1
    /\ UNCHANGED <<status, order, banned, job, excused, failures>>

\* Wrong: whether the employee was active is asked of the updated record.
AskedTooLate(c) ==
    /\ c.emp \in Linked
    /\ \/ c.new \notin Active /\ c.new \in Active /\ c.suspend
       \/ c.new \in Active /\ c.new \notin Active /\ c.reactivate

\* Wrong: nobody looks whether the record has a user.
UnlinkedCalled(c) ==
    \/ c.new \notin Active /\ c.was \in Active /\ c.suspend
    \/ c.new \in Active /\ c.was \notin Active /\ c.reactivate

\* Whether the change is one GoTrue must hear of.
CallsGoTrue(c) ==
    /\ c.emp \in Linked
    /\ \/ c.new \notin Active /\ c.was \in Active /\ c.suspend
       \/ c.new \in Active /\ c.was \notin Active /\ c.reactivate

Before(rows, d, e) == \E i, k \in DOMAIN rows : i < k /\ rows[i] = d /\ rows[k] = e

\* An UPDATE of the row of e by its id, whatever the row holds by now.  Its new
\* version is stored, and scanned, anywhere; the other rows stay where they are.
WriteStatus(e, new) ==
    /\ status' = [status EXCEPT ![e] = new]
    /\ order' \in {rows \in SetToSeqs(Employees) :
                     \A c, d \in Employees \ {e} : Before(rows, c, d) <=> Before(order, c, d)}

\* updateRecordSourceStatus.
UpdateStatus(s) ==
    LET c == sync[s]
    IN  /\ c.pc = "update"
        /\ WriteStatus(c.emp, c.new)
        /\ sync' = [sync EXCEPT ![s] = IF CallsGoTrue(c) THEN [c EXCEPT !.pc = "call"]
                                       ELSE NoSync]
        /\ excused' = IF \/ c.new \notin Active /\ c.was \in Active /\ ~c.suspend
                         \/ c.new \in Active /\ c.was \notin Active /\ ~c.reactivate
                      THEN excused \cup {c.emp} ELSE excused
        /\ UNCHANGED <<banned, job, changes, failures>>

\* suspendUser or unsuspendUser.  An import may have changed the record since.
CallGoTrue(s) ==
    LET c == sync[s]
    IN  /\ c.pc = "call"
        /\ IF c.new \in Active THEN Unban(c.emp) ELSE Ban(c.emp)
        /\ sync' = [sync EXCEPT ![s] = NoSync]
        /\ excused' = IF status[c.emp] = c.new THEN excused \ {c.emp}
                      ELSE excused \cup {c.emp}
        /\ UNCHANGED <<status, order, job, changes, failures>>

\* The statement or the call throws, or the function dies.  The error is
\* reported; what was written stays written, so the next sync of the same
\* status finds it unchanged.
SyncFails(s) ==
    /\ sync[s].pc # "idle" /\ Failing
    /\ IF sync[s].pc = "call"
       THEN /\ PerformedOrNot(sync[s].emp, sync[s].new \in Active)
            /\ excused' = excused \cup {sync[s].emp}
       ELSE UNCHANGED <<banned, excused>>
    /\ sync' = [sync EXCEPT ![s] = NoSync]
    /\ UNCHANGED <<status, order, job, changes>>

---------------------------------------------------------------------------
(* The reconcile job. *)

StartPass(j) ==
    /\ job[j].pc \in {"idle", "done"}
    /\ job' = [job EXCEPT ![j] = [NoPass EXCEPT !.pc = "list"]]
    /\ UNCHANGED <<status, order, banned, sync, excused, changes, failures>>

\* Wrong: the job stops after its first page.
OnlyFirstPage(rows) == FALSE

MoreAfter(rows) == Len(rows) = BatchSize

\* listRecordsForSync: the rows of the scan after the first offset ones.
ListPage(j) ==
    LET limit == Min({BatchSize, PageLimit})
        rows == SubSeq(order, job[j].offset + 1, Min({job[j].offset + limit, Len(order)}))
    IN  /\ job[j].pc = "list"
        /\ job' = [job EXCEPT
             ![j].pc = IF rows = <<>> THEN "done" ELSE "check",
             ![j].page = [i \in DOMAIN rows |-> [emp |-> rows[i], status |-> status[rows[i]]]],
             ![j].full = MoreAfter(rows)]
        /\ UNCHANGED <<status, order, banned, sync, excused, changes, failures>>

\* The pass goes on to the next record, the next page or its end.
Advance(p) ==
    LET rest == Tail(p.page)
    IN  IF rest # <<>> THEN [p EXCEPT !.pc = "check", !.page = rest]
        ELSE IF p.full
        THEN [p EXCEPT !.pc = "list", !.page = rest, !.offset = @ + BatchSize]
        ELSE [p EXCEPT !.pc = "done", !.page = rest]

\* What the record read with the page and the user read now call for.
Needed(record) ==
    IF record.emp \notin Linked THEN "none"
    ELSE IF record.status \notin Active /\ record.emp \notin banned THEN "suspend"
    ELSE IF record.status \in Active /\ record.emp \in banned THEN "unsuspend"
    ELSE "none"

CheckRecord(j) ==
    /\ job[j].pc = "check"
    /\ LET needed == Needed(Head(job[j].page))
       IN  job' = [job EXCEPT ![j] = IF needed = "none" THEN Advance(job[j])
                                     ELSE [job[j] EXCEPT !.pc = needed]]
    /\ UNCHANGED <<status, order, banned, sync, excused, changes, failures>>

JobSuspends(j) ==
    /\ job[j].pc = "suspend"
    /\ Ban(Head(job[j].page).emp)
    /\ job' = [job EXCEPT ![j] = Advance(job[j])]
    /\ excused' = excused \cup {Head(job[j].page).emp}
    /\ UNCHANGED <<status, order, sync, changes, failures>>

JobReactivates(j) ==
    /\ job[j].pc = "unsuspend"
    /\ Unban(Head(job[j].page).emp)
    /\ job' = [job EXCEPT ![j] = Advance(job[j])]
    /\ excused' = excused \cup {Head(job[j].page).emp}
    /\ UNCHANGED <<status, order, sync, changes, failures>>

\* A call throws, and the pass goes on with the next record.
JobCallFails(j) ==
    /\ job[j].pc \in {"check", "suspend", "unsuspend"} /\ Failing
    /\ IF job[j].pc = "check" THEN UNCHANGED banned
       ELSE PerformedOrNot(Head(job[j].page).emp, job[j].pc = "unsuspend")
    /\ job' = [job EXCEPT ![j] = Advance(job[j])]
    /\ excused' = excused \cup {Head(job[j].page).emp}
    /\ UNCHANGED <<status, order, sync, changes>>

\* Listing a page throws, or the function dies.
PassAborts(j) ==
    /\ job[j].pc \notin {"idle", "done"} /\ Failing
    /\ job' = [job EXCEPT ![j] = NoPass]
    /\ UNCHANGED <<status, order, banned, sync, excused, changes>>

---------------------------------------------------------------------------
\* An administrator suspends or reactivates a user by hand.
AdminToggles(e) ==
    /\ e \in Linked /\ Failing
    /\ IF e \in banned THEN Unban(e) ELSE Ban(e)
    /\ excused' = excused \cup {e}
    /\ UNCHANGED <<status, order, sync, job, changes>>

(* An import of one record; what it does to passwords is AccountImport. *)

\* The record is active: upsertAccountProvisioningRecord writes its status, and
\* no call tells GoTrue, where a suspended user stays suspended.
ImportWritesStatus(e, new) ==
    /\ new \in Active /\ changes < MaxChanges
    /\ WriteStatus(e, new)
    /\ changes' = changes + 1
    /\ excused' = excused \cup {e}
    /\ UNCHANGED <<banned, sync, job, failures>>

\* The record is not active, and create_users is set: the user is suspended, and
\* the record keeps the status it has.
ImportSuspends(e) ==
    /\ e \in Linked /\ Failing
    /\ Ban(e)
    /\ excused' = excused \cup {e}
    /\ UNCHANGED <<status, order, sync, job, changes>>

---------------------------------------------------------------------------
SyncStep(s) ==
    \/ \E e \in Employees, new \in SyncStatuses, suspend, reactivate \in BOOLEAN :
         ReadRecord(s, e, new, suspend, reactivate)
    \/ UpdateStatus(s) \/ CallGoTrue(s) \/ SyncFails(s)

PassStep(j) ==
    \/ StartPass(j) \/ ListPage(j) \/ CheckRecord(j)
    \/ JobSuspends(j) \/ JobReactivates(j)

SyncNext ==
    \/ \E s \in Syncs : SyncStep(s)
    \/ \E j \in Jobs : PassStep(j) \/ JobCallFails(j) \/ PassAborts(j)
    \/ \E e \in Employees : AdminToggles(e) \/ ImportSuspends(e)
    \/ \E e \in Employees, new \in SyncStatuses : ImportWritesStatus(e, new)

SyncSpec == SyncInit /\ [][SyncNext]_syncVars

\* The scheduler starts the job again and again, and a pass that neither fails
\* nor dies runs to its end.
SyncFairSpec == SyncSpec /\ \A j \in Jobs : WF_syncVars(PassStep(j))
---------------------------------------------------------------------------
(* Properties. *)

Matches(e) == e \in banned <=> status[e] \notin Active

\* The type invariant.
SyncTypeOK ==
    /\ status \in [Employees -> SyncStatuses]
    /\ order \in SetToSeqs(Employees)
    /\ banned \subseteq Linked /\ excused \subseteq Employees
    /\ sync \in [Syncs -> {NoSync} \cup SyncRequest]
    /\ \A s \in Syncs : sync[s].pc = "call" => CallsGoTrue(sync[s])
    /\ job \in [Jobs -> Pass]
    /\ \A j \in Jobs : job[j].pc \in {"check", "suspend", "unsuspend"} =>
         /\ Len(job[j].page) \in 1..BatchSize
         /\ job[j].pc # "check" => Head(job[j].page).emp \in Linked
    /\ changes \in 0..MaxChanges /\ failures \in 0..MaxFailures

\* With one client: GoTrue and the records agree about everyone whose last
\* change was to reach GoTrue and did, and whom nobody else, imports included,
\* touched since, however the employee moved between active and several
\* inactive statuses; but for the one whom the request under way is to call
\* GoTrue about (syncEmployeeStatuses).
SequentialSyncMatches ==
    \A e \in Linked \ excused :
        Matches(e) \/ \E s \in Syncs : sync[s].pc = "call" /\ sync[s].emp = e

\* Both, in every state.
SyncInvariant == SyncTypeOK /\ SequentialSyncMatches

\* The reconcile job repairs what failed calls, crashed syncs, manual changes,
\* imports and races of syncs with the job left behind: once changes and failures stop,
\* users and records come to agree and go on agreeing.
ReconcileConverges == <>[](\A e \in Linked : Matches(e))
=============================================================================
