----------------------- MODULE AllocationJournalProofs -----------------------
(***************************************************************************)
(* The allocation journal, for any number of processes and projects, and   *)
(* however often processes die, the power fails, writes fail and answers   *)
(* are lost.                                                               *)
(***************************************************************************)
EXTENDS AllocationJournal, FiniteSetTheorems, TLAPS

(***************************************************************************)
(* The inductive invariant.                                                *)
(***************************************************************************)
Values == {"written", Null} \cup Projects \cup Inventories \cup Bindings
Works ==
    [pc : {"idle", "open", "fill", "sync", "send", "wait", "bind", "reconcile"},
     file : Names \cup {Null}, value : Values, evidence : Evidence, made : Projects \cup {Null}]

TypesOK ==
    /\ JournalTypeOK
    /\ files \in [Names -> {Absent, Torn} \cup Values]
    /\ work \in [Processes -> Works]

\* A file that a power failure does not take.
OnDisk(f) == f \in durable /\ Complete(f)

\* What a binding refers to is there.
Source(b) == IF b.source = "receipt" THEN "receipt" ELSE "reconciliation"
Proved(b) == b.project \in created /\ Complete("started") /\ Complete(Source(b))

\* The files name the project created.
FilesFit ==
    /\ Complete("receipt") => files["receipt"] \in created
    /\ Complete("reconciliation") => created # {} /\ files["reconciliation"].ours = created
    /\ Complete("bound") => files["bound"].project \in created

\* One POST makes one project, once: waited for, adrift or performed.
PostFits ==
    /\ sent \in {0, 1} /\ adrift \in {0, 1}
    /\ sent = 1 => OnDisk("started")
    /\ sent = 0 => created = {} /\ adrift = 0
    /\ adrift = 1 => created = {}
    /\ \A p, q \in created : p = q

Writes(r) == work[r].pc \in {"fill", "sync"}
Posting(r) == work[r].pc \in {"send", "wait"} \/ (Writes(r) /\ work[r].file = "started")

\* What is written is true when it is written.
ValueFits(w) ==
    /\ w.file \in Names
    /\ w.file \in {"started", "unknown"} => w.value = "written"
    /\ w.file = "receipt" => w.value \in created
    /\ w.file = "reconciliation" =>
         /\ w.value \in Inventories /\ w.value.ours = created /\ created # {}
         /\ w.evidence.ours = created /\ Complete("started")
    /\ w.file = "bound" => w.value \in Bindings /\ Proved(w.value)

WorkFits(r) ==
    /\ work[r].pc \in {"open", "fill", "sync"} => ValueFits(work[r])
    /\ work[r].pc = "fill" => files[work[r].file] = Torn
    /\ work[r].pc = "sync" => files[work[r].file] = work[r].value
    /\ work[r].pc = "send" => OnDisk("started")
    /\ Posting(r) => adrift = 0 /\ sent = IF work[r].pc = "wait" THEN 1 ELSE 0
    /\ work[r].pc = "wait" => created = {work[r].made} \ {Null}
    /\ work[r].evidence.ours \subseteq created
    /\ work[r].made \in created \cup {Null}

\* A file has one writer, and one process is on its way to the POST.
OneWriter ==
    \A r, q \in Processes : Writes(r) /\ Writes(q) /\ work[r].file = work[q].file => r = q
OnePoster == \A r, q \in Processes : Posting(r) /\ Posting(q) => r = q

ReportedFits ==
    reported => OnDisk("bound") /\ OnDisk("started") /\ OnDisk(Source(files["bound"]))

\* Without a failure, what looks unfinished is in some process's hands.
NothingStuck ==
    faults = 0 =>
      /\ \A f \in Names :
           files[f] = Torn => \E r \in Processes : work[r].pc = "fill" /\ work[r].file = f
      /\ Complete("reconciliation") /\ files["bound"] = Absent =>
           \E r \in Processes : \/ work[r].pc = "sync" /\ work[r].file = "reconciliation"
                                \/ work[r].pc = "open" /\ work[r].file = "bound"
      /\ Complete("bound") => Proved(files["bound"])

JournalInv ==
    /\ TypesOK /\ FilesFit /\ PostFits
    /\ \A r \in Processes : WorkFits(r)
    /\ OneWriter /\ OnePoster /\ ReportedFits /\ NothingStuck

(***************************************************************************)
(* Types.                                                                  *)
(***************************************************************************)
LEMMA Distinct ==
    /\ Absent # Torn /\ Absent \notin Projects /\ Torn \notin Projects /\ Null \notin Projects
    /\ Absent # "written" /\ Torn # "written"
    /\ Absent \notin Inventories /\ Torn \notin Inventories
    /\ Absent \notin Bindings /\ Torn \notin Bindings
BY AllocationAssumption

LEMMA IdleTyped ==
    Idle \in Works /\ Idle.pc = "idle" /\ Idle.evidence.ours = {} /\ Idle.made = Null
<1>1. NoEvidence \in Evidence
  BY AllocationAssumption DEF NoEvidence, Evidence
<1> QED BY <1>1 DEF Idle, NoEvidence, Works, Values, Names

LEMMA WorkTyped ==
    ASSUME TypesOK, NEW r \in Processes
    PROVE  /\ work[r] \in Works /\ work[r].evidence \in Evidence /\ work[r].value \in Values
           /\ work[r].made \in Projects \cup {Null}
BY DEF TypesOK, Works

LEMMA JournalInvInit == JournalInit => JournalInv
<1> SUFFICES ASSUME JournalInit PROVE JournalInv
  OBVIOUS
<1> USE Distinct, AllocationAssumption DEF JournalInit
<1>1. \A f \in Names : files[f] = Absent /\ ~Complete(f)
  BY DEF Complete
<1>2. \A r \in Processes : work[r] = Idle
  OBVIOUS
<1>3. work \in [Processes -> Works]
  BY IdleTyped
<1>4. JournalTypeOK
  <2>1. \A r \in Processes :
        /\ work[r].pc \in {"idle", "open", "fill", "sync", "send", "wait", "bind", "reconcile"}
        /\ work[r].file \in Names \cup {Null} /\ work[r].made \in Projects \cup {Null}
        /\ work[r].evidence \in Evidence
    BY <1>2, IdleTyped DEF Works
  <2>2. /\ files["started"] = Absent /\ files["unknown"] = Absent /\ files["receipt"] = Absent
        /\ files["reconciliation"] = Absent /\ files["bound"] = Absent
    BY <1>1 DEF Names
  <2>3. 0 \in Nat /\ 0 \in 0..MaxOthers /\ 0 \in 0..MaxFaults
    OBVIOUS
  <2> QED BY <2>1, <2>2, <2>3 DEF JournalTypeOK
<1>5. TypesOK
  BY <1>3, <1>4 DEF TypesOK
<1>6. \A r \in Processes : WorkFits(r)
  BY <1>2, IdleTyped DEF WorkFits, Posting, Writes
<1>7. FilesFit /\ PostFits
  BY <1>1 DEF FilesFit, PostFits, Names
<1>8. OneWriter /\ OnePoster /\ ReportedFits
  BY <1>2, IdleTyped DEF OneWriter, OnePoster, ReportedFits, Posting, Writes
<1>9. NothingStuck
  BY <1>1 DEF NothingStuck, Names
<1> QED BY <1>5, <1>6, <1>7, <1>8, <1>9 DEF JournalInv

(***************************************************************************)
(* What the other processes rely on while one takes a step.                *)
(***************************************************************************)
Grows ==
    /\ \A f \in Names : Complete(f) => files'[f] = files[f]
    /\ durable \subseteq durable'
    /\ created \subseteq created' /\ (created # {} => created' = created)

Undisturbed(q) ==
    /\ work'[q] = work[q]
    /\ Writes(q) => files'[work[q].file] = files[work[q].file]
    /\ Posting(q) => UNCHANGED <<sent, adrift, created>>

LEMMA CompleteStays ==
    ASSUME Grows, NEW f \in Names
    PROVE  (Complete(f) => Complete(f)') /\ (OnDisk(f) => OnDisk(f)')
BY DEF Grows, Complete, OnDisk

LEMMA ProvedStays ==
    ASSUME Grows, NEW b, Proved(b)
    PROVE  /\ b.project \in created' /\ Complete("started")'
           /\ files'[Source(b)] \notin {Absent, Torn}
<1>1. Source(b) \in Names /\ "started" \in Names
  BY DEF Source, Names
<1>2. Complete("started") /\ Complete(Source(b)) /\ b.project \in created
  BY DEF Proved
<1>3. files'[Source(b)] \notin {Absent, Torn}
  BY <1>1, <1>2 DEF Grows, Complete
<1> QED BY <1>1, <1>2, <1>3, CompleteStays DEF Grows

LEMMA OthersFit ==
    ASSUME JournalInv, NEW q \in Processes, Grows, Undisturbed(q) PROVE WorkFits(q)'
<1>1. WorkFits(q) /\ work'[q] = work[q]
  BY DEF JournalInv, Undisturbed
<1>2. work[q].pc \in {"open", "fill", "sync"} => ValueFits(work[q])'
  <2> SUFFICES ASSUME work[q].pc \in {"open", "fill", "sync"} PROVE ValueFits(work[q])'
    OBVIOUS
  <2>1. ValueFits(work[q])
    BY <1>1 DEF WorkFits
  <2>2. work[q].file = "reconciliation" => created' = created /\ Complete("started")'
    BY <2>1, CompleteStays DEF ValueFits, Grows, Names
  <2>3. work[q].file = "bound" =>
          /\ work[q].value.project \in created' /\ Complete("started")'
          /\ files'[Source(work[q].value)] \notin {Absent, Torn}
    BY <2>1, ProvedStays DEF ValueFits
  <2>4. (work[q].file = "bound" => work[q].value \in Bindings /\ Proved(work[q].value))'
    BY <1>1, <2>1, <2>3 DEF ValueFits, Proved, Source, Complete
  <2> QED BY <1>1, <2>1, <2>2, <2>4 DEF ValueFits, Grows
<1>3. OnDisk("started") => OnDisk("started")'
  BY CompleteStays DEF Names
<1>4. Posting(q)' = Posting(q)
  BY <1>1 DEF Posting, Writes
<1> QED BY <1>1, <1>2, <1>3, <1>4 DEF WorkFits, Undisturbed, Grows, Writes, Posting

\* A step of one process.
LEMMA ProcessKeeps ==
    ASSUME JournalInv, NEW r \in Processes, TypesOK', FilesFit', PostFits', Grows,
           \A q \in Processes \ {r} : Undisturbed(q), WorkFits(r)',
           Writes(r)' =>
             \A q \in Processes \ {r} : ~(Writes(q) /\ work[q].file = work'[r].file),
           Posting(r)' => \A q \in Processes \ {r} : ~Posting(q),
           ReportedFits', NothingStuck'
    PROVE  JournalInv'
<1>1. \A q \in Processes \ {r} : WorkFits(q)' /\ work'[q] = work[q]
  BY OthersFit DEF Undisturbed
<1>2. OneWriter'
  BY <1>1 DEF JournalInv, OneWriter, Writes
<1>3. OnePoster'
  BY <1>1 DEF JournalInv, OnePoster, Posting, Writes
<1> QED BY <1>1, <1>2, <1>3 DEF JournalInv

(***************************************************************************)
(* Steps that leave the journal alone.                                     *)
(***************************************************************************)
\* The platform as the types have it; a project once created is the only one.
PlatformEffect ==
    /\ sent' \in Nat /\ adrift' \in Nat /\ created' \subseteq Projects
    /\ others' \in 0..MaxOthers /\ ready' \in BOOLEAN /\ faults' \in 0..MaxFaults
    /\ created \subseteq created' /\ (created # {} => created' = created)
    /\ PostFits'

LEMMA JournalAlone ==
    ASSUME JournalInv, UNCHANGED <<files, durable, reported>>, PlatformEffect,
           work' \in [Processes -> Works]
    PROVE  TypesOK' /\ FilesFit' /\ Grows /\ ReportedFits'
<1>1. \A r \in Processes :
        /\ work'[r].pc \in {"idle", "open", "fill", "sync", "send", "wait", "bind", "reconcile"}
        /\ work'[r].file \in Names \cup {Null} /\ work'[r].made \in Projects \cup {Null}
        /\ work'[r].evidence \in Evidence
  BY DEF Works
<1>2. JournalTypeOK'
  BY <1>1, AllocationAssumption DEF JournalInv, TypesOK, JournalTypeOK, PlatformEffect
<1>3. TypesOK'
  BY <1>2 DEF JournalInv, TypesOK
<1>4. FilesFit'
  BY DEF JournalInv, FilesFit, Complete, PlatformEffect
<1>5. Grows
  BY DEF Grows, PlatformEffect
<1>6. ReportedFits'
  BY DEF JournalInv, ReportedFits, OnDisk, Complete, Source
<1> QED BY <1>3, <1>4, <1>5, <1>6

QuietEffect(r) ==
    /\ UNCHANGED <<files, durable, reported>> /\ PlatformEffect
    /\ work' \in [Processes -> Works] /\ \A q \in Processes \ {r} : work'[q] = work[q]
    /\ \A q \in Processes \ {r} : Posting(q) => UNCHANGED <<sent, adrift, created>>
    /\ faults' = 0 =>
         /\ faults = 0 /\ ~Writes(r)
         /\ work[r].pc = "open" => files[work[r].file] # Absent
    /\ WorkFits(r)' /\ ~Writes(r)'
    /\ Posting(r)' => \A q \in Processes \ {r} : ~Posting(q)

LEMMA QuietKeeps ==
    ASSUME JournalInv, NEW r \in Processes, QuietEffect(r) PROVE JournalInv'
<1>1. TypesOK' /\ FilesFit' /\ Grows /\ ReportedFits' /\ PostFits'
  BY JournalAlone DEF QuietEffect, PlatformEffect
<1>2. \A q \in Processes \ {r} : Undisturbed(q)
  BY DEF QuietEffect, Undisturbed
<1>3. NothingStuck'
  <2> SUFFICES ASSUME faults' = 0 PROVE NothingStuck'
    BY DEF NothingStuck
  <2>1. /\ NothingStuck /\ faults = 0 /\ ~Writes(r) /\ files' = files
        /\ work[r].pc = "open" => files[work[r].file] # Absent
        /\ \A q \in Processes \ {r} : work'[q] = work[q]
    BY DEF JournalInv, QuietEffect
  <2>2. ASSUME NEW f \in Names, files'[f] = Torn
        PROVE  \E q \in Processes : work'[q].pc = "fill" /\ work'[q].file = f
    <3>1. PICK q \in Processes : work[q].pc = "fill" /\ work[q].file = f
      BY <2>1, <2>2 DEF NothingStuck
    <3> QED BY <2>1, <3>1 DEF Writes
  <2>3. ASSUME Complete("reconciliation"), files["bound"] = Absent
        PROVE  \E q \in Processes : \/ work'[q].pc = "sync" /\ work'[q].file = "reconciliation"
                                    \/ work'[q].pc = "open" /\ work'[q].file = "bound"
    <3>1. PICK q \in Processes : \/ work[q].pc = "sync" /\ work[q].file = "reconciliation"
                                 \/ work[q].pc = "open" /\ work[q].file = "bound"
      BY <2>1, <2>3 DEF NothingStuck
    <3> QED BY <2>1, <2>3, <3>1 DEF Writes
  <2>4. Complete("bound") => Proved(files["bound"])'
    BY <2>1 DEF NothingStuck, Proved, Complete, Source, QuietEffect, PlatformEffect
  <2> QED BY <2>1, <2>2, <2>3, <2>4 DEF NothingStuck, Complete
<1> QED BY <1>1, <1>2, <1>3, ProcessKeeps DEF QuietEffect

\* A process goes on with something else, the platform is left alone.
LEMMA WorkKeeps ==
    ASSUME JournalInv, NEW r \in Processes, NEW w \in Works,
           w.pc \in {"idle", "open", "bind", "reconcile"},
           w.evidence.ours \subseteq created, w.made \in created \cup {Null},
           w.pc = "open" => ValueFits(w), Become(r, w),
           UNCHANGED <<files, durable, sent, platform, reported>>, faults' \in 0..MaxFaults,
           faults' = 0 =>
             /\ faults = 0 /\ ~Writes(r)
             /\ work[r].pc = "open" => files[work[r].file] # Absent
    PROVE  JournalInv'
<1>1. /\ work' \in [Processes -> Works] /\ work'[r] = w
      /\ \A q \in Processes \ {r} : work'[q] = work[q]
  BY DEF JournalInv, TypesOK, Become
<1>2. PlatformEffect
  BY DEF platform, PlatformEffect, JournalInv, TypesOK, JournalTypeOK, PostFits, OnDisk, Complete
<1>3. ~Writes(r)' /\ ~Posting(r)'
  BY <1>1 DEF Writes, Posting
<1>4. ValueFits(w) => ValueFits(work[r])'
  BY <1>1 DEF ValueFits, Proved, Complete, Source, platform
<1>5. WorkFits(r)'
  BY <1>1, <1>3, <1>4 DEF WorkFits, platform, Writes
<1>6. QuietEffect(r)
  BY <1>1, <1>2, <1>3, <1>5 DEF QuietEffect, platform
<1> QED BY <1>6, QuietKeeps

\* The record with which r goes on to create a file.
LEMMA WritingIs ==
    ASSUME JournalInv, NEW r \in Processes, NEW f \in Names, NEW v \in Values
    PROVE  /\ Writing(r, f, v) \in Works
           /\ Writing(r, f, v).pc = "open" /\ Writing(r, f, v).file = f
           /\ Writing(r, f, v).value = v /\ Writing(r, f, v).evidence = work[r].evidence
           /\ Writing(r, f, v).evidence.ours \subseteq created
           /\ Writing(r, f, v).made \in created \cup {Null}
<1>1. /\ work[r] \in Works /\ work[r].evidence.ours \subseteq created
      /\ work[r].made \in created \cup {Null}
  BY WorkTyped DEF JournalInv, WorkFits
<1> QED BY <1>1 DEF Writing, Works

LEMMA IdleKeeps ==
    ASSUME JournalInv, NEW r \in Processes, Become(r, Idle),
           UNCHANGED <<files, durable, sent, platform, reported>>, faults' \in 0..MaxFaults,
           faults' = 0 =>
             /\ faults = 0 /\ ~Writes(r)
             /\ work[r].pc = "open" => files[work[r].file] # Absent
    PROVE  JournalInv'
BY IdleTyped, WorkKeeps

LEMMA CreateOnceKeeps ==
    ASSUME JournalInv, NEW r \in Processes, CreateOnce(r) PROVE JournalInv'
<1> DEFINE w == Writing(r, "started", "written")
<1>1. /\ w \in Works /\ w.pc = "open" /\ w.file = "started" /\ w.value = "written"
      /\ w.evidence.ours \subseteq created /\ w.made \in created \cup {Null}
  BY WritingIs DEF Names, Values
<1>2. /\ work[r].pc = "idle" /\ Become(r, w) /\ UNCHANGED faults /\ faults \in 0..MaxFaults
      /\ UNCHANGED <<files, durable, sent, platform, reported>>
  BY DEF CreateOnce, JournalInv, TypesOK, JournalTypeOK
<1>3. ValueFits(w)
  BY <1>1 DEF ValueFits, Names
<1> HIDE DEF w
<1> QED BY <1>1, <1>2, <1>3, WorkKeeps DEF Writes

\* A write that failed: the receipt is replaced by the mark that it is unknown.
LEMMA FailureKeeps ==
    ASSUME JournalInv, NEW r \in Processes, Become(r, AfterFailure(r)),
           UNCHANGED <<files, durable, sent, platform, reported>>, faults' \in 0..MaxFaults,
           faults' = 0 =>
             /\ faults = 0 /\ ~Writes(r)
             /\ work[r].pc = "open" => files[work[r].file] # Absent
    PROVE  JournalInv'
<1>1. CASE work[r].file = "receipt"
  <2> DEFINE w == Writing(r, "unknown", "written")
  <2>1. /\ w \in Works /\ w.pc = "open" /\ w.file = "unknown" /\ w.value = "written"
        /\ w.evidence.ours \subseteq created /\ w.made \in created \cup {Null}
    BY WritingIs DEF Names, Values
  <2>2. Become(r, w)
    BY <1>1 DEF AfterFailure
  <2>3. ValueFits(w)
    BY <2>1 DEF ValueFits, Names
  <2> HIDE DEF w
  <2> QED BY <2>1, <2>2, <2>3, WorkKeeps
<1>2. CASE work[r].file # "receipt"
  BY <1>2, IdleKeeps DEF AfterFailure
<1> QED BY <1>1, <1>2

LEMMA FaultTyped == ASSUME JournalInv, Fault PROVE faults' \in 0..MaxFaults /\ faults' # 0
BY AllocationAssumption DEF JournalInv, TypesOK, JournalTypeOK, Fault

LEMMA WriteFailsKeeps ==
    ASSUME JournalInv, NEW r \in Processes, WriteFails(r) PROVE JournalInv'
BY FaultTyped, FailureKeeps DEF WriteFails

LEMMA GatherKeeps ==
    ASSUME JournalInv, NEW r \in Processes, NEW op \in {"bind", "reconcile"}, Gather(r, op)
    PROVE  JournalInv'
<1> DEFINE e == [ours |-> created, others |-> others, ready |-> ready]
           w == [Idle EXCEPT !.pc = op, !.evidence = e]
<1>1. e \in Evidence
  BY DEF Evidence, JournalInv, TypesOK, JournalTypeOK
<1>2. /\ w \in Works /\ w.pc = op /\ w.evidence.ours = created /\ w.made = Null
  BY <1>1, IdleTyped DEF Works
<1>3. /\ work[r].pc = "idle" /\ Become(r, w) /\ UNCHANGED faults /\ faults \in 0..MaxFaults
      /\ UNCHANGED <<files, durable, sent, platform, reported>>
  BY DEF Gather, JournalInv, TypesOK, JournalTypeOK
<1> HIDE DEF w
<1> QED BY <1>2, <1>3, WorkKeeps DEF Writes

LEMMA ReceiveKeeps ==
    ASSUME JournalInv, NEW r \in Processes, Receive(r) PROVE JournalInv'
<1> DEFINE w == Writing(r, "receipt", work[r].made)
<1>1. work[r].made \in Projects /\ work[r].made \in created
  BY WorkTyped DEF Receive, JournalInv, WorkFits
<1>2. /\ w \in Works /\ w.pc = "open" /\ w.file = "receipt" /\ w.value = work[r].made
      /\ w.evidence.ours \subseteq created /\ w.made \in created \cup {Null}
  BY <1>1, WritingIs DEF Names, Values
<1>3. /\ work[r].pc = "wait" /\ Become(r, w) /\ UNCHANGED faults /\ faults \in 0..MaxFaults
      /\ UNCHANGED <<files, durable, sent, platform, reported>>
  BY DEF Receive, Projection, JournalInv, TypesOK, JournalTypeOK
<1>4. ValueFits(w)
  BY <1>1, <1>2 DEF ValueFits, Names
<1> HIDE DEF w
<1> QED BY <1>2, <1>3, <1>4, WorkKeeps DEF Writes

(***************************************************************************)
(* Binding and reconciling.                                                *)
(***************************************************************************)
LEMMA BindKeeps ==
    ASSUME JournalInv, NEW r \in Processes, Bind(r) PROVE JournalInv'
<1>1. /\ work[r].pc = "bind" /\ UNCHANGED faults /\ faults \in 0..MaxFaults
      /\ UNCHANGED <<files, durable, sent, platform, reported>>
  BY DEF Bind, JournalInv, TypesOK, JournalTypeOK
<1>2. CASE Become(r, Idle)
  BY <1>1, <1>2, IdleKeeps DEF Writes
<1>3. CASE /\ Complete("started") /\ Complete("receipt")
           /\ Become(r, Writing(r, "bound", [project |-> files["receipt"], source |-> "receipt"]))
  <2> DEFINE b == [project |-> files["receipt"], source |-> "receipt"]
             w == Writing(r, "bound", b)
  <2>1. files["receipt"] \in created /\ created \subseteq Projects
    BY <1>3 DEF JournalInv, FilesFit, TypesOK, JournalTypeOK
  <2>2. b \in Bindings /\ Proved(b)
    BY <1>3, <2>1 DEF Bindings, Proved, Source
  <2> HIDE DEF b
  <2>3. b \in Values /\ "bound" \in Names
    BY <2>2 DEF Names, Values
  <2>4. /\ w \in Works /\ w.pc = "open" /\ w.file = "bound" /\ w.value = b
        /\ w.evidence.ours \subseteq created /\ w.made \in created \cup {Null}
    BY <2>3, WritingIs
  <2>5. Become(r, w)
    BY <1>3 DEF b
  <2> HIDE DEF w
  <2>6. ValueFits(w)
    BY <2>2, <2>4 DEF ValueFits, Names
  <2> QED BY <1>1, <2>4, <2>5, <2>6, WorkKeeps DEF Writes
<1> QED BY <1>2, <1>3 DEF Bind

\* Evidence that names one project names the one created.
LEMMA TheProjectIs ==
    ASSUME JournalInv, NEW e, e.ours \subseteq created, e.ours # {}
    PROVE  e.ours = created /\ TheProject(e) \in created /\ created \subseteq Projects
<1>1. e.ours = created /\ created \subseteq Projects
  BY DEF JournalInv, PostFits, TypesOK, JournalTypeOK
<1> QED BY <1>1 DEF TheProject

LEMMA BoundReconciledKeeps ==
    ASSUME JournalInv, NEW r \in Processes, work[r].evidence.ours # {},
           Complete("started"), Complete("reconciliation")
    PROVE  /\ BoundReconciled(r) \in Works /\ ValueFits(BoundReconciled(r))
           /\ BoundReconciled(r).pc = "open" /\ BoundReconciled(r).file = "bound"
           /\ BoundReconciled(r).evidence.ours \subseteq created
           /\ BoundReconciled(r).made \in created \cup {Null}
<1> DEFINE b == [project |-> TheProject(work[r].evidence), source |-> "reconciled"]
<1>1. TheProject(work[r].evidence) \in created /\ created \subseteq Projects
  BY TheProjectIs DEF JournalInv, WorkFits
<1>2. b \in Bindings /\ Proved(b)
  BY <1>1 DEF Bindings, Proved, Source
<1>3. BoundReconciled(r) = Writing(r, "bound", b)
  BY DEF BoundReconciled
<1> HIDE DEF b
<1>4. b \in Values /\ "bound" \in Names
  BY <1>2 DEF Names, Values
<1>5. /\ BoundReconciled(r) \in Works
      /\ BoundReconciled(r).pc = "open" /\ BoundReconciled(r).file = "bound"
      /\ BoundReconciled(r).value = b
      /\ BoundReconciled(r).evidence.ours \subseteq created
      /\ BoundReconciled(r).made \in created \cup {Null}
  BY <1>3, <1>4, WritingIs
<1>6. ValueFits(BoundReconciled(r))
  BY <1>2, <1>5 DEF ValueFits, Names
<1> QED BY <1>5, <1>6

LEMMA ReconcileKeeps ==
    ASSUME JournalInv, NEW r \in Processes, Reconcile(r) PROVE JournalInv'
<1> DEFINE e == work[r].evidence
<1>1. /\ work[r].pc = "reconcile" /\ UNCHANGED faults /\ faults \in 0..MaxFaults
      /\ UNCHANGED <<files, durable, sent, platform, reported>>
  BY DEF Reconcile, JournalInv, TypesOK, JournalTypeOK
<1>2. /\ e \in Evidence /\ e.ours \subseteq created /\ e.ours \subseteq Projects
      /\ Inventory(e) \in Inventories /\ Inventory(e).ours = e.ours
  BY WorkTyped DEF JournalInv, WorkFits, Evidence, Inventory, Inventories
<1>3. CASE Become(r, Idle)
  BY <1>1, <1>3, IdleKeeps DEF Writes
<1>4. ASSUME MayRecord(e) PROVE Complete("started") /\ e.ours # {} /\ e.ours = created
  <2>1. Complete("started") /\ Cardinality(e.ours) = 1
    BY <1>4 DEF MayRecord, OneReadyProject
  <2>2. Cardinality({}) = 0
    BY FS_EmptySet
  <2>3. e.ours # {}
    <3> HIDE DEF e
    <3> QED BY ONLY <2>1, <2>2
  <2> QED BY <1>2, <2>1, <2>3, TheProjectIs
<1>5. CASE MayRecord(e) /\ Become(r, Writing(r, "reconciliation", Inventory(e)))
  <2> DEFINE w == Writing(r, "reconciliation", Inventory(e))
  <2>1. Inventory(e) \in Values /\ "reconciliation" \in Names
    BY <1>2 DEF Names, Values
  <2>2. /\ w \in Works /\ w.pc = "open" /\ w.file = "reconciliation" /\ w.value = Inventory(e)
        /\ w.evidence = e
        /\ w.evidence.ours \subseteq created /\ w.made \in created \cup {Null}
    BY <2>1, WritingIs
  <2>3. Become(r, w)
    BY <1>5
  <2> HIDE DEF w
  <2>4. ValueFits(w)
    BY <1>2, <1>4, <1>5, <2>2 DEF ValueFits, Names
  <2> QED BY <1>1, <2>2, <2>3, <2>4, WorkKeeps DEF Writes
<1>6. CASE /\ MayRecord(e) /\ files["reconciliation"] = Inventory(e)
           /\ Become(r, BoundReconciled(r))
  <2>1. Complete("reconciliation")
    BY <1>2, <1>6, Distinct DEF Complete
  <2> QED BY <1>1, <1>4, <1>6, <2>1, BoundReconciledKeeps, WorkKeeps DEF Writes
<1> QED BY <1>3, <1>5, <1>6 DEF Reconcile

(***************************************************************************)
(* The POST.                                                               *)
(***************************************************************************)
LEMMA PlatformIs ==
    JournalInv => /\ sent \in {0, 1} /\ adrift \in {0, 1} /\ created \subseteq Projects
                  /\ others \in 0..MaxOthers /\ ready \in BOOLEAN /\ faults \in 0..MaxFaults
                  /\ reported \in BOOLEAN
BY DEF JournalInv, TypesOK, JournalTypeOK, PostFits

\* A process on its way to the POST is the only one, and none is adrift.
LEMMA ThePoster ==
    ASSUME JournalInv, NEW r \in Processes, Posting(r)
    PROVE  /\ adrift = 0 /\ sent = IF work[r].pc = "wait" THEN 1 ELSE 0
           /\ \A q \in Processes \ {r} : ~Posting(q)
           /\ work[r].pc = "wait" => created = {work[r].made} \ {Null}
           /\ work[r].pc = "send" => created = {} /\ OnDisk("started")
           /\ sent = 1 => OnDisk("started")
BY DEF JournalInv, WorkFits, OnePoster, PostFits

LEMMA SendKeeps ==
    ASSUME JournalInv, NEW r \in Processes, Send(r) PROVE JournalInv'
<1> DEFINE w == [work[r] EXCEPT !.pc = "wait"]
<1>1. /\ work[r].pc = "send" /\ Posting(r) /\ ~Writes(r)
      /\ UNCHANGED <<files, durable, platform, reported, faults>> /\ sent' = sent + 1
  BY DEF Send, Posting, Writes
<1>2. /\ sent' = 1 /\ created = {} /\ OnDisk("started") /\ adrift = 0
      /\ \A q \in Processes \ {r} : ~Posting(q)
  BY <1>1, ThePoster
<1>3. /\ w \in Works /\ w.pc = "wait" /\ w.made = Null /\ w.evidence.ours \subseteq created
      /\ work' \in [Processes -> Works] /\ work'[r] = w
      /\ \A q \in Processes \ {r} : work'[q] = work[q]
  <2>1. work[r] \in Works /\ work[r].evidence.ours \subseteq created /\ work[r].made = Null
    BY <1>2, WorkTyped DEF JournalInv, WorkFits
  <2>2. w \in Works /\ w.pc = "wait" /\ w.made = Null /\ w.evidence.ours \subseteq created
    BY <2>1 DEF Works
  <2>3. Become(r, w)
    BY DEF Send
  <2> HIDE DEF w
  <2> QED BY <2>2, <2>3 DEF Become, JournalInv, TypesOK
<1> HIDE DEF w
<1>4. PlatformEffect
  BY <1>1, <1>2, PlatformIs DEF PlatformEffect, PostFits, OnDisk, Complete, platform
<1>5. WorkFits(r)'
  BY <1>1, <1>2, <1>3 DEF WorkFits, Posting, Writes, platform
<1>6. QuietEffect(r)
  BY <1>1, <1>2, <1>3, <1>4, <1>5 DEF QuietEffect, Writes
<1> QED BY <1>6, QuietKeeps

LEMMA PerformKeeps ==
    ASSUME JournalInv, NEW r \in Processes, Perform(r) PROVE JournalInv'
<1>1. PICK p \in Projects \ created :
        created' = created \cup {p} /\ Become(r, [work[r] EXCEPT !.made = p])
  BY DEF Perform
<1> DEFINE w == [work[r] EXCEPT !.made = p]
<1>2. /\ work[r].pc = "wait" /\ work[r].made = Null /\ Posting(r) /\ ~Writes(r)
      /\ UNCHANGED <<files, durable, sent, adrift, others, ready, reported, faults>>
  BY DEF Perform, Posting, Writes
<1>3. /\ sent = 1 /\ created = {} /\ created' = {p} /\ OnDisk("started") /\ adrift = 0
      /\ \A q \in Processes \ {r} : ~Posting(q)
  BY <1>1, <1>2, ThePoster
<1>4. /\ w.pc = "wait" /\ w.made = p /\ w.evidence.ours \subseteq created
      /\ work' \in [Processes -> Works] /\ work'[r] = w
      /\ \A q \in Processes \ {r} : work'[q] = work[q]
  <2>1. work[r] \in Works /\ work[r].evidence.ours \subseteq created
    BY WorkTyped DEF JournalInv, WorkFits
  <2>2. w \in Works /\ w.pc = "wait" /\ w.made = p /\ w.evidence.ours \subseteq created
    BY <1>2, <2>1 DEF Works
  <2>3. Become(r, w)
    BY <1>1
  <2> HIDE DEF w
  <2> QED BY <2>2, <2>3 DEF Become, JournalInv, TypesOK
<1> HIDE DEF w
<1>5. PlatformEffect
  BY <1>2, <1>3, PlatformIs DEF PlatformEffect, PostFits, OnDisk, Complete
<1>6. WorkFits(r)'
  BY <1>2, <1>3, <1>4, Distinct DEF WorkFits, Posting, Writes
<1>7. QuietEffect(r)
  BY <1>2, <1>3, <1>4, <1>5, <1>6 DEF QuietEffect, Writes
<1> QED BY <1>7, QuietKeeps

\* A process gives up a POST it may have waited for, which may go adrift.
LEMMA GiveUpKeeps ==
    ASSUME JournalInv, NEW r \in Processes, NEW w \in Works, w.pc \in {"idle", "open"},
           w.evidence.ours \subseteq created, w.made \in created \cup {Null},
           w.pc = "open" => ValueFits(w), Become(r, w),
           \/ adrift' = adrift
           \/ adrift' = adrift + 1 /\ work[r].pc = "wait" /\ work[r].made = Null,
           UNCHANGED <<files, durable, sent, created, others, ready, reported>>, Fault
    PROVE  JournalInv'
<1>1. /\ work' \in [Processes -> Works] /\ work'[r] = w
      /\ \A q \in Processes \ {r} : work'[q] = work[q]
  BY DEF JournalInv, TypesOK, Become
<1>2. CASE UNCHANGED adrift
  BY <1>2, FaultTyped, WorkKeeps DEF platform
<1>3. CASE adrift' = adrift + 1 /\ work[r].pc = "wait" /\ work[r].made = Null
  <2>1. Posting(r)
    BY <1>3 DEF Posting
  <2>2. /\ adrift' = 1 /\ created = {} /\ sent = 1 /\ OnDisk("started")
        /\ \A q \in Processes \ {r} : ~Posting(q)
    BY <1>3, <2>1, ThePoster
  <2>3. PlatformEffect
    BY <2>2, FaultTyped, PlatformIs DEF PlatformEffect, PostFits, OnDisk, Complete
  <2>4. ~Writes(r)' /\ ~Posting(r)'
    BY <1>1 DEF Writes, Posting
  <2>5. ValueFits(w) => ValueFits(work[r])'
    BY <1>1 DEF ValueFits, Proved, Complete, Source
  <2>6. WorkFits(r)'
    BY <1>1, <2>4, <2>5 DEF WorkFits, Writes
  <2>7. QuietEffect(r)
    BY <1>1, <2>2, <2>3, <2>4, <2>6, FaultTyped DEF QuietEffect
  <2> QED BY <2>7, QuietKeeps
<1> QED BY <1>2, <1>3

LEMMA OutcomeUnknownKeeps ==
    ASSUME JournalInv, NEW r \in Processes, OutcomeUnknown(r) PROVE JournalInv'
<1> DEFINE w == Writing(r, "unknown", "written")
<1>1. /\ w \in Works /\ w.pc = "open" /\ w.file = "unknown" /\ w.value = "written"
      /\ w.evidence.ours \subseteq created /\ w.made \in created \cup {Null}
  BY WritingIs DEF Names, Values
<1>2. /\ Become(r, w) /\ Fault
      /\ UNCHANGED <<files, durable, sent, created, others, ready, reported>>
      /\ \/ adrift' = adrift
         \/ adrift' = adrift + 1 /\ work[r].pc = "wait" /\ work[r].made = Null
  BY DEF OutcomeUnknown
<1>3. ValueFits(w)
  BY <1>1 DEF ValueFits, Names
<1> HIDE DEF w
<1> QED BY <1>1, <1>2, <1>3, GiveUpKeeps

\* At most one process waits for a POST that is not performed yet.
LEMMA UnansweredIs ==
    ASSUME JournalInv, NEW rs \in SUBSET Processes
    PROVE  \/ Unanswered(rs) = 0
           \/ /\ Unanswered(rs) = 1
              /\ \E r \in rs : work[r].pc = "wait" /\ work[r].made = Null
<1> DEFINE U == {r \in rs : work[r].pc = "wait" /\ work[r].made = Null}
<1>1. Unanswered(rs) = Cardinality(U)
  BY DEF Unanswered
<1>2. \A r, q \in U : r = q
  BY DEF JournalInv, OnePoster, Posting
<1>3. CASE U = {}
  BY <1>1, <1>3, FS_EmptySet
<1>4. CASE U # {}
  <2>1. PICK r \in U : TRUE
    BY <1>4
  <2>2. U = {r}
    BY <1>2, <2>1
  <2>3. Cardinality(U) = 1
    BY <2>2, FS_Singleton
  <2> QED BY <1>1, <2>1, <2>3
<1> QED BY <1>3, <1>4

LEMMA CrashKeeps ==
    ASSUME JournalInv, NEW r \in Processes, Crash(r) PROVE JournalInv'
<1>1. \/ Unanswered({r}) = 0
      \/ Unanswered({r}) = 1 /\ work[r].pc = "wait" /\ work[r].made = Null
  BY UnansweredIs
<1>2. /\ Become(r, Idle) /\ Fault /\ adrift' = adrift + Unanswered({r})
      /\ UNCHANGED <<files, durable, sent, created, others, ready, reported>>
  BY DEF Crash
<1>3. \/ adrift' = adrift
      \/ adrift' = adrift + 1 /\ work[r].pc = "wait" /\ work[r].made = Null
  BY <1>1, <1>2, PlatformIs
<1> QED BY <1>2, <1>3, IdleTyped, GiveUpKeeps

(***************************************************************************)
(* Writing a file.                                                         *)
(***************************************************************************)
\* The content of a file has the type of the file, and is a whole content.
FileTyped(f, v) ==
    /\ f \in Names /\ v \in Values \cup {Absent, Torn}
    /\ f \in {"started", "unknown"} => v \in {Absent, Torn, "written"}
    /\ f = "receipt" => v \in {Absent, Torn} \cup Projects
    /\ f = "reconciliation" => v \in {Absent, Torn} \cup Inventories
    /\ f = "bound" => v \in {Absent, Torn} \cup Bindings

LEMMA ContentTyped ==
    ASSUME JournalInv, NEW r \in Processes, ValueFits(work[r])
    PROVE  /\ work[r].file \in Names /\ work[r].value \notin {Absent, Torn}
           /\ FileTyped(work[r].file, work[r].value)
<1>1. work[r].value \in Values /\ work[r].file \in Names
  BY WorkTyped DEF JournalInv, ValueFits
<1>2. created \subseteq Projects
  BY PlatformIs
<1>3. \/ work[r].file \in {"started", "unknown"} /\ work[r].value = "written"
      \/ work[r].file = "receipt" /\ work[r].value \in Projects
      \/ work[r].file = "reconciliation" /\ work[r].value \in Inventories
      \/ work[r].file = "bound" /\ work[r].value \in Bindings
  BY <1>1, <1>2 DEF ValueFits, Names
<1> QED BY <1>1, <1>3, Distinct DEF FileTyped

\* r writes one file and goes on.
Put(f, v) == files' = [files EXCEPT ![f] = v]

LEMMA FilesTyped ==
    ASSUME JournalInv, NEW r \in Processes, NEW f \in Names,
           NEW v \in Values \cup {Torn}, FileTyped(f, v), v # Absent, Put(f, v),
           NEW w \in Works, Become(r, w),
           UNCHANGED <<durable, sent, platform, reported, faults>>
    PROVE  /\ TypesOK' /\ files'[f] = v
           /\ \A g \in Names \ {f} : files'[g] = files[g]
           /\ work'[r] = w /\ \A q \in Processes \ {r} : work'[q] = work[q]
<1>1. /\ files' \in [Names -> {Absent, Torn} \cup Values] /\ files'[f] = v
      /\ \A g \in Names \ {f} : files'[g] = files[g]
  BY DEF JournalInv, TypesOK, FileTyped, Put
<1>2. /\ work' \in [Processes -> Works] /\ work'[r] = w
      /\ \A q \in Processes \ {r} : work'[q] = work[q]
  BY DEF JournalInv, TypesOK, Become
<1>3. \A q \in Processes :
        /\ work'[q].pc \in {"idle", "open", "fill", "sync", "send", "wait", "bind", "reconcile"}
        /\ work'[q].file \in Names \cup {Null} /\ work'[q].made \in Projects \cup {Null}
        /\ work'[q].evidence \in Evidence
  BY <1>2 DEF Works
<1>4. JournalTypeOK
  BY DEF JournalInv, TypesOK
<1>5. /\ files'["started"] \in {Absent, Torn, "written"}
      /\ files'["unknown"] \in {Absent, Torn, "written"}
      /\ files'["receipt"] \in {Absent, Torn} \cup Projects
      /\ files'["reconciliation"] \in {Absent, Torn} \cup Inventories
      /\ files'["bound"] \in {Absent, Torn} \cup Bindings
  BY <1>1, <1>4 DEF JournalTypeOK, FileTyped, Names
<1>6. durable \subseteq {g \in Names : files'[g] # Absent}
  BY <1>1, <1>4 DEF JournalTypeOK
<1>7. JournalTypeOK'
  BY <1>3, <1>4, <1>5, <1>6, AllocationAssumption DEF JournalTypeOK, platform
<1> QED BY <1>1, <1>2, <1>7 DEF TypesOK

\* Nobody writes a file that is not there.
LEMMA NoWriterOfAbsent ==
    ASSUME JournalInv, NEW q \in Processes, Writes(q)
    PROVE  files[work[q].file] # Absent
<1>1. WorkFits(q)
  BY DEF JournalInv
<1>2. CASE work[q].pc = "fill"
  BY <1>1, <1>2, Distinct DEF WorkFits
<1>3. CASE work[q].pc = "sync"
  BY <1>1, <1>3, ContentTyped DEF WorkFits
<1> QED BY <1>2, <1>3 DEF Writes

\* Without the marker nobody is on the way to the POST.
LEMMA NoPosterYet ==
    ASSUME JournalInv, files["started"] = Absent
    PROVE  sent = 0 /\ adrift = 0 /\ created = {} /\ \A q \in Processes : ~Posting(q)
<1>1. ~OnDisk("started")
  BY DEF OnDisk, Complete
<1>2. sent = 0 /\ adrift = 0 /\ created = {}
  BY <1>1 DEF JournalInv, PostFits
<1>3. ASSUME NEW q \in Processes, Posting(q) PROVE FALSE
  <2>1. work[q].pc # "send" /\ work[q].pc # "wait"
    BY <1>1, <1>2, <1>3, ThePoster
  <2>2. Writes(q) /\ work[q].file = "started"
    BY <1>3, <2>1 DEF Posting
  <2> QED BY <2>2, NoWriterOfAbsent
<1> QED BY <1>2, <1>3

LEMMA CreateFileKeeps ==
    ASSUME JournalInv, NEW r \in Processes, work[r].pc = "open",
           files[work[r].file] = Absent,
           files' = [files EXCEPT ![work[r].file] = Torn],
           Become(r, [work[r] EXCEPT !.pc = "fill"]),
           UNCHANGED <<durable, sent, platform, reported, faults>>
    PROVE  JournalInv'
<1> DEFINE w == [work[r] EXCEPT !.pc = "fill"]
           f == work[r].file
<1>1. /\ ValueFits(work[r]) /\ f \in Names /\ FileTyped(f, Torn)
      /\ work[r] \in Works /\ work[r].evidence.ours \subseteq created
      /\ work[r].made \in created \cup {Null}
  BY WorkTyped DEF JournalInv, WorkFits, ValueFits, FileTyped
<1>2. /\ w \in Works /\ w.pc = "fill" /\ w.file = f /\ w.value = work[r].value
      /\ w.evidence = work[r].evidence /\ w.made = work[r].made
  BY <1>1 DEF Works
<1>3. Become(r, w)
  OBVIOUS
<1> HIDE DEF w
<1>4. Put(f, Torn) /\ Torn # Absent /\ Torn \in Values \cup {Torn}
  BY Distinct DEF Put
<1> HIDE DEF f
<1>5. /\ TypesOK' /\ files'[f] = Torn /\ \A g \in Names \ {f} : files'[g] = files[g]
      /\ work'[r] = w /\ \A q \in Processes \ {r} : work'[q] = work[q]
  BY <1>1, <1>2, <1>3, <1>4, FilesTyped
<1>6. Grows
  BY <1>5 DEF Grows, Complete, platform, f
<1>7. FilesFit'
  BY <1>1, <1>5 DEF JournalInv, FilesFit, Complete, platform, Names
<1>8. PostFits'
  BY <1>6, CompleteStays DEF JournalInv, PostFits, platform, Names
<1>9. \A q \in Processes \ {r} : ~(Writes(q) /\ work[q].file = f)
  BY NoWriterOfAbsent DEF f
<1>10. \A q \in Processes \ {r} : Undisturbed(q)
  <2>1. \A q \in Processes \ {r} : Writes(q) => work[q].file \in Names \ {f}
    BY <1>9 DEF JournalInv, WorkFits, Writes, ValueFits
  <2> QED BY <1>5, <2>1 DEF Undisturbed, platform
<1>11. Posting(r)' =>
         sent = 0 /\ adrift = 0 /\ created = {} /\ \A q \in Processes : ~Posting(q)
  BY <1>2, <1>5, NoPosterYet DEF Posting, f
<1>12. WorkFits(r)'
  <2>1. ValueFits(work[r])'
    <3>1. work[r].file = "bound" =>
            /\ work[r].value.project \in created' /\ Complete("started")'
            /\ files'[Source(work[r].value)] \notin {Absent, Torn}
      BY <1>1, <1>6, ProvedStays DEF ValueFits
    <3>2. (work[r].file = "bound" => work[r].value \in Bindings /\ Proved(work[r].value))'
      BY <1>1, <1>2, <1>5, <3>1 DEF ValueFits, Proved, Source, Complete, f
    <3>3. work[r].file = "reconciliation" => Complete("started")'
      BY <1>1, <1>6, CompleteStays DEF ValueFits, Names
    <3> QED BY <1>1, <1>2, <1>5, <3>2, <3>3 DEF ValueFits, platform, f
  <2> QED BY <1>1, <1>2, <1>5, <1>11, <2>1 DEF WorkFits, Writes, platform
<1>13. ReportedFits'
  BY <1>6, <1>5, CompleteStays DEF JournalInv, ReportedFits, OnDisk, Complete, Source, Grows, Names
<1>14. NothingStuck'
  <2> SUFFICES ASSUME faults' = 0 PROVE NothingStuck'
    BY DEF NothingStuck
  <2>1. NothingStuck /\ faults = 0
    BY DEF JournalInv
  <2>2. ASSUME NEW g \in Names, files'[g] = Torn
        PROVE  \E q \in Processes : work'[q].pc = "fill" /\ work'[q].file = g
    <3>1. CASE g = f
      BY <1>2, <1>5, <3>1
    <3>2. CASE g # f
      <4>1. PICK q \in Processes : work[q].pc = "fill" /\ work[q].file = g
        BY <1>5, <2>1, <2>2, <3>2 DEF NothingStuck
      <4> QED BY <1>5, <4>1
    <3> QED BY <3>1, <3>2
  <2>3. ASSUME Complete("reconciliation")', files'["bound"] = Absent
        PROVE  \E q \in Processes : \/ work'[q].pc = "sync" /\ work'[q].file = "reconciliation"
                                    \/ work'[q].pc = "open" /\ work'[q].file = "bound"
    <3>1. f # "reconciliation" /\ f # "bound"
      BY <1>5, <2>3, Distinct DEF Complete
    <3>2. Complete("reconciliation") /\ files["bound"] = Absent
      BY <1>5, <2>3, <3>1 DEF Complete, Names
    <3>3. PICK q \in Processes : \/ work[q].pc = "sync" /\ work[q].file = "reconciliation"
                                 \/ work[q].pc = "open" /\ work[q].file = "bound"
      BY <2>1, <3>2 DEF NothingStuck
    <3> QED BY <1>5, <3>1, <3>3 DEF f
  <2>4. ASSUME Complete("bound")' PROVE Proved(files["bound"])'
    <3>1. f # "bound" /\ files'["bound"] = files["bound"] /\ Complete("bound")
      BY <1>5, <2>4 DEF Complete, Names
    <3>2. Proved(files["bound"])
      BY <2>1, <3>1 DEF NothingStuck
    <3>3. /\ files["bound"].project \in created' /\ Complete("started")'
          /\ files'[Source(files["bound"])] \notin {Absent, Torn}
      BY <1>6, <3>2, ProvedStays
    <3> QED BY <3>1, <3>3 DEF Proved, Complete, Source
  <2> QED BY <2>2, <2>3, <2>4 DEF NothingStuck
<1>15. Writes(r)' => \A q \in Processes \ {r} : ~(Writes(q) /\ work[q].file = work'[r].file)
  BY <1>2, <1>5, <1>9
<1> QED BY <1>5, <1>6, <1>7, <1>8, <1>10, <1>11, <1>12, <1>13, <1>14, <1>15, ProcessKeeps

LEMMA OpenFileKeeps ==
    ASSUME JournalInv, NEW r \in Processes, OpenFile(r) PROVE JournalInv'
<1>1. work[r].pc = "open" /\ UNCHANGED <<durable, sent, platform, reported, faults>>
  BY DEF OpenFile
<1>2. CASE /\ files[work[r].file] = Absent
           /\ files' = [files EXCEPT ![work[r].file] = Torn]
           /\ Become(r, [work[r] EXCEPT !.pc = "fill"])
  BY <1>1, <1>2, CreateFileKeeps
<1>3. CASE /\ files[work[r].file] # Absent
           /\ Become(r, AfterFailure(r)) /\ UNCHANGED files
  BY <1>1, <1>3, PlatformIs, FailureKeeps DEF Writes
<1> QED BY <1>2, <1>3 DEF OpenFile

LEMMA FillFileKeeps ==
    ASSUME JournalInv, NEW r \in Processes, FillFile(r) PROVE JournalInv'
<1> DEFINE w == [work[r] EXCEPT !.pc = "sync"]
           f == work[r].file
           v == work[r].value
<1>1. /\ work[r].pc = "fill" /\ Writes(r) /\ files[f] = Torn /\ ValueFits(work[r])
      /\ f \in Names /\ FileTyped(f, v) /\ v \in Values \cup {Torn} /\ v \notin {Absent, Torn}
      /\ UNCHANGED <<durable, sent, platform, reported, faults>>
  BY ContentTyped, WorkTyped DEF FillFile, JournalInv, WorkFits, Writes
<1>2. /\ w \in Works /\ w.pc = "sync" /\ w.file = f /\ w.value = v
      /\ w.evidence = work[r].evidence /\ w.made = work[r].made
  BY WorkTyped DEF JournalInv, Works
<1>3. Become(r, w) /\ Put(f, v)
  BY DEF FillFile, Put
<1> HIDE DEF w, f, v
<1>4. /\ TypesOK' /\ files'[f] = v /\ \A g \in Names \ {f} : files'[g] = files[g]
      /\ work'[r] = w /\ \A q \in Processes \ {r} : work'[q] = work[q]
  BY <1>1, <1>2, <1>3, FilesTyped
<1>5. Grows
  BY <1>1, <1>4 DEF Grows, Complete, platform
<1>6. FilesFit'
  <2>1. FilesFit
    BY DEF JournalInv
  <2>2. CASE f = "receipt"
    BY <1>1, <1>4, <2>1, <2>2 DEF FilesFit, Complete, platform, Names, ValueFits, f, v
  <2>3. CASE f = "reconciliation"
    BY <1>1, <1>4, <2>1, <2>3 DEF FilesFit, Complete, platform, Names, ValueFits, f, v
  <2>4. CASE f = "bound"
    BY <1>1, <1>4, <2>1, <2>4 DEF FilesFit, Complete, platform, Names, ValueFits, Proved, f, v
  <2>5. CASE f \notin {"receipt", "reconciliation", "bound"}
    BY <1>1, <1>4, <2>1, <2>5 DEF FilesFit, Complete, platform, Names
  <2> QED BY <2>2, <2>3, <2>4, <2>5
<1>7. PostFits'
  BY <1>1, <1>5, CompleteStays DEF JournalInv, PostFits, platform, Names
<1>8. \A q \in Processes \ {r} : ~(Writes(q) /\ work[q].file = f)
  BY <1>1 DEF JournalInv, OneWriter, f
<1>9. \A q \in Processes \ {r} : Undisturbed(q)
  <2>1. \A q \in Processes \ {r} : Writes(q) => work[q].file \in Names \ {f}
    BY <1>8 DEF JournalInv, WorkFits, Writes, ValueFits
  <2> QED BY <1>1, <1>4, <2>1 DEF Undisturbed, platform
<1>10. Posting(r)' => Posting(r)
  BY <1>1, <1>2, <1>4 DEF Posting, f
<1>11. Posting(r)' => sent = 0 /\ adrift = 0 /\ \A q \in Processes \ {r} : ~Posting(q)
  BY <1>1, <1>10, ThePoster
<1>12. Proved(v) => Proved(v)'
  <2> SUFFICES ASSUME Proved(v) PROVE Proved(v)'
    OBVIOUS
  <2>1. v.project \in created' /\ Complete("started")' /\ files'[Source(v)] \notin {Absent, Torn}
    BY <1>5, ProvedStays
  <2> QED BY <1>2, <1>4, <2>1 DEF Proved, Source, Complete, v
<1>13. WorkFits(r)'
  <2>1. WorkFits(r)
    BY DEF JournalInv
  <2>2. ValueFits(work[r])'
    <3>1. f = "bound" => work[r].value \in Bindings /\ Proved(work[r].value)'
      BY <1>1, <1>12 DEF ValueFits, f, v
    <3>2. (work[r].file = "bound" => work[r].value \in Bindings /\ Proved(work[r].value))'
      BY <1>2, <1>4, <3>1 DEF f, v, Proved, Source, Complete
    <3>3. f = "reconciliation" => Complete("started")'
      BY <1>1, <1>5, CompleteStays DEF ValueFits, Names, f
    <3> QED BY <1>1, <1>2, <1>4, <3>2, <3>3 DEF ValueFits, platform, f, v
  <2> QED BY <1>1, <1>2, <1>4, <1>11, <2>1, <2>2 DEF WorkFits, Writes, platform
<1>14. ReportedFits'
  BY <1>1, <1>4, <1>5, CompleteStays DEF JournalInv, ReportedFits, OnDisk, Complete, Source, Grows, Names
<1>15. NothingStuck'
  <2> SUFFICES ASSUME faults' = 0 PROVE NothingStuck'
    BY DEF NothingStuck
  <2>1. NothingStuck /\ faults = 0
    BY <1>1 DEF JournalInv
  <2>2. ASSUME NEW g \in Names, files'[g] = Torn
        PROVE  \E q \in Processes : work'[q].pc = "fill" /\ work'[q].file = g
    <3>1. g # f /\ files[g] = Torn
      BY <1>1, <1>4, <2>2
    <3>2. PICK q \in Processes : work[q].pc = "fill" /\ work[q].file = g
      BY <2>1, <3>1 DEF NothingStuck
    <3> QED BY <1>4, <3>1, <3>2 DEF f
  <2>3. ASSUME Complete("reconciliation")', files'["bound"] = Absent
        PROVE  \E q \in Processes : \/ work'[q].pc = "sync" /\ work'[q].file = "reconciliation"
                                    \/ work'[q].pc = "open" /\ work'[q].file = "bound"
    <3>1. f # "bound"
      BY <1>1, <1>4, <2>3
    <3>2. CASE f = "reconciliation"
      BY <1>2, <1>4, <3>2
    <3>3. CASE f # "reconciliation"
      <4>1. Complete("reconciliation") /\ files["bound"] = Absent
        BY <1>4, <2>3, <3>1, <3>3 DEF Complete, Names
      <4>2. PICK q \in Processes : \/ work[q].pc = "sync" /\ work[q].file = "reconciliation"
                                   \/ work[q].pc = "open" /\ work[q].file = "bound"
        BY <2>1, <4>1 DEF NothingStuck
      <4> QED BY <1>1, <1>4, <4>2
    <3> QED BY <3>2, <3>3
  <2>4. ASSUME Complete("bound")' PROVE Proved(files["bound"])'
    <3>1. CASE f = "bound"
      <4>1. Proved(v)' /\ files'["bound"] = v /\ v' = v
        BY <1>1, <1>2, <1>4, <1>12, <3>1 DEF ValueFits, f, v
      <4> QED BY <4>1 DEF Proved, Source, Complete
    <3>2. CASE f # "bound"
      <4>1. files'["bound"] = files["bound"] /\ Complete("bound")
        BY <1>4, <2>4, <3>2 DEF Complete, Names
      <4>2. Proved(files["bound"])
        BY <2>1, <4>1 DEF NothingStuck
      <4>3. /\ files["bound"].project \in created' /\ Complete("started")'
            /\ files'[Source(files["bound"])] \notin {Absent, Torn}
        BY <1>5, <4>2, ProvedStays
      <4> QED BY <4>1, <4>3 DEF Proved, Complete, Source
    <3> QED BY <3>1, <3>2
  <2> QED BY <2>2, <2>3, <2>4 DEF NothingStuck
<1>16. Writes(r)' => \A q \in Processes \ {r} : ~(Writes(q) /\ work[q].file = work'[r].file)
  BY <1>2, <1>4, <1>8
<1> QED BY <1>4, <1>5, <1>6, <1>7, <1>9, <1>11, <1>13, <1>14, <1>15, <1>16, ProcessKeeps

\* What r goes on with when its file is on the disk.
LEMMA AfterWriteFits ==
    ASSUME JournalInv, NEW r \in Processes, work[r].pc = "sync"
    PROVE  /\ AfterWrite(r) \in Works /\ AfterWrite(r).pc \in {"idle", "open", "send"}
           /\ AfterWrite(r).evidence.ours \subseteq created
           /\ AfterWrite(r).made \in created \cup {Null}
           /\ AfterWrite(r).pc = "open" => ValueFits(AfterWrite(r))
           /\ AfterWrite(r).pc = "send" => work[r].file = "started"
           /\ work[r].file = "reconciliation" =>
                AfterWrite(r).pc = "open" /\ AfterWrite(r).file = "bound"
<1>1. /\ ValueFits(work[r]) /\ files[work[r].file] = work[r].value
      /\ work[r].evidence.ours \subseteq created /\ work[r].made \in created \cup {Null}
      /\ work[r] \in Works /\ work[r].value \notin {Absent, Torn}
  BY ContentTyped, WorkTyped DEF JournalInv, WorkFits
<1>2. CASE work[r].file = "started"
  <2> DEFINE w == [work[r] EXCEPT !.pc = "send"]
  <2>1. AfterWrite(r) = w
    BY <1>2 DEF AfterWrite
  <2>2. /\ w \in Works /\ w.pc = "send" /\ w.evidence = work[r].evidence
        /\ w.made = work[r].made
    BY <1>1 DEF Works
  <2> HIDE DEF w
  <2> QED BY <1>1, <1>2, <2>1, <2>2
<1>3. CASE work[r].file = "reconciliation"
  <2>1. /\ Complete("started") /\ Complete("reconciliation")
        /\ work[r].evidence.ours # {}
    BY <1>1, <1>3 DEF ValueFits, Complete
  <2>2. AfterWrite(r) = BoundReconciled(r)
    BY <1>3 DEF AfterWrite
  <2> QED BY <1>3, <2>1, <2>2, BoundReconciledKeeps
<1>4. CASE work[r].file \notin {"started", "reconciliation"}
  BY <1>4, IdleTyped DEF AfterWrite
<1> QED BY <1>2, <1>3, <1>4

LEMMA SyncDirectoryKeeps ==
    ASSUME JournalInv, NEW r \in Processes, SyncDirectory(r) PROVE JournalInv'
<1> DEFINE w == AfterWrite(r)
<1>1. /\ work[r].pc = "sync" /\ Writes(r) /\ Become(r, w)
      /\ durable' = {f \in Names : files[f] # Absent}
      /\ reported' = (reported \/ work[r].file = "bound")
      /\ UNCHANGED <<files, sent, platform, faults>>
  BY DEF SyncDirectory, Writes
<1>2. /\ w \in Works /\ w.pc \in {"idle", "open", "send"}
      /\ w.evidence.ours \subseteq created /\ w.made \in created \cup {Null}
      /\ w.pc = "open" => ValueFits(w)
      /\ w.pc = "send" => work[r].file = "started"
      /\ work[r].file = "reconciliation" => w.pc = "open" /\ w.file = "bound"
  BY <1>1, AfterWriteFits
<1>3. /\ ValueFits(work[r]) /\ work[r].file \in Names
      /\ files[work[r].file] = work[r].value /\ work[r].value \notin {Absent, Torn}
  BY <1>1, ContentTyped DEF JournalInv, WorkFits
<1> HIDE DEF w
<1>4. /\ work' \in [Processes -> Works] /\ work'[r] = w
      /\ \A q \in Processes \ {r} : work'[q] = work[q]
  BY <1>1, <1>2 DEF JournalInv, TypesOK, Become
<1>5. Grows
  BY <1>1 DEF Grows, platform, JournalInv, TypesOK, JournalTypeOK
<1>6. TypesOK'
  <2>1. \A q \in Processes :
        /\ work'[q].pc \in {"idle", "open", "fill", "sync", "send", "wait", "bind", "reconcile"}
        /\ work'[q].file \in Names \cup {Null} /\ work'[q].made \in Projects \cup {Null}
        /\ work'[q].evidence \in Evidence
    BY <1>4 DEF Works
  <2>2. JournalTypeOK
    BY DEF JournalInv, TypesOK
  <2>3. JournalTypeOK'
    BY <1>1, <2>1, <2>2, AllocationAssumption DEF JournalTypeOK, platform
  <2> QED BY <1>1, <1>4, <2>3 DEF JournalInv, TypesOK
<1>7. FilesFit' /\ PostFits'
  <2>1. FilesFit'
    BY <1>1 DEF JournalInv, FilesFit, Complete, platform
  <2>2. PostFits'
    BY <1>1, <1>5, CompleteStays DEF JournalInv, PostFits, platform, Names
  <2> QED BY <2>1, <2>2
<1>8. \A q \in Processes \ {r} : Undisturbed(q)
  BY <1>1, <1>4 DEF Undisturbed, platform
<1>9. ~Writes(r)' /\ (Posting(r)' => Posting(r) /\ work[r].file = "started" /\ w.pc = "send")
  BY <1>1, <1>2, <1>4 DEF Writes, Posting
<1>10. Posting(r)' => sent = 0 /\ adrift = 0 /\ \A q \in Processes \ {r} : ~Posting(q)
  BY <1>1, <1>9, ThePoster
<1>11. \A f \in Names : Complete(f) => OnDisk(f)'
  BY <1>1 DEF OnDisk, Complete
<1>12. WorkFits(r)'
  <2>1. w.pc = "send" => OnDisk("started")'
    BY <1>2, <1>3, <1>11 DEF Complete, Names
  <2>2. ValueFits(w) => ValueFits(work[r])'
    BY <1>1, <1>4 DEF ValueFits, Proved, Complete, Source, platform
  <2> QED BY <1>1, <1>2, <1>4, <1>9, <1>10, <2>1, <2>2 DEF WorkFits, Writes, platform
<1>13. ReportedFits'
  <2> SUFFICES ASSUME reported' PROVE ReportedFits'
    BY DEF ReportedFits
  <2>1. CASE reported
    BY <1>1, <1>5, <2>1, CompleteStays
    DEF JournalInv, ReportedFits, OnDisk, Complete, Source, Grows, Names
  <2>2. CASE work[r].file = "bound"
    <3>1. Complete("bound") /\ Proved(files["bound"])
      BY <1>3, <2>2 DEF ValueFits, Complete
    <3>2. Source(files["bound"]) \in Names /\ "bound" \in Names /\ "started" \in Names
      BY DEF Source, Names
    <3> QED BY <1>1, <1>11, <3>1, <3>2 DEF ReportedFits, Proved, OnDisk, Complete, Source
  <2> QED BY <1>1, <2>1, <2>2
<1>14. NothingStuck'
  <2> SUFFICES ASSUME faults' = 0 PROVE NothingStuck'
    BY DEF NothingStuck
  <2>1. NothingStuck /\ faults = 0 /\ files' = files
    BY <1>1 DEF JournalInv
  <2>2. ASSUME NEW g \in Names, files'[g] = Torn
        PROVE  \E q \in Processes : work'[q].pc = "fill" /\ work'[q].file = g
    <3>1. PICK q \in Processes : work[q].pc = "fill" /\ work[q].file = g
      BY <2>1, <2>2 DEF NothingStuck
    <3> QED BY <1>1, <1>4, <3>1
  <2>3. ASSUME Complete("reconciliation")', files'["bound"] = Absent
        PROVE  \E q \in Processes : \/ work'[q].pc = "sync" /\ work'[q].file = "reconciliation"
                                    \/ work'[q].pc = "open" /\ work'[q].file = "bound"
    <3>1. PICK q \in Processes : \/ work[q].pc = "sync" /\ work[q].file = "reconciliation"
                                 \/ work[q].pc = "open" /\ work[q].file = "bound"
      BY <2>1, <2>3 DEF NothingStuck, Complete
    <3> QED BY <1>1, <1>2, <1>4, <3>1
  <2>4. ASSUME Complete("bound")' PROVE Proved(files["bound"])'
    BY <1>1, <2>1, <2>4 DEF NothingStuck, Proved, Complete, Source, platform
  <2> QED BY <2>2, <2>3, <2>4 DEF NothingStuck
<1> QED BY <1>5, <1>6, <1>7, <1>8, <1>9, <1>10, <1>12, <1>13, <1>14, ProcessKeeps

(***************************************************************************)
(* The platform, and a power failure.                                      *)
(***************************************************************************)
\* A step of the platform, no process on the way to the POST if it disturbs it.
LEMMA PlatformKeeps ==
    ASSUME JournalInv, UNCHANGED <<files, durable, work, reported, faults>>, PlatformEffect,
           \A q \in Processes : Posting(q) => UNCHANGED <<sent, adrift, created>>
    PROVE  JournalInv'
<1>1. TypesOK' /\ FilesFit' /\ Grows /\ ReportedFits' /\ PostFits'
  BY JournalAlone DEF PlatformEffect, JournalInv, TypesOK
<1>2. \A q \in Processes : WorkFits(q)'
  BY <1>1, OthersFit DEF Undisturbed
<1>3. OneWriter' /\ OnePoster'
  BY DEF JournalInv, OneWriter, OnePoster, Posting, Writes
<1>4. NothingStuck'
  <2>1. ASSUME NEW b, Proved(b)
        PROVE  /\ b.project \in created' /\ Complete("started")'
               /\ files'[Source(b)] \notin {Absent, Torn}
    BY <1>1, <2>1, ProvedStays
  <2>2. Proved(files["bound"]) => Proved(files["bound"])'
    BY <2>1 DEF Proved, Source, Complete
  <2> QED BY <2>2 DEF JournalInv, NothingStuck, Complete
<1> QED BY <1>1, <1>2, <1>3, <1>4 DEF JournalInv

LEMMA PerformLateKeeps == JournalInv /\ PerformLate => JournalInv'
<1> SUFFICES ASSUME JournalInv, PerformLate PROVE JournalInv'
  OBVIOUS
<1>1. /\ adrift = 1 /\ adrift' = 0 /\ created = {} /\ sent = 1 /\ OnDisk("started")
      /\ UNCHANGED <<files, durable, work, sent, others, ready, reported, faults>>
      /\ created' \subseteq Projects /\ \A p, q \in created' : p = q
  BY PlatformIs DEF PerformLate, JournalInv, PostFits
<1>2. \A q \in Processes : ~Posting(q)
  BY <1>1, ThePoster
<1>3. PlatformEffect
  BY <1>1, PlatformIs DEF PlatformEffect, PostFits, OnDisk, Complete
<1> QED BY <1>1, <1>2, <1>3, PlatformKeeps

LEMMA ElsewhereKeeps == JournalInv /\ (BecomeReady \/ OtherRun) => JournalInv'
<1> SUFFICES ASSUME JournalInv, BecomeReady \/ OtherRun PROVE JournalInv'
  OBVIOUS
<1>1. /\ UNCHANGED <<files, durable, work, sent, adrift, created, reported, faults>>
      /\ others' \in 0..MaxOthers /\ ready' \in BOOLEAN
  <2>1. CASE BecomeReady
    BY <2>1, PlatformIs DEF BecomeReady
  <2>2. CASE OtherRun
    BY <2>2, PlatformIs, AllocationAssumption DEF OtherRun
  <2> QED BY <2>1, <2>2
<1>2. PlatformEffect
  BY <1>1, PlatformIs DEF PlatformEffect, JournalInv, PostFits, OnDisk, Complete
<1> QED BY <1>1, <1>2, PlatformKeeps

LEMMA PowerFailsKeeps == JournalInv /\ PowerFails => JournalInv'
<1> SUFFICES ASSUME JournalInv, PowerFails PROVE JournalInv'
  OBVIOUS
<1>1. PICK lost \in SUBSET (Names \ durable) :
        files' = [f \in Names |-> IF f \in lost THEN Absent ELSE files[f]]
  BY DEF PowerFails
<1>2. /\ adrift' = adrift + Unanswered(Processes) /\ work' = [r \in Processes |-> Idle]
      /\ durable' = {f \in Names : files'[f] # Absent}
      /\ UNCHANGED <<sent, created, others, ready, reported>>
      /\ faults' \in 0..MaxFaults /\ faults' # 0
  BY FaultTyped DEF PowerFails
<1>3. /\ \A f \in Names : files'[f] \in {Absent, files[f]} /\ (f \in durable => files'[f] = files[f])
      /\ durable \subseteq {f \in Names : files[f] # Absent}
      /\ JournalTypeOK
  BY <1>1 DEF JournalInv, TypesOK, JournalTypeOK
<1>4. \A f \in Names : /\ Complete(f)' => Complete(f) /\ files'[f] = files[f]
                       /\ OnDisk(f) => OnDisk(f)'
  BY <1>2, <1>3 DEF OnDisk, Complete
<1>5. \A r \in Processes : work'[r] = Idle
  BY <1>2
<1>6. PostFits'
  <2>1. \/ adrift' = adrift
        \/ adrift' = 1 /\ sent = 1 /\ created = {} /\ OnDisk("started")
    <3>1. CASE Unanswered(Processes) = 0
      BY <1>2, <3>1, PlatformIs
    <3>2. CASE Unanswered(Processes) # 0
      <4>1. Unanswered(Processes) = 1
        BY <3>2, UnansweredIs
      <4>2. PICK r \in Processes : work[r].pc = "wait" /\ work[r].made = Null
        BY <3>2, UnansweredIs
      <4>3. Posting(r)
        BY <4>2 DEF Posting
      <4> QED BY <1>2, <4>1, <4>2, <4>3, ThePoster
    <3> QED BY <3>1, <3>2
  <2>2. OnDisk("started") => OnDisk("started")'
    BY <1>4 DEF Names
  <2> QED BY <1>2, <2>1, <2>2 DEF JournalInv, PostFits
<1>7. TypesOK'
  <2>1. files' \in [Names -> {Absent, Torn} \cup Values]
    BY <1>1 DEF JournalInv, TypesOK
  <2>2. work' \in [Processes -> Works]
    BY <1>2, IdleTyped
  <2>3. \A q \in Processes :
        /\ work'[q].pc \in {"idle", "open", "fill", "sync", "send", "wait", "bind", "reconcile"}
        /\ work'[q].file \in Names \cup {Null} /\ work'[q].made \in Projects \cup {Null}
        /\ work'[q].evidence \in Evidence
    BY <2>2 DEF Works
  <2>4. /\ files'["started"] \in {Absent, Torn, "written"}
        /\ files'["unknown"] \in {Absent, Torn, "written"}
        /\ files'["receipt"] \in {Absent, Torn} \cup Projects
        /\ files'["reconciliation"] \in {Absent, Torn} \cup Inventories
        /\ files'["bound"] \in {Absent, Torn} \cup Bindings
    BY <1>3 DEF JournalTypeOK, Names
  <2>5. adrift' \in Nat
    BY <1>6 DEF PostFits
  <2>6. JournalTypeOK'
    BY <1>2, <1>3, <2>3, <2>4, <2>5, AllocationAssumption DEF JournalTypeOK
  <2> QED BY <2>1, <2>2, <2>6 DEF TypesOK
<1>8. FilesFit'
  BY <1>2, <1>4 DEF JournalInv, FilesFit, Names
<1>9. \A r \in Processes : WorkFits(r)'
  BY <1>5, IdleTyped DEF WorkFits, Posting, Writes
<1>10. OneWriter' /\ OnePoster'
  BY <1>5, IdleTyped DEF OneWriter, OnePoster, Posting, Writes
<1>11. ReportedFits'
  <2> SUFFICES ASSUME reported' PROVE ReportedFits'
    BY DEF ReportedFits
  <2>1. OnDisk("bound") /\ OnDisk("started") /\ OnDisk(Source(files["bound"]))
    BY <1>2 DEF JournalInv, ReportedFits
  <2>2. "bound" \in Names /\ "started" \in Names /\ Source(files["bound"]) \in Names
    BY DEF Names, Source
  <2>3. files'["bound"] = files["bound"]
    BY <1>3, <2>1, <2>2 DEF OnDisk
  <2>4. durable \subseteq durable' /\ \A f \in Names : OnDisk(f) => files'[f] \notin {Absent, Torn}
    BY <1>2, <1>3 DEF OnDisk, Complete
  <2> QED BY <2>1, <2>2, <2>3, <2>4 DEF ReportedFits, OnDisk, Complete, Source
<1>12. NothingStuck'
  BY <1>2 DEF NothingStuck
<1> QED BY <1>6, <1>7, <1>8, <1>9, <1>10, <1>11, <1>12 DEF JournalInv

(***************************************************************************)
(* The invariant, and what it says.                                        *)
(***************************************************************************)
LEMMA JournalInvStep == JournalInv /\ [JournalNext]_journalVars => JournalInv'
<1> SUFFICES ASSUME JournalInv, [JournalNext]_journalVars PROVE JournalInv'
  OBVIOUS
<1>1. ASSUME NEW r \in Processes, Steps(r) PROVE JournalInv'
  <2>1. CASE CreateOnce(r) \/ Receive(r) \/ Bind(r) \/ Reconcile(r)
    BY <2>1, CreateOnceKeeps, ReceiveKeeps, BindKeeps, ReconcileKeeps
  <2>2. CASE Gather(r, "bind") \/ Gather(r, "reconcile")
    BY <2>2, GatherKeeps
  <2>3. CASE OpenFile(r) \/ FillFile(r) \/ SyncDirectory(r)
    BY <2>3, OpenFileKeeps, FillFileKeeps, SyncDirectoryKeeps
  <2>4. CASE Send(r) \/ Perform(r)
    BY <2>4, SendKeeps, PerformKeeps
  <2> QED BY <1>1, <2>1, <2>2, <2>3, <2>4 DEF Steps
<1>2. ASSUME NEW r \in Processes, WriteFails(r) \/ OutcomeUnknown(r) \/ Crash(r)
      PROVE  JournalInv'
  BY <1>2, WriteFailsKeeps, OutcomeUnknownKeeps, CrashKeeps
<1>3. CASE PerformLate \/ BecomeReady \/ OtherRun \/ PowerFails
  BY <1>3, PerformLateKeeps, ElsewhereKeeps, PowerFailsKeeps
<1>4. CASE UNCHANGED journalVars
  BY <1>4, PlatformIs, PlatformKeeps
  DEF journalVars, platform, PlatformEffect, JournalInv, PostFits, OnDisk, Complete
<1> QED BY <1>1, <1>2, <1>3, <1>4 DEF JournalNext

LEMMA JournalInvAlways == JournalSpec => []JournalInv
<1> QED BY JournalInvInit, JournalInvStep, PTL DEF JournalSpec

\* A binding whose sources are there proves the project created.
LEMMA BindingProves ==
    ASSUME JournalInv, Complete("bound"), Proved(files["bound"]), files["receipt"] # Torn
    PROVE  Proof # Null
<1> DEFINE b == files["bound"]
<1>1. b \in Bindings
  BY DEF JournalInv, TypesOK, JournalTypeOK, Complete
<1>2. /\ b.project \in created /\ Complete("started") /\ Complete(Source(b))
      /\ b.project \in Projects /\ b.source \in {"receipt", "reconciled"}
  BY <1>1 DEF Proved, Bindings
<1>3. files["receipt"] \in {Absent, b.project}
  BY <1>2 DEF JournalInv, FilesFit, PostFits, Complete
<1>4. created = {b.project}
  BY <1>2 DEF JournalInv, PostFits
<1>5. CASE b.source = "receipt"
  BY <1>2, <1>3, <1>5, Distinct DEF Proof, Source, Complete
<1>6. CASE b.source = "reconciled"
  <2>1. Complete("reconciliation") /\ files["reconciliation"].ours = {b.project}
    BY <1>2, <1>4, <1>6 DEF Source, JournalInv, FilesFit
  <2> QED BY <1>2, <1>3, <1>6, <2>1, Distinct DEF Proof
<1> QED BY <1>2, <1>5, <1>6

\* The journal is one chance to send: whatever processes, crashes, power
\* failures and failed writes there are, createOnce sends the POST at most once,
\* and what the files hold has its type.
THEOREM PostIsSentOnce == JournalSpec => []JournalInvariant
<1>1. JournalInv => JournalInvariant
  BY DEF JournalInv, JournalInvariant, TypesOK, SentAtMostOnce, PostFits
<1> QED BY <1>1, JournalInvAlways, PTL

\* A binding that createOnce's callers were told of is proved by the files that
\* loadAllocationProof reads, at any time after, for any number of processes and
\* failures, as long as the receipt is not left half written.
THEOREM BindingsStay == JournalSpec => []ReportedBindingSurvives
<1>1. JournalInv => ReportedBindingSurvives
  <2> SUFFICES ASSUME JournalInv, reported, files["receipt"] # Torn PROVE Proof # Null
    BY DEF ReportedBindingSurvives
  <2>1. Complete("bound") /\ Complete("started") /\ Complete(Source(files["bound"]))
    BY DEF JournalInv, ReportedFits, OnDisk
  <2>2. files["bound"].project \in created
    BY <2>1 DEF JournalInv, FilesFit
  <2> QED BY <2>1, <2>2, BindingProves DEF Proved
<1> QED BY <1>1, JournalInvAlways, PTL

\* However many processes write, bind and reconcile at once, and however early
\* the operator gathers evidence, the journal is never left in a state that no
\* operation can complete, unless something failed.
THEOREM OnlyFailuresStick == JournalSpec => []StuckOnlyByFailure
<1>1. JournalInv => StuckOnlyByFailure
  <2> SUFFICES ASSUME JournalInv, faults = 0, \A r \in Processes : work[r].pc = "idle"
               PROVE  ~Stuck
    BY DEF StuckOnlyByFailure
  <2>1. \A f \in Names : files[f] # Torn
    BY DEF JournalInv, NothingStuck
  <2>2. ~(Complete("reconciliation") /\ files["bound"] = Absent)
    BY DEF JournalInv, NothingStuck
  <2>3. Complete("bound") => Proof # Null
    BY <2>1, BindingProves DEF JournalInv, NothingStuck, Names
  <2> QED BY <2>1, <2>2, <2>3 DEF Stuck
<1> QED BY <1>1, JournalInvAlways, PTL
=============================================================================
