---------------------- MODULE TemplateInstantiationProofs ----------------------
(***************************************************************************)
(* What an Idempotency-Key promises, for any number of attempts, any       *)
(* template and any requests that share the key.                           *)
(***************************************************************************)
EXTENDS TemplateInstantiation, TLAPS

(***************************************************************************)
(* The inductive invariant.                                                *)
(***************************************************************************)

\* The receipts of an attempt are its own, one per call at most; an attempt
\* that has not reserved the row has made no call.
ReceiptsFit(a) ==
    /\ Len(run[a].created) < run[a].at
    /\ \A k \in 1..Len(run[a].created) : run[a].created[k][1] = a
    /\ run[a].pc \in {"idle", "inspect", "retry", "replayed", "refused"} =>
         run[a].created = <<>> /\ run[a].at = 1

\* Until it compensates, an attempt has built what its calls asked for.
Built(a) ==
    \A k \in 1..(run[a].at - 1) : Plan[k] \in Creations => <<a, k>> \in remote

BuildsInOrder(a) ==
    /\ run[a].pc = "call" \/ a \in Succeeded => Built(a)
    /\ a \in Succeeded => run[a].at > Len(Plan)

\* Unless a delete threw, what compensation has gone through is gone.
UndoesInOrder(a) ==
    run[a].pc = "undo" =>
      /\ run[a].left <= Len(run[a].created)
      /\ ~run[a].failed =>
           \A k \in (run[a].left + 1)..Len(run[a].created) : run[a].created[k] \notin remote

\* A completed row names the attempt that succeeded, or the one that is taking
\* back a completion it was not told of.
CompletedNames ==
    /\ \A a \in InSaga : row.status = "completed" => run[a].pc = "undo" /\ row.org = a
    /\ \A a \in Succeeded : InSaga = {} /\ row.status = "completed" /\ row.org = a

\* While an attempt is at work no other has left anything behind.
LeftoversStopTheKey ==
    \A a \in Attempts \ (InSaga \cup Succeeded) : Held(a) # {} =>
      /\ InSaga = {}
      /\ \/ row.status \in {"pending", "recovery_required"}
         \/ row.status = "completed" /\ row.org = a

\* Before the row is reserved nobody has done anything.
NothingBeforeTheRow ==
    row.status = "absent" => \A a \in Attempts : run[a].pc = "idle"

SagaInv ==
    /\ SagaTypeOK
    /\ OneSagaPerKey
    /\ ReplaysOwnRequest
    /\ \A a \in Attempts : ReceiptsFit(a) /\ BuildsInOrder(a) /\ UndoesInOrder(a)
    /\ CompletedNames
    /\ LeftoversStopTheKey
    /\ NothingBeforeTheRow
    /\ \A a \in announced : run[a].pc = "created"

LEMMA SagaInvInit == SagaInit => SagaInv
<1> SUFFICES ASSUME SagaInit PROVE SagaInv
  OBVIOUS
<1> USE PlanAssumption DEF SagaInit
<1>1. /\ \A a \in Attempts : run[a] = NoRun
      /\ InSaga = {} /\ Succeeded = {} /\ row.status = "absent"
  BY DEF NoRun, NoRow, InSaga, Succeeded, Saga
<1>2. Len(Plan) \in Nat
  OBVIOUS
<1>3. SagaTypeOK
  BY <1>2 DEF SagaTypeOK, AttemptRun, NoRun, NoRow
<1>4. \A a \in Attempts : ReceiptsFit(a) /\ BuildsInOrder(a) /\ UndoesInOrder(a)
  BY <1>1 DEF NoRun, ReceiptsFit, BuildsInOrder, UndoesInOrder
<1>5. \A a \in Attempts : Held(a) = {}
  BY DEF Held
<1>6. OneSagaPerKey /\ ReplaysOwnRequest /\ CompletedNames /\ NothingBeforeTheRow
  BY <1>1 DEF OneSagaPerKey, ReplaysOwnRequest, CompletedNames, NothingBeforeTheRow, NoRun
<1> QED BY <1>3, <1>4, <1>5, <1>6 DEF SagaInv, LeftoversStopTheKey

(***************************************************************************)
(* A step of one attempt concerns its own run and its own resources.       *)
(***************************************************************************)
OwnStep(a) ==
    /\ \A b \in Attempts \ {a} : run'[b] = run[b]
    /\ \A x \in Resources : x[1] # a => (x \in remote' <=> x \in remote)

LEMMA OthersKeep ==
    ASSUME SagaInv, NEW a \in Attempts, OwnStep(a), NEW b \in Attempts \ {a}
    PROVE  /\ ReceiptsFit(b)' /\ BuildsInOrder(b)' /\ UndoesInOrder(b)'
           /\ Held(b)' = Held(b)
           /\ b \in InSaga' <=> b \in InSaga
           /\ b \in Succeeded' <=> b \in Succeeded
<1> USE PlanAssumption DEF SagaInv, OwnStep
<1>1. run'[b] = run[b] /\ ReceiptsFit(b) /\ BuildsInOrder(b) /\ UndoesInOrder(b)
  OBVIOUS
<1>2. /\ run[b].created \in Seq(Resources) /\ run[b].at \in 1..(Len(Plan) + 1)
      /\ run[b].left \in 0..Len(Plan) /\ Len(Plan) \in Nat
      /\ Len(run[b].created) \in Nat
  BY DEF SagaTypeOK, AttemptRun
<1>3. \A k \in 1..Len(run[b].created) :
        run[b].created[k] \in remote' <=> run[b].created[k] \in remote
  BY SMTT(20), <1>1, <1>2 DEF ReceiptsFit
<1>4. (b \in InSaga' <=> b \in InSaga) /\ (b \in Succeeded' <=> b \in Succeeded)
  BY <1>1 DEF InSaga, Succeeded
<1>5. ReceiptsFit(b)'
  BY <1>1 DEF ReceiptsFit
<1>6. BuildsInOrder(b)'
  <2>1. \A k \in 1..(run[b].at - 1) : <<b, k>> \in Resources /\ <<b, k>>[1] # a
    BY <1>2 DEF Resources
  <2>2. Built(b) => Built(b)'
    BY <1>1, <2>1 DEF Built
  <2> QED BY <1>1, <1>4, <2>2 DEF BuildsInOrder
<1>7. UndoesInOrder(b)'
  BY <1>1, <1>2, <1>3 DEF UndoesInOrder
<1>8. Held(b)' = Held(b)
  BY <1>1, <1>3 DEF Held
<1> QED BY <1>4, <1>5, <1>6, <1>7, <1>8

\* An attempt at work is the only one, nobody has succeeded and nobody has left
\* anything behind.
LEMMA WorksAlone ==
    ASSUME SagaInv, NEW a \in InSaga
    PROVE  /\ InSaga = {a} /\ Succeeded = {}
           /\ \A b \in Attempts \ {a} : Held(b) = {}
           /\ row.hash = run[a].hash
           /\ row.status \in {"pending", "completed"}
           /\ row.status = "completed" => run[a].pc = "undo" /\ row.org = a
<1> USE DEF SagaInv
<1>1. InSaga = {a}
  BY DEF OneSagaPerKey
<1>2. Succeeded = {}
  BY DEF CompletedNames
<1> QED BY <1>1, <1>2 DEF LeftoversStopTheKey, OneSagaPerKey, CompletedNames

\* What each step of an attempt at work does: it goes on, succeeds or ends.
WorkEffect(a) ==
    /\ OwnStep(a)
    /\ ReceiptsFit(a)' /\ BuildsInOrder(a)' /\ UndoesInOrder(a)'
    /\ run'[a].hash = run[a].hash /\ row'.hash = row.hash
    /\ announced' = announced
    /\ \/ /\ run'[a].pc \in Saga
          /\ \/ row'.status = "pending"
             \/ row'.status = "completed" /\ row'.org = a /\ run'[a].pc = "undo"
       \/ run'[a].pc = "announce" /\ row'.status = "completed" /\ row'.org = a
       \/ /\ run'[a].pc \in {"error", "unrecorded", "crashed"}
          /\ row'.status # "absent"
          /\ Held(a)' # {} => \/ row'.status \in {"pending", "recovery_required"}
                              \/ row'.status = "completed" /\ row'.org = a

LEMMA WorkEffectKeeps ==
    ASSUME SagaInv, NEW a \in InSaga, WorkEffect(a), SagaTypeOK'
    PROVE  SagaInv'
<1> USE DEF WorkEffect
<1>1. a \in Attempts /\ run[a].pc \in Saga
  BY DEF InSaga
<1>2. /\ InSaga = {a} /\ Succeeded = {}
      /\ \A b \in Attempts \ {a} : Held(b) = {}
      /\ row.hash = run[a].hash
  BY WorksAlone
<1>3. \A b \in Attempts \ {a} :
        /\ ReceiptsFit(b)' /\ BuildsInOrder(b)' /\ UndoesInOrder(b)'
        /\ Held(b)' = {} /\ b \notin InSaga' /\ b \notin Succeeded'
        /\ run'[b] = run[b]
  BY <1>1, <1>2, OthersKeep DEF OwnStep
<1>4. InSaga' \subseteq {a} /\ Succeeded' \subseteq {a}
  BY <1>3 DEF InSaga, Succeeded
<1>5. OneSagaPerKey'
  BY <1>1, <1>2, <1>4 DEF OneSagaPerKey, InSaga, Saga
<1>6. ReplaysOwnRequest'
  BY <1>1, <1>3 DEF ReplaysOwnRequest, SagaInv, Saga
<1>7. CompletedNames'
  BY <1>1, <1>4 DEF CompletedNames, InSaga, Succeeded, Saga
<1>8. LeftoversStopTheKey'
  BY <1>1, <1>3, <1>4 DEF LeftoversStopTheKey, InSaga, Succeeded, Saga
<1>9. NothingBeforeTheRow'
  BY DEF NothingBeforeTheRow
<1>10. \A b \in announced' : run'[b].pc = "created"
  <2> SUFFICES ASSUME NEW b \in announced PROVE run'[b].pc = "created"
    OBVIOUS
  <2>1. run[b].pc = "created" /\ b \in Attempts
    BY DEF SagaInv, SagaTypeOK
  <2>2. b # a
    BY <1>1, <2>1 DEF Saga
  <2> QED BY <1>3, <2>1, <2>2
<1> QED BY <1>1, <1>3, <1>5, <1>6, <1>7, <1>8, <1>9, <1>10 DEF SagaInv

(***************************************************************************)
(* The steps of an attempt at work.                                        *)
(***************************************************************************)

\* What the types say of an attempt.
LEMMA RunTyped ==
    ASSUME SagaInv, NEW a \in Attempts
    PROVE  /\ run[a] \in AttemptRun
           /\ run[a].created \in Seq(Resources)
           /\ run[a].at \in 1..(Len(Plan) + 1) /\ run[a].left \in 0..Len(Plan)
           /\ Len(Plan) \in Nat /\ Len(run[a].created) \in Nat
           /\ ReceiptsFit(a) /\ BuildsInOrder(a) /\ UndoesInOrder(a)
BY PlanAssumption DEF SagaInv, SagaTypeOK, AttemptRun

LEMMA CallReturnsWorks ==
    ASSUME SagaInv, NEW a \in Attempts, CallReturns(a)
    PROVE  a \in InSaga /\ WorkEffect(a) /\ SagaTypeOK'
<1> USE PlanAssumption
<1>1. /\ run[a].pc = "call" /\ run[a].at \in 1..Len(Plan) /\ a \in InSaga
      /\ row' = row /\ announced' = announced
      /\ remote' = remote \cup Resource(a)
  BY RunTyped DEF CallReturns, Calling, InSaga, Saga
<1>2. <<a, run[a].at>> \in Resources /\ Resource(a) \subseteq {<<a, run[a].at>>}
  BY <1>1 DEF Resources, Resource
<1>3. PICK c \in {run[a].created, Append(run[a].created, <<a, run[a].at>>)} :
        run' = [run EXCEPT ![a].at = run[a].at + 1, ![a].created = c]
  BY DEF CallReturns
<1>4. c \in Seq(Resources) /\ Len(c) \in Nat /\ Len(c) <= Len(run[a].created) + 1
      /\ \A k \in 1..Len(c) : c[k][1] = a
  <2>1. CASE c = run[a].created
    BY <2>1, RunTyped DEF ReceiptsFit
  <2>2. CASE c = Append(run[a].created, <<a, run[a].at>>)
    <3>1. /\ c \in Seq(Resources) /\ Len(c) = Len(run[a].created) + 1
          /\ c[Len(c)] = <<a, run[a].at>>
          /\ \A k \in 1..Len(run[a].created) : c[k] = run[a].created[k]
      <4>1. run[a].created \in Seq(Resources)
        BY RunTyped
      <4> QED BY ONLY <1>2, <2>2, <4>1
    <3>2. ASSUME NEW k \in 1..Len(c) PROVE c[k][1] = a
      <4>1. k = Len(c) \/ k \in 1..Len(run[a].created)
        BY <3>1, RunTyped
      <4>2. CASE k = Len(c)
        BY <3>1, <4>2
      <4>3. CASE k \in 1..Len(run[a].created)
        <5>1. c[k] = run[a].created[k]
          BY <3>1, <4>3
        <5>2. run[a].created[k][1] = a
          BY <4>3, RunTyped DEF ReceiptsFit
        <5> QED BY <5>1, <5>2, Zenon
      <4> QED BY <4>1, <4>2, <4>3
    <3> QED BY <3>1, <3>2, RunTyped
  <2> QED BY <1>3, <2>1, <2>2
<1>5. /\ run'[a].pc = "call" /\ run'[a].at = run[a].at + 1 /\ run'[a].created = c
      /\ run'[a].hash = run[a].hash
      /\ \A b \in Attempts \ {a} : run'[b] = run[b]
  BY <1>1, <1>3, RunTyped DEF SagaInv, SagaTypeOK
<1>6. SagaTypeOK'
  <2>1. remote' \subseteq Resources
    BY <1>1, <1>2 DEF SagaInv, SagaTypeOK
  <2>2. run[a].at + 1 \in 1..(Len(Plan) + 1)
    BY <1>1, RunTyped
  <2>3. run'[a] \in AttemptRun
    <3>1. run'[a] = [run[a] EXCEPT !.at = run[a].at + 1, !.created = c]
      BY <1>3 DEF SagaInv, SagaTypeOK
    <3> QED BY <1>4, <2>2, <3>1, RunTyped DEF AttemptRun
  <2>4. run' \in [Attempts -> AttemptRun]
    BY <1>3, <2>3 DEF SagaInv, SagaTypeOK
  <2> QED BY <1>1, <2>1, <2>4 DEF SagaInv, SagaTypeOK
<1>7. OwnStep(a)
  BY <1>1, <1>2, <1>5 DEF OwnStep
<1>8. ReceiptsFit(a)'
  BY <1>1, <1>4, <1>5, RunTyped DEF ReceiptsFit
<1>9. Built(a)'
  <2>1. Built(a)
    BY <1>1, RunTyped DEF BuildsInOrder
  <2>2. Plan[run[a].at] \in Creations => <<a, run[a].at>> \in remote'
    BY <1>1 DEF Resource, Kind
  <2>3. \A k \in 1..(run'[a].at - 1) : k = run[a].at \/ k \in 1..(run[a].at - 1)
    BY <1>5, RunTyped
  <2> QED BY <1>1, <2>1, <2>2, <2>3 DEF Built
<1>10. row.status = "pending"
  BY <1>1, WorksAlone
<1> QED BY <1>1, <1>5, <1>6, <1>7, <1>8, <1>9, <1>10
        DEF WorkEffect, BuildsInOrder, UndoesInOrder, Saga, Succeeded

\* What the row is when the outcome of an attempt at work is recorded in it.
LEMMA RecordedRow ==
    ASSUME SagaInv, NEW a \in InSaga,
           NEW status \in {"completed", "failed", "recovery_required"},
           NEW org \in Attempts \cup {Null}
    PROVE  /\ Recorded(a, status, org) = [status |-> status, hash |-> row.hash, org |-> org]
           /\ row.hash \in Hashes \cup {Null}
<1>1. row.hash = run[a].hash
  BY WorksAlone
<1>2. row \in [status : {"absent", "pending", "completed", "failed", "recovery_required"},
                hash : Hashes \cup {Null}, org : Attempts \cup {Null}]
  BY DEF SagaInv, SagaTypeOK
<1> QED BY <1>1, <1>2 DEF Recorded

LEMMA CompensateWorks ==
    ASSUME SagaInv, NEW a \in Attempts, run[a].pc = "call",
           NEW unknown \in BOOLEAN, Compensate(a, unknown),
           NEW X \in SUBSET Resources, X \subseteq {<<a, run[a].at>>},
           remote' \in {remote, remote \cup X},
           row' \in {row, Recorded(a, "completed", a)}, announced' = announced
    PROVE  a \in InSaga /\ WorkEffect(a) /\ SagaTypeOK'
<1>1. a \in InSaga
  BY DEF InSaga, Saga
<1>2. /\ run'[a] = [run[a] EXCEPT !.pc = "undo", !.left = Len(run[a].created),
                                  !.unknown = unknown]
      /\ \A b \in Attempts \ {a} : run'[b] = run[b]
      /\ run[a] \in AttemptRun
  BY RunTyped DEF Compensate, SagaInv, SagaTypeOK
<1>3. /\ run'[a].pc = "undo" /\ run'[a].at = run[a].at
      /\ run'[a].created = run[a].created /\ run'[a].hash = run[a].hash
      /\ run'[a].left = Len(run[a].created)
  BY <1>2 DEF AttemptRun
<1>4. Len(run[a].created) \in 0..Len(Plan)
  BY RunTyped DEF ReceiptsFit
<1>5. /\ row' = row \/ row' = [status |-> "completed", hash |-> row.hash, org |-> a]
      /\ row.hash \in Hashes \cup {Null} /\ row.status = "pending"
  BY <1>1, RecordedRow, WorksAlone
<1>6. SagaTypeOK'
  <2>1. run'[a] \in AttemptRun
    BY <1>2, <1>4 DEF AttemptRun, Running, Saga
  <2>2. run' \in [Attempts -> AttemptRun]
    BY <2>1 DEF Compensate, SagaInv, SagaTypeOK
  <2>3. remote' \subseteq Resources
    BY DEF SagaInv, SagaTypeOK
  <2> QED BY <1>5, <2>2, <2>3 DEF SagaInv, SagaTypeOK
<1>7. OwnStep(a)
  BY <1>2 DEF OwnStep
<1>8. ReceiptsFit(a)' /\ BuildsInOrder(a)' /\ UndoesInOrder(a)'
  BY <1>3, <1>4, RunTyped DEF ReceiptsFit, BuildsInOrder, UndoesInOrder, Succeeded
<1>9. row'.hash = row.hash /\ (row'.status = "pending" \/ (row'.status = "completed" /\ row'.org = a))
  BY <1>5
<1> QED BY <1>1, <1>3, <1>6, <1>7, <1>8, <1>9 DEF WorkEffect, Saga

LEMMA ThrowsWorks ==
    ASSUME SagaInv, NEW a \in Attempts,
           CallThrows(a) \/ ReceiptInvalid(a) \/ CompleteThrows(a)
    PROVE  a \in InSaga /\ WorkEffect(a) /\ SagaTypeOK'
<1>1. CASE CallThrows(a) \/ ReceiptInvalid(a)
  <2>1. /\ run[a].pc = "call" /\ run[a].at \in 1..Len(Plan)
        /\ remote' \in {remote, remote \cup Resource(a)}
        /\ row' = row /\ announced' = announced
    <3>1. /\ Calling(a) /\ row' = row /\ announced' = announced
          /\ remote' \in {remote, remote \cup Resource(a)}
      BY <1>1, Zenon DEF CallThrows, ReceiptInvalid
    <3> QED BY <3>1, RunTyped DEF Calling
  <2>3. Compensate(a, FALSE) \/ Compensate(a, TRUE)
    BY <1>1 DEF CallThrows, ReceiptInvalid
  <2>2. Resource(a) \in SUBSET Resources /\ Resource(a) \subseteq {<<a, run[a].at>>}
    BY <2>1 DEF Resource, Resources
  <2> QED BY <2>1, <2>2, <2>3, CompensateWorks
<1>2. CASE CompleteThrows(a)
  <2>1. /\ run[a].pc = "call" /\ Compensate(a, FALSE) /\ remote' = remote
        /\ row' \in {row, Recorded(a, "completed", a)} /\ announced' = announced
    BY <1>2 DEF CompleteThrows
  <2>2. {} \in SUBSET Resources /\ {} \subseteq {<<a, run[a].at>>}
    OBVIOUS
  <2> QED BY <2>1, <2>2, CompensateWorks
<1> QED BY <1>1, <1>2

LEMMA DeleteWorks ==
    ASSUME SagaInv, NEW a \in Attempts, DeleteReturns(a) \/ DeleteThrows(a)
    PROVE  a \in InSaga /\ WorkEffect(a) /\ SagaTypeOK'
<1> DEFINE gone == run[a].created[run[a].left]
<1>1. /\ run[a].pc = "undo" /\ run[a].left > 0 /\ a \in InSaga
      /\ row' = row /\ announced' = announced
      /\ remote' \in {remote, remote \ {gone}}
  BY DEF DeleteReturns, DeleteThrows, InSaga, Saga
<1>2. /\ run[a] \in AttemptRun /\ run[a].left \in 1..Len(run[a].created)
      /\ run[a].left \in 1..Len(Plan) /\ Len(run[a].created) \in Nat
      /\ gone \in Resources /\ gone[1] = a
  BY <1>1, RunTyped DEF UndoesInOrder, ReceiptsFit
<1>3. PICK failed \in BOOLEAN :
        /\ run' = [run EXCEPT ![a].left = run[a].left - 1, ![a].failed = failed]
        /\ ~failed => ~run[a].failed /\ remote' = remote \ {gone}
  <2>1. run[a].failed \in BOOLEAN
    BY <1>2 DEF AttemptRun
  <2>2. CASE DeleteReturns(a)
    <3>1. /\ run' = [run EXCEPT ![a].left = run[a].left - 1]
          /\ remote' = remote \ {gone}
      BY <2>2 DEF DeleteReturns
    <3>2. run' = [run EXCEPT ![a].left = run[a].left - 1, ![a].failed = run[a].failed]
      <4>1. [run[a] EXCEPT !.left = run[a].left - 1]
              = [run[a] EXCEPT !.left = run[a].left - 1, !.failed = run[a].failed]
        BY <1>2 DEF AttemptRun
      <4> QED BY <3>1, <4>1 DEF SagaInv, SagaTypeOK
    <3> QED BY <2>1, <3>1, <3>2
  <2>3. CASE DeleteThrows(a)
    BY <2>3 DEF DeleteThrows
  <2> QED BY <2>2, <2>3
<1>4. /\ run'[a] = [run[a] EXCEPT !.left = run[a].left - 1, !.failed = failed]
      /\ \A b \in Attempts \ {a} : run'[b] = run[b]
  BY <1>3 DEF SagaInv, SagaTypeOK
<1>5. /\ run'[a].pc = "undo" /\ run'[a].at = run[a].at
      /\ run'[a].created = run[a].created /\ run'[a].hash = run[a].hash
      /\ run'[a].left = run[a].left - 1 /\ run'[a].failed = failed
  BY <1>1, <1>2, <1>4 DEF AttemptRun
<1>6. SagaTypeOK'
  <2>1. run[a].left - 1 \in 0..Len(Plan)
    BY <1>2
  <2>2. run'[a] \in AttemptRun
    BY <1>2, <1>4, <2>1 DEF AttemptRun
  <2>3. run' \in [Attempts -> AttemptRun]
    BY <1>3, <2>2 DEF SagaInv, SagaTypeOK
  <2> QED BY <1>1, <2>3 DEF SagaInv, SagaTypeOK
<1>7. OwnStep(a)
  BY <1>1, <1>2, <1>4 DEF OwnStep
<1>8. ReceiptsFit(a)' /\ BuildsInOrder(a)'
  BY <1>5, RunTyped DEF ReceiptsFit, BuildsInOrder, Succeeded
<1>9. UndoesInOrder(a)'
  <2> SUFFICES ASSUME ~failed, NEW k \in run[a].left..Len(run[a].created)
               PROVE  run[a].created[k] \notin remote'
    BY <1>2, <1>5 DEF UndoesInOrder
  <2>1. ~run[a].failed /\ remote' = remote \ {gone}
    BY <1>3
  <2>2. k = run[a].left \/ run[a].created[k] \notin remote
    BY <1>1, <1>2, <2>1, RunTyped DEF UndoesInOrder
  <2> QED BY <2>1, <2>2
<1>10. row.status = "pending" \/ (row.status = "completed" /\ row.org = a)
  BY <1>1, WorksAlone
<1> QED BY <1>1, <1>5, <1>6, <1>7, <1>8, <1>9, <1>10 DEF WorkEffect, Saga

\* A step that only moves the attempt on.
LEMMA GotoEffect ==
    ASSUME SagaInv, NEW a \in Attempts, NEW step \in Running \cup Outcomes, Goto(a, step)
    PROVE  /\ run' \in [Attempts -> AttemptRun]
           /\ run'[a].pc = step /\ run'[a].hash = run[a].hash /\ run'[a].at = run[a].at
           /\ run'[a].created = run[a].created /\ run'[a].left = run[a].left
           /\ run'[a].failed = run[a].failed
           /\ \A b \in Attempts \ {a} : run'[b] = run[b]
BY RunTyped DEF Goto, SagaInv, SagaTypeOK, AttemptRun

LEMMA CompleteWorks ==
    ASSUME SagaInv, NEW a \in Attempts, Complete(a)
    PROVE  a \in InSaga /\ WorkEffect(a) /\ SagaTypeOK'
<1>1. /\ run[a].pc = "call" /\ run[a].at > Len(Plan) /\ a \in InSaga
      /\ Goto(a, "announce") /\ remote' = remote /\ announced' = announced
      /\ row' = Recorded(a, "completed", a)
  BY DEF Complete, InSaga, Saga
<1>2. /\ row' = [status |-> "completed", hash |-> row.hash, org |-> a]
      /\ row.hash \in Hashes \cup {Null}
  BY <1>1, RecordedRow
<1>3. /\ run' \in [Attempts -> AttemptRun]
      /\ run'[a].pc = "announce" /\ run'[a].hash = run[a].hash /\ run'[a].at = run[a].at
      /\ run'[a].created = run[a].created
      /\ \A b \in Attempts \ {a} : run'[b] = run[b]
  BY <1>1, GotoEffect DEF Running
<1>4. SagaTypeOK'
  BY <1>1, <1>2, <1>3 DEF SagaInv, SagaTypeOK
<1>5. OwnStep(a)
  BY <1>1, <1>3 DEF OwnStep
<1>6. Built(a)
  BY <1>1, RunTyped DEF BuildsInOrder
<1>7. ReceiptsFit(a)' /\ BuildsInOrder(a)' /\ UndoesInOrder(a)'
  BY <1>1, <1>3, <1>6, RunTyped DEF ReceiptsFit, BuildsInOrder, UndoesInOrder, Built
<1> QED BY <1>1, <1>2, <1>3, <1>4, <1>5, <1>7 DEF WorkEffect

\* A key is given free again only when everything there is a receipt for is gone.
LEMMA EndWorks ==
    ASSUME SagaInv, NEW a \in InSaga, RecordVerdict(a) \/ RecordThrows(a) \/ Crash(a)
    PROVE  WorkEffect(a) /\ SagaTypeOK'
<1>1. a \in Attempts /\ run[a].pc \in Saga
  BY DEF InSaga
<1>2. PICK step \in {"error", "unrecorded", "crashed"} :
        /\ Goto(a, step)
        /\ step = "error" <=> RecordVerdict(a)
  <2>1. CASE RecordVerdict(a)
    BY <2>1 DEF RecordVerdict
  <2>2. CASE RecordThrows(a) /\ ~RecordVerdict(a)
    BY <2>2 DEF RecordThrows
  <2>3. CASE Crash(a) /\ ~RecordVerdict(a)
    BY <1>1, <2>3 DEF Crash, Saga
  <2> QED BY <2>1, <2>2, <2>3
<1>3. /\ run' \in [Attempts -> AttemptRun]
      /\ run'[a].pc = step /\ run'[a].hash = run[a].hash /\ run'[a].at = run[a].at
      /\ run'[a].created = run[a].created
      /\ \A b \in Attempts \ {a} : run'[b] = run[b]
  BY <1>1, <1>2, GotoEffect DEF Outcomes
<1>4. remote' = remote /\ announced' = announced
  BY DEF RecordVerdict, RecordThrows, Crash
<1>5. OwnStep(a)
  BY <1>3, <1>4 DEF OwnStep
<1>6. ReceiptsFit(a)' /\ BuildsInOrder(a)' /\ UndoesInOrder(a)'
  BY <1>1, <1>3, RunTyped DEF ReceiptsFit, BuildsInOrder, UndoesInOrder, Succeeded
<1>7. Held(a)' = Held(a)
  BY <1>3, <1>4 DEF Held
<1>8. CASE RecordVerdict(a)
  <2>1. run[a].pc = "undo" /\ run[a].left = 0
    BY <1>8 DEF RecordVerdict
  <2>2. PICK org \in Attempts \cup {Null} : row' = Recorded(a, Verdict(a), org)
    BY <1>1, <1>8 DEF RecordVerdict
  <2>3. Verdict(a) \in {"recovery_required", "failed"}
    BY DEF Verdict
  <2>4. /\ row' = [status |-> Verdict(a), hash |-> row.hash, org |-> org]
        /\ row.hash \in Hashes \cup {Null}
    BY <2>2, <2>3, RecordedRow
  <2>5. SagaTypeOK'
    BY <1>3, <1>4, <2>3, <2>4 DEF SagaInv, SagaTypeOK
  <2>6. Verdict(a) = "failed" => Held(a) = {}
    <3> SUFFICES ASSUME Verdict(a) = "failed" PROVE Held(a) = {}
      OBVIOUS
    <3>1. ~run[a].failed
      BY DEF Verdict
    <3>2. \A k \in 1..Len(run[a].created) : run[a].created[k] \notin remote
      BY <1>1, <2>1, <3>1, RunTyped DEF UndoesInOrder
    <3> QED BY <3>2 DEF Held
  <2> QED BY <1>2, <1>3, <1>4, <1>5, <1>6, <1>7, <1>8, <2>3, <2>4, <2>5, <2>6 DEF WorkEffect
<1>9. CASE ~RecordVerdict(a)
  <2>1. row' = row
    BY <1>9 DEF RecordThrows, Crash
  <2>2. SagaTypeOK'
    BY <1>3, <1>4, <2>1 DEF SagaInv, SagaTypeOK
  <2>3. row.status = "pending" \/ (row.status = "completed" /\ row.org = a)
    BY WorksAlone
  <2> QED BY <1>2, <1>3, <1>4, <1>5, <1>6, <2>1, <2>2, <2>3 DEF WorkEffect
<1> QED BY <1>8, <1>9

(***************************************************************************)
(* The steps of an attempt that is not at work.                            *)
(***************************************************************************)

\* An attempt that has made no call holds nothing.
LEMMA NothingMadeNothingHeld ==
    ASSUME NEW a \in Attempts, run[a].created = <<>> PROVE Held(a) = {}
BY DEF Held

\* A step that leaves the row and SupaCloud alone and neither starts, ends nor
\* completes work.
IdleEffect(a) ==
    /\ row' = row /\ remote' = remote
    /\ run' \in [Attempts -> AttemptRun]
    /\ \A b \in Attempts \ {a} : run'[b] = run[b]
    /\ run'[a].created = run[a].created /\ run'[a].at = run[a].at
    /\ a \notin InSaga /\ a \notin InSaga'
    /\ a \in Succeeded' <=> a \in Succeeded
    /\ run'[a].pc \in {"idle", "inspect", "retry", "replayed", "refused"} =>
         run[a].created = <<>> /\ run[a].at = 1
    /\ run'[a].pc = "replayed" => run'[a].hash = row.hash
    /\ row.status # "absent"
    /\ \/ announced' = announced /\ a \notin announced
       \/ announced' = announced \cup {a} /\ run'[a].pc = "created"

LEMMA IdleEffectKeeps ==
    ASSUME SagaInv, NEW a \in Attempts, IdleEffect(a)
    PROVE  SagaInv'
<1> USE DEF IdleEffect
<1>1. SagaTypeOK'
  BY DEF SagaInv, SagaTypeOK
<1>2. OwnStep(a)
  BY DEF OwnStep
<1>3. \A b \in Attempts \ {a} : ReceiptsFit(b)' /\ BuildsInOrder(b)' /\ UndoesInOrder(b)'
  BY <1>2, OthersKeep
<1>4. InSaga' = InSaga /\ Succeeded' = Succeeded
  BY DEF InSaga, Succeeded
<1>5. ReceiptsFit(a)' /\ BuildsInOrder(a)' /\ UndoesInOrder(a)'
  <2>1. run'[a].pc \notin Saga
    BY DEF InSaga
  <2>2. Built(a)' <=> Built(a)
    BY DEF Built
  <2>3. UndoesInOrder(a)'
    BY <2>1 DEF UndoesInOrder, Saga
  <2>5. ReceiptsFit(a)'
    BY RunTyped DEF ReceiptsFit
  <2>4. BuildsInOrder(a)'
    BY <1>4, <2>1, <2>2, RunTyped DEF BuildsInOrder, Saga
  <2> QED BY <2>3, <2>4, <2>5
<1>6. \A b \in Attempts : Held(b)' = Held(b)
  BY DEF Held
<1>7. OneSagaPerKey'
  BY <1>4 DEF SagaInv, OneSagaPerKey, InSaga
<1>8. ReplaysOwnRequest'
  BY DEF SagaInv, ReplaysOwnRequest
<1>9. CompletedNames'
  BY <1>4 DEF SagaInv, CompletedNames, InSaga
<1>10. LeftoversStopTheKey'
  BY <1>4, <1>6 DEF SagaInv, LeftoversStopTheKey
<1>11. NothingBeforeTheRow'
  BY DEF NothingBeforeTheRow
<1>12. \A b \in announced' : run'[b].pc = "created"
  BY DEF SagaInv, SagaTypeOK
<1> QED BY <1>1, <1>3, <1>5, <1>7, <1>8, <1>9, <1>10, <1>11, <1>12 DEF SagaInv

LEMMA InspectKeeps ==
    ASSUME SagaInv, NEW a \in Attempts, Inspect(a) PROVE SagaInv'
<1>1. /\ run[a].pc = "inspect" /\ row' = row /\ remote' = remote /\ announced' = announced
      /\ Goto(a, Disposition(a))
      /\ Disposition(a) \in {"refused", "replayed", "retry"}
      /\ Disposition(a) = "replayed" => row.hash = run[a].hash
  BY DEF Inspect, Disposition
<1>2. row.status # "absent" /\ a \notin announced
  BY <1>1 DEF SagaInv, NothingBeforeTheRow
<1>3. run[a].created = <<>> /\ run[a].at = 1
  BY <1>1, RunTyped DEF ReceiptsFit
<1>4. IdleEffect(a)
  BY <1>1, <1>2, <1>3, GotoEffect DEF IdleEffect, InSaga, Succeeded, Saga, Running, Outcomes
<1> QED BY <1>4, IdleEffectKeeps

LEMMA AnnounceKeeps ==
    ASSUME SagaInv, NEW a \in Attempts, Announce(a) PROVE SagaInv'
<1>1. /\ run[a].pc = "announce" /\ row' = row /\ remote' = remote
      /\ announced' = announced \cup {a} /\ Goto(a, "created")
  BY DEF Announce
<1>2. row.status # "absent"
  BY <1>1 DEF SagaInv, NothingBeforeTheRow
<1>3. IdleEffect(a)
  BY <1>1, <1>2, GotoEffect DEF IdleEffect, InSaga, Succeeded, Saga, Outcomes
<1> QED BY <1>3, IdleEffectKeeps

LEMMA IdleCrashKeeps ==
    ASSUME SagaInv, NEW a \in Attempts, Crash(a), a \notin InSaga PROVE SagaInv'
<1>1. /\ run[a].pc \in {"inspect", "retry", "announce"}
      /\ row' = row /\ remote' = remote /\ announced' = announced
      /\ Goto(a, IF run[a].pc = "announce" THEN "unannounced" ELSE "crashed")
  BY DEF Crash, Running, InSaga
<1>2. row.status # "absent" /\ a \notin announced
  BY <1>1 DEF SagaInv, NothingBeforeTheRow
<1>3. IdleEffect(a)
  BY <1>1, <1>2, GotoEffect DEF IdleEffect, InSaga, Succeeded, Saga, Outcomes
<1> QED BY <1>3, IdleEffectKeeps

\* Work starts on a key that nobody works on and nothing is left of.
StartEffect(a) ==
    /\ InSaga = {} /\ Succeeded = {}
    /\ \A b \in Attempts : Held(b) = {} /\ run[b].pc # "created"
    /\ run[a].created = <<>> /\ run[a].at = 1
    /\ \A b \in Attempts \ {a} : run'[b] = run[b]
    /\ run' \in [Attempts -> AttemptRun]
    /\ run'[a].pc = "call" /\ run'[a].created = <<>> /\ run'[a].at = 1
    /\ row'.status = "pending" /\ row'.hash = run'[a].hash
    /\ row' \in [status : {"absent", "pending", "completed", "failed", "recovery_required"},
                 hash : Hashes \cup {Null}, org : Attempts \cup {Null}]
    /\ remote' = remote /\ announced' = announced
    /\ \A b \in Attempts : run[b].pc = "replayed" => run[b].hash = row'.hash

LEMMA StartEffectKeeps ==
    ASSUME SagaInv, NEW a \in Attempts, StartEffect(a)
    PROVE  SagaInv'
<1> USE DEF StartEffect
<1>1. SagaTypeOK'
  BY DEF SagaInv, SagaTypeOK
<1>2. OwnStep(a)
  BY DEF OwnStep
<1>3. \A b \in Attempts \ {a} :
        /\ ReceiptsFit(b)' /\ BuildsInOrder(b)' /\ UndoesInOrder(b)'
        /\ Held(b)' = {} /\ b \notin InSaga' /\ b \notin Succeeded'
  BY <1>2, OthersKeep
<1>4. InSaga' = {a} /\ Succeeded' = {}
  BY <1>3 DEF InSaga, Succeeded, Saga
<1>5. ReceiptsFit(a)' /\ BuildsInOrder(a)' /\ UndoesInOrder(a)'
  BY <1>4 DEF ReceiptsFit, BuildsInOrder, UndoesInOrder, Built
<1>6. OneSagaPerKey' /\ CompletedNames' /\ NothingBeforeTheRow'
  BY <1>4 DEF OneSagaPerKey, CompletedNames, NothingBeforeTheRow
<1>7. ReplaysOwnRequest'
  BY DEF ReplaysOwnRequest
<1>8. LeftoversStopTheKey'
  BY <1>3, <1>4 DEF LeftoversStopTheKey
<1>9. \A b \in announced' : run'[b].pc = "created"
  BY DEF SagaInv, SagaTypeOK
<1> QED BY <1>1, <1>3, <1>5, <1>6, <1>7, <1>8, <1>9 DEF SagaInv

LEMMA ReserveKeeps ==
    ASSUME SagaInv, NEW a \in Attempts, NEW h \in Hashes, Reserve(a, h) PROVE SagaInv'
<1>1. /\ run[a].pc = "idle" /\ remote' = remote /\ announced' = announced
      /\ run[a].created = <<>> /\ run[a].at = 1 /\ run[a] \in AttemptRun
  BY RunTyped DEF Reserve, ReceiptsFit
<1>2. CASE row.status = "absent"
  <2>1. /\ row' = [status |-> "pending", hash |-> h, org |-> Null]
        /\ run' = [run EXCEPT ![a].pc = "call", ![a].hash = h]
    BY <1>2 DEF Reserve
  <2>2. \A b \in Attempts : run[b].pc = "idle" /\ run[b].created = <<>>
    BY <1>2, RunTyped DEF SagaInv, NothingBeforeTheRow, ReceiptsFit
  <2>3. InSaga = {} /\ Succeeded = {}
    BY <2>2 DEF InSaga, Succeeded, Saga
  <2>4. run' \in [Attempts -> AttemptRun]
    BY <1>1, <2>1 DEF SagaInv, SagaTypeOK, AttemptRun, Running, Saga
  <2>5. /\ run'[a].pc = "call" /\ run'[a].hash = h /\ run'[a].created = <<>>
        /\ run'[a].at = 1 /\ \A b \in Attempts \ {a} : run'[b] = run[b]
    BY <1>1, <2>1 DEF SagaInv, SagaTypeOK, AttemptRun
  <2>6. StartEffect(a)
    BY <1>1, <2>1, <2>2, <2>3, <2>4, <2>5, NothingMadeNothingHeld DEF StartEffect
  <2> QED BY <2>6, StartEffectKeeps
<1>3. CASE row.status # "absent"
  <2>1. row' = row /\ run' = [run EXCEPT ![a].pc = "inspect", ![a].hash = h]
    BY <1>3 DEF Reserve
  <2>2. run' \in [Attempts -> AttemptRun]
    BY <1>1, <2>1 DEF SagaInv, SagaTypeOK, AttemptRun, Running
  <2>3. /\ run'[a].pc = "inspect" /\ run'[a].created = <<>>
        /\ run'[a].at = 1 /\ \A b \in Attempts \ {a} : run'[b] = run[b]
    BY <1>1, <2>1 DEF SagaInv, SagaTypeOK, AttemptRun
  <2>4. a \notin announced
    BY <1>1 DEF SagaInv
  <2>5. IdleEffect(a)
    BY <1>1, <1>3, <2>1, <2>2, <2>3, <2>4 DEF IdleEffect, InSaga, Succeeded, Saga
  <2> QED BY <2>5, IdleEffectKeeps
<1> QED BY <1>2, <1>3

LEMMA RetryKeeps ==
    ASSUME SagaInv, NEW a \in Attempts, Retry(a) PROVE SagaInv'
<1>1. /\ run[a].pc = "retry" /\ remote' = remote /\ announced' = announced
      /\ run[a].created = <<>> /\ run[a].at = 1
  BY RunTyped DEF Retry, ReceiptsFit
<1>2. CASE row.status = "failed" /\ row.hash = run[a].hash
  <2>1. row' = [row EXCEPT !.status = "pending"] /\ Goto(a, "call")
    BY <1>2 DEF Retry
  <2>2. InSaga = {} /\ Succeeded = {}
    BY <1>2 DEF SagaInv, OneSagaPerKey, CompletedNames
  <2>3. \A b \in Attempts : Held(b) = {} /\ run[b].pc # "created"
    BY <1>2, <2>2 DEF SagaInv, LeftoversStopTheKey, Succeeded
  <2>4. /\ row'.status = "pending" /\ row'.hash = row.hash
        /\ row' \in [status : {"absent", "pending", "completed", "failed", "recovery_required"},
                     hash : Hashes \cup {Null}, org : Attempts \cup {Null}]
    BY <2>1 DEF SagaInv, SagaTypeOK
  <2>5. StartEffect(a)
    BY <1>1, <1>2, <2>1, <2>2, <2>3, <2>4, GotoEffect
       DEF StartEffect, SagaInv, ReplaysOwnRequest, Running, Saga
  <2> QED BY <2>5, StartEffectKeeps
<1>3. CASE ~(row.status = "failed" /\ row.hash = run[a].hash)
  <2>1. row' = row /\ Goto(a, "refused")
    BY <1>3 DEF Retry
  <2>2. row.status # "absent" /\ a \notin announced
    BY <1>1 DEF SagaInv, NothingBeforeTheRow
  <2>3. IdleEffect(a)
    BY <1>1, <2>1, <2>2, GotoEffect DEF IdleEffect, InSaga, Succeeded, Saga, Outcomes
  <2> QED BY <2>3, IdleEffectKeeps
<1> QED BY <1>2, <1>3

LEMMA SagaInvStep == SagaInv /\ [SagaNext]_sagaVars => SagaInv'
<1> SUFFICES ASSUME SagaInv, [SagaNext]_sagaVars PROVE SagaInv'
  OBVIOUS
<1>1. ASSUME NEW a \in Attempts, Proceed(a) PROVE SagaInv'
  <2>1. CASE CallReturns(a)
    BY <2>1, CallReturnsWorks, WorkEffectKeeps
  <2>2. CASE CallThrows(a) \/ ReceiptInvalid(a) \/ CompleteThrows(a)
    BY <2>2, ThrowsWorks, WorkEffectKeeps
  <2>3. CASE Complete(a)
    BY <2>3, CompleteWorks, WorkEffectKeeps
  <2>4. CASE DeleteReturns(a) \/ DeleteThrows(a)
    BY <2>4, DeleteWorks, WorkEffectKeeps
  <2>5. CASE RecordVerdict(a) \/ RecordThrows(a)
    <3>1. a \in InSaga
      BY <2>5 DEF RecordVerdict, RecordThrows, InSaga, Saga
    <3> QED BY <2>5, <3>1, EndWorks, WorkEffectKeeps
  <2> QED BY <1>1, <2>1, <2>2, <2>3, <2>4, <2>5, InspectKeeps, RetryKeeps, AnnounceKeeps
          DEF Proceed
<1>2. ASSUME NEW a \in Attempts, Crash(a) PROVE SagaInv'
  BY <1>2, IdleCrashKeeps, EndWorks, WorkEffectKeeps
<1>3. CASE UNCHANGED sagaVars
  BY <1>3 DEF sagaVars, SagaInv, SagaTypeOK, OneSagaPerKey, ReplaysOwnRequest, ReceiptsFit,
     BuildsInOrder, Built, UndoesInOrder, CompletedNames, LeftoversStopTheKey,
     NothingBeforeTheRow, InSaga, Succeeded, Held
<1> QED BY <1>1, <1>2, <1>3, ReserveKeeps DEF SagaNext

LEMMA SagaInvAlways == SagaSpec => []SagaInv
BY SagaInvInit, SagaInvStep, PTL DEF SagaSpec

\* However many attempts share an Idempotency-Key, crash and retry: one at a
\* time creates or deletes, a result is replayed to its own request only, and
\* it is announced once (reserveInstantiation, finishInstantiation).
THEOREM KeyKeepsItsPromise == SagaSpec => []SagaInvariant
<1>1. SagaInv => AnnouncedOnce
  BY DEF SagaInv, SagaTypeOK, AnnouncedOnce, CompletedNames, Succeeded
<1>2. SagaInv => SagaInvariant
  BY <1>1 DEF SagaInv, SagaInvariant
<1> QED BY <1>2, SagaInvAlways, PTL

\* What was reported created stays, with everything the template asked for,
\* whatever attempts with the key follow.
THEOREM CreatedStays == SagaSpec => []SuccessIsKept
<1>1. SagaInv => SuccessIsKept
  <2> SUFFICES ASSUME SagaInv, NEW a \in Succeeded
               PROVE  /\ row.status = "completed" /\ row.org = a
                      /\ \A k \in 1..Len(Plan) : Plan[k] \in Creations => <<a, k>> \in remote
    BY DEF SuccessIsKept
  <2>1. a \in Attempts /\ Built(a) /\ run[a].at > Len(Plan)
    BY DEF SagaInv, BuildsInOrder, Succeeded
  <2>2. \A k \in 1..Len(Plan) : k \in 1..(run[a].at - 1)
    BY <2>1, RunTyped
  <2> QED BY <2>1, <2>2 DEF SagaInv, CompletedNames, Built
<1> QED BY <1>1, SagaInvAlways, PTL

\* A key whose last attempt failed has left nothing behind: what could not be
\* deleted shows in the row, which then admits no retry (organization-templates.ts,
\* the catch clause of instantiateFromTemplate).
THEOREM LeftoversShow == SagaSpec => []LeftoversAreVisible
<1>1. SagaInv => LeftoversAreVisible
  BY DEF SagaInv, LeftoversAreVisible, LeftoversStopTheKey, InSaga, Succeeded, Saga
<1> QED BY <1>1, SagaInvAlways, PTL
=============================================================================
