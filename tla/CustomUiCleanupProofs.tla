------------------------ MODULE CustomUiCleanupProofs ------------------------
(***************************************************************************)
(* The cleanup queue, for any number of requests, batches and files, and   *)
(* however often calls fail, processes die and claims are taken over.      *)
(***************************************************************************)
EXTENDS CustomUiCleanup, TLAPS

(***************************************************************************)
(* The inductive invariant.                                                *)
(***************************************************************************)
Cleaning == {"claim", "delete", "verify", "drop", "release"}

\* A request has a batch in hand while it changes the row or the bucket; it
\* cleans none that is in use, forgets only that one's reservation, and drops
\* what it has read back as gone.
WorkFits(r) ==
    /\ work[r].pc \in Changes \cup Cleaning => work[r].on \in Batches
    /\ work[r].holds => work[r].pc \in Cleaning \ {"claim"}
    /\ work[r].pc = "unreserve" =>
         work[r].on = work[r].active /\ work[r].plan[work[r].on].state = "reserved"
    /\ work[r].pc \in Cleaning => work[r].on # work[r].active
    /\ work[r].pc = "drop" => stored[work[r].on] = {}
    /\ work[r].active \in {Active, Null}
    /\ manifest = "enabled" /\ work[r].pc # "idle" => work[r].active = Active

\* A batch has one holder: a claim ends the one before.
OneHolder ==
    \A r, q \in Requests :
      work[r].holds /\ work[q].holds /\ work[r].on = work[q].on => r = q

\* What a request is about to write still applies when nobody wrote since.
Applicable(r) == work[r].pc \in Changes /\ Applies(r, work[r].pc, work[r].on)
FreshApplies == \A r \in fresh : Applicable(r)

CleanupInv ==
    /\ CleanupTypeOK
    /\ ForgottenMeansGone
    /\ FilesInUseAreKept
    /\ manifest = "enabled" => Active \in Batches
    /\ \A r \in Requests : WorkFits(r)
    /\ OneHolder
    /\ HoldersOwnTheirBatch
    /\ FreshApplies

(***************************************************************************)
(* The records of a request's work.                                        *)
(***************************************************************************)
LEMMA NullState == Null \notin Batches /\ Null \notin Requests
BY CleanupAssumption

LEMMA WorkTyped ==
    ASSUME CleanupTypeOK, NEW r \in Requests
    PROVE  /\ work[r] \in RequestWork
           /\ work[r].plan \in [Batches -> PlannedBatch]
           /\ work[r].on \in Batches \cup {Null} /\ work[r].active \in Batches \cup {Null}
           /\ work[r].holds \in BOOLEAN /\ work[r].tries \in 0..CasAttempts
BY DEF CleanupTypeOK, RequestWork

LEMMA NoWorkTyped == NoWork \in RequestWork
<1>1. NotPlanned \in PlannedBatch
  BY DEF NotPlanned, PlannedBatch
<1>2. [b \in Batches |-> NotPlanned] \in [Batches -> PlannedBatch]
  BY <1>1
<1>3. 0 \in 0..CasAttempts
  BY CleanupAssumption
<1> QED BY <1>2, <1>3 DEF NoWork, RequestWork

LEMMA ForgetTyped ==
    ASSUME CleanupTypeOK, NEW r \in Requests, NEW b
    PROVE  Forget(r, b) \in [Batches -> PlannedBatch]
<1>1. NotPlanned \in PlannedBatch
  BY DEF NotPlanned, PlannedBatch
<1> QED BY <1>1, WorkTyped DEF Forget

\* The work with which a request goes on.
LEMMA AtTyped ==
    ASSUME CleanupTypeOK, NEW r \in Requests,
           NEW step \in {"next", "delete", "verify"} \cup Changes
    PROVE  /\ At(r, step) \in RequestWork
           /\ At(r, step).pc = step /\ At(r, step).active = work[r].active
           /\ At(r, step).on = IF step = "next" THEN Null ELSE work[r].on
           /\ At(r, step).holds => step # "next" /\ (work[r].holds \/ step = "delete")
           /\ step = "delete" => At(r, step).holds
<1>1. /\ Forget(r, work[r].on) \in [Batches -> PlannedBatch]
      /\ 0 \in 0..CasAttempts
  BY ForgetTyped, CleanupAssumption
<1>2. PICK holds \in BOOLEAN :
        /\ holds => step # "next" /\ (work[r].holds \/ step = "delete")
        /\ step = "delete" => holds
        /\ At(r, step) = [work[r] EXCEPT !.pc = step, !.tries = 0,
                            !.plan = Forget(r, work[r].on),
                            !.on = IF step = "next" THEN Null ELSE work[r].on, !.holds = holds]
  <2> DEFINE holds == step # "next" /\ (work[r].holds \/ step = "delete")
  <2>1. holds \in BOOLEAN
    OBVIOUS
  <2>2. step = "delete" => holds
    OBVIOUS
  <2>3. At(r, step) = [work[r] EXCEPT !.pc = step, !.tries = 0,
                            !.plan = Forget(r, work[r].on),
                            !.on = IF step = "next" THEN Null ELSE work[r].on, !.holds = holds]
    BY Zenon DEF At
  <2> QED BY <2>1, <2>2, <2>3, Zenon
<1>3. (IF step = "next" THEN Null ELSE work[r].on) \in Batches \cup {Null}
  BY WorkTyped
<1> QED BY <1>1, <1>2, <1>3, WorkTyped DEF RequestWork

LEMMA CleanupInvInit == CleanupInit => CleanupInv
<1> SUFFICES ASSUME CleanupInit PROVE CleanupInv
  OBVIOUS
<1> USE CleanupAssumption, NoWorkTyped DEF CleanupInit
<1>1. CleanupTypeOK
  <2>1. manifest \in {"enabled", "disabled", "none"}
    OBVIOUS
  <2> QED BY <2>1 DEF CleanupTypeOK
<1>2. \A r \in Requests : work[r].pc = "idle" /\ work[r].active = Null /\ ~work[r].holds
  BY DEF NoWork
<1>3. \A r \in Requests : WorkFits(r)
  BY <1>2 DEF WorkFits, Changes, Cleaning
<1>4. ForgottenMeansGone
  BY DEF ForgottenMeansGone
<1>5. FilesInUseAreKept /\ (manifest = "enabled" => Active \in Batches)
  BY DEF FilesInUseAreKept
<1>6. OneHolder /\ HoldersOwnTheirBatch /\ FreshApplies
  BY <1>2 DEF OneHolder, HoldersOwnTheirBatch, FreshApplies
<1> QED BY <1>1, <1>3, <1>4, <1>5, <1>6 DEF CleanupInv

(***************************************************************************)
(* Steps that write neither the row nor the bucket.                        *)
(***************************************************************************)
MoveEffect(r) ==
    /\ manifest' = manifest /\ queue' = queue /\ old' = old /\ stored' = stored
    /\ faults' \in 0..MaxFaults
    /\ work' \in [Requests -> RequestWork]
    /\ \A q \in Requests \ {r} : work'[q] = work[q]
    /\ WorkFits(r)'
    /\ work'[r].holds => work[r].holds /\ work'[r].on = work[r].on
    /\ \A q \in fresh' : q \in fresh \ {r} \/ (q = r /\ Applicable(r)')

LEMMA MoveEffectKeeps ==
    ASSUME CleanupInv, NEW r \in Requests, MoveEffect(r) PROVE CleanupInv'
<1> USE DEF CleanupInv, MoveEffect
<1>1. CleanupTypeOK'
  BY DEF CleanupTypeOK
<1>2. ForgottenMeansGone' /\ FilesInUseAreKept' /\ (manifest' = "enabled" => Active \in Batches)
  BY DEF ForgottenMeansGone, FilesInUseAreKept
<1>3. \A q \in Requests : WorkFits(q)'
  BY DEF WorkFits
<1>4. OneHolder'
  BY DEF OneHolder
<1>5. HoldersOwnTheirBatch'
  BY DEF HoldersOwnTheirBatch
<1>6. FreshApplies'
  <2> SUFFICES ASSUME NEW q \in fresh' PROVE Applicable(q)'
    BY DEF FreshApplies
  <2>1. CASE q \in fresh \ {r}
    <3>1. q \in Requests /\ work'[q] = work[q]
      BY <2>1 DEF CleanupTypeOK
    <3>2. Applicable(q)
      BY <2>1 DEF FreshApplies
    <3> QED BY <3>1, <3>2 DEF Applicable, Applies, SameOwner, OwnClaim
  <2> QED BY <2>1
<1> QED BY <1>1, <1>2, <1>3, <1>4, <1>5, <1>6

\* The request ends, or is killed.
LEMMA IdleFits ==
    ASSUME CleanupInv, NEW r \in Requests, work' = [work EXCEPT ![r] = NoWork]
    PROVE  /\ work' \in [Requests -> RequestWork]
           /\ \A q \in Requests \ {r} : work'[q] = work[q]
           /\ WorkFits(r)' /\ ~work'[r].holds
<1>1. /\ work' \in [Requests -> RequestWork] /\ work'[r] = NoWork
      /\ \A q \in Requests \ {r} : work'[q] = work[q]
  BY NoWorkTyped DEF CleanupInv, CleanupTypeOK
<1> QED BY <1>1 DEF WorkFits, NoWork, Changes, Cleaning

LEMMA EndKeeps ==
    ASSUME CleanupInv, NEW r \in Requests, work' = [work EXCEPT ![r] = NoWork],
           fresh' = fresh \ {r}, faults' \in 0..MaxFaults,
           UNCHANGED <<manifest, queue, old, stored>>
    PROVE  CleanupInv'
<1>1. MoveEffect(r)
  BY IdleFits DEF MoveEffect
<1> QED BY <1>1, MoveEffectKeeps

LEMMA FaultTyped == ASSUME CleanupInv, Fault PROVE faults' \in 0..MaxFaults
BY CleanupAssumption DEF CleanupInv, CleanupTypeOK, Fault

\* Only a request that changes the row is fresh.
LEMMA FreshChanges ==
    ASSUME CleanupInv, NEW r \in Requests, work[r].pc \notin Changes PROVE r \notin fresh
BY DEF CleanupInv, FreshApplies, Applicable

LEMMA StartKeeps ==
    ASSUME CleanupInv, NEW r \in Requests, Start(r) PROVE CleanupInv'
<1>1. /\ work[r].pc = "idle" /\ UNCHANGED <<manifest, queue, old, fresh, stored, faults>>
      /\ work' = [work EXCEPT ![r].pc = "list", ![r].active = ActiveManifest]
      /\ r \notin fresh
  BY FreshChanges DEF Start, Row, Changes
<1>2. /\ ActiveManifest \in {Active, Null} /\ (manifest = "enabled" => ActiveManifest = Active)
      /\ ActiveManifest \in Batches \cup {Null}
  BY CleanupAssumption DEF ActiveManifest
<1>3. /\ work' \in [Requests -> RequestWork]
      /\ work'[r].pc = "list" /\ work'[r].active = ActiveManifest
      /\ work'[r].on = work[r].on /\ work'[r].holds = work[r].holds
      /\ \A q \in Requests \ {r} : work'[q] = work[q]
  BY ZenonT(40), <1>1, <1>2 DEF CleanupInv, CleanupTypeOK, RequestWork
<1>4. WorkFits(r)'
  BY <1>1, <1>2, <1>3 DEF CleanupInv, WorkFits, Changes, Cleaning
<1>5. MoveEffect(r)
  BY <1>1, <1>3, <1>4 DEF MoveEffect, CleanupInv, CleanupTypeOK
<1> QED BY <1>5, MoveEffectKeeps

LEMMA ListQueueKeeps ==
    ASSUME CleanupInv, NEW r \in Requests, ListQueue(r) PROVE CleanupInv'
<1>1. PICK plan \in [Batches -> PlannedBatch] :
        work' = [work EXCEPT ![r].pc = "next", ![r].plan = plan]
  <2> DEFINE seen(b) == [NotPlanned EXCEPT !.state = queue[b], !.old = queue[b] # Null /\ old[b]]
  <2>1. \A b \in Batches : queue[b] \in States \cup {Null} /\ (queue[b] # Null /\ old[b]) \in BOOLEAN
    BY DEF CleanupInv, CleanupTypeOK
  <2>2. \A b \in Batches : seen(b) \in PlannedBatch
    BY <2>1 DEF PlannedBatch, NotPlanned
  <2>3. [b \in Batches |-> seen(b)] \in [Batches -> PlannedBatch]
    BY <2>2
  <2>4. work' = [work EXCEPT ![r].pc = "next", ![r].plan = [b \in Batches |-> seen(b)]]
    BY Zenon DEF ListQueue
  <2> QED BY <2>3, <2>4
<1>2. /\ work[r].pc = "list" /\ UNCHANGED <<manifest, queue, old, fresh, stored, faults>>
      /\ r \notin fresh
  BY FreshChanges DEF ListQueue, Row, Changes
<1>3. /\ work' \in [Requests -> RequestWork]
      /\ work'[r].pc = "next" /\ work'[r].active = work[r].active
      /\ work'[r].on = work[r].on /\ work'[r].holds = work[r].holds
      /\ \A q \in Requests \ {r} : work'[q] = work[q]
  BY ZenonT(40), <1>1 DEF CleanupInv, CleanupTypeOK, RequestWork
<1>4. WorkFits(r)'
  BY <1>2, <1>3 DEF CleanupInv, WorkFits, Changes, Cleaning
<1>5. MoveEffect(r)
  BY <1>2, <1>3, <1>4 DEF MoveEffect, CleanupInv, CleanupTypeOK
<1> QED BY <1>5, MoveEffectKeeps

\* The assets in use are passed over or their reservation forgotten; nothing
\* else of theirs is ever wanted.
LEMMA WantedOf ==
    ASSUME NEW r \in Requests, NEW b \in Batches, Wanted(r, b) # Null
    PROVE  \/ Wanted(r, b) = "unreserve" /\ b = work[r].active /\ work[r].plan[b].state = "reserved"
           \/ Wanted(r, b) = "claim" /\ b # work[r].active
BY DEF Wanted

LEMMA NextBatchKeeps ==
    ASSUME CleanupInv, NEW r \in Requests, NextBatch(r) PROVE CleanupInv'
<1> USE DEF Changes, Cleaning
<1>1. /\ work[r].pc = "next" /\ UNCHANGED <<manifest, queue, old, stored, faults>>
      /\ r \notin fresh /\ ~work[r].holds /\ faults \in 0..MaxFaults
  BY FreshChanges DEF NextBatch, CleanupInv, CleanupTypeOK, WorkFits
<1>2. CASE work' = [work EXCEPT ![r] = NoWork] /\ fresh' = fresh
  <2>1. fresh' = fresh \ {r}
    BY <1>1, <1>2
  <2> QED BY <1>1, <1>2, <2>1, EndKeeps
<1>3. ASSUME NEW b \in Batches, fresh' = fresh,
             work' = [work EXCEPT ![r].plan = Forget(r, b)]
      PROVE  CleanupInv'
  <2>1. Forget(r, b) \in [Batches -> PlannedBatch]
    BY ForgetTyped DEF CleanupInv
  <2>2. /\ work' \in [Requests -> RequestWork]
        /\ work'[r].pc = "next" /\ work'[r].active = work[r].active
        /\ work'[r].on = work[r].on /\ work'[r].holds = work[r].holds
        /\ \A q \in Requests \ {r} : work'[q] = work[q]
    BY ZenonT(40), <1>1, <1>3, <2>1 DEF CleanupInv, CleanupTypeOK, RequestWork
  <2>3. WorkFits(r)'
    BY <1>1, <2>2 DEF CleanupInv, WorkFits
  <2>4. MoveEffect(r)
    BY <1>1, <1>3, <2>2, <2>3 DEF MoveEffect
  <2> QED BY <2>4, MoveEffectKeeps
<1>4. ASSUME NEW b \in Batches, Wanted(r, b) # Null, Applies(r, Wanted(r, b), b),
             work' = [work EXCEPT ![r].pc = Wanted(r, b), ![r].on = b, ![r].tries = 1],
             fresh' = fresh \cup {r}
      PROVE  CleanupInv'
  <2> DEFINE k == Wanted(r, b)
  <2>1. \/ k = "unreserve" /\ b = work[r].active /\ work[r].plan[b].state = "reserved"
        \/ k = "claim" /\ b # work[r].active
    BY <1>4, WantedOf
  <2>2. 1 \in 0..CasAttempts
    BY CleanupAssumption
  <2> HIDE DEF k
  <2>3. /\ work' \in [Requests -> RequestWork]
        /\ work'[r].pc = k /\ work'[r].active = work[r].active /\ work'[r].plan = work[r].plan
        /\ work'[r].on = b /\ work'[r].holds = work[r].holds
        /\ \A q \in Requests \ {r} : work'[q] = work[q]
    BY ZenonT(40), <1>4, <2>1, <2>2 DEF CleanupInv, CleanupTypeOK, RequestWork, k
  <2>4. WorkFits(r)'
    BY <1>1, <2>1, <2>3 DEF CleanupInv, WorkFits
  <2>5. Applicable(r)'
    BY <1>1, <1>4, <2>1, <2>3 DEF Applicable, Applies, SameOwner, k
  <2>6. MoveEffect(r)
    BY <1>1, <1>4, <2>1, <2>3, <2>4, <2>5 DEF MoveEffect
  <2> QED BY <2>6, MoveEffectKeeps
<1> QED BY <1>2, <1>3, <1>4 DEF NextBatch

LEMMA ReadRowKeeps ==
    ASSUME CleanupInv, NEW r \in Requests, ReadRow(r) PROVE CleanupInv'
<1>1. /\ work[r].pc \in Changes /\ r \notin fresh /\ faults \in 0..MaxFaults
      /\ UNCHANGED <<manifest, queue, old, stored, faults>> /\ WorkFits(r)
  BY DEF ReadRow, CleanupInv, CleanupTypeOK
<1>2. CASE /\ Applies(r, work[r].pc, work[r].on) /\ AttemptsLeft(r)
           /\ fresh' = fresh \cup {r} /\ work' = [work EXCEPT ![r].tries = work[r].tries + 1]
  <2>1. work[r].tries + 1 \in 0..CasAttempts
    BY <1>2, WorkTyped, CleanupAssumption DEF AttemptsLeft, CleanupInv
  <2>2. /\ work' \in [Requests -> RequestWork]
        /\ work'[r].pc = work[r].pc /\ work'[r].active = work[r].active
        /\ work'[r].plan = work[r].plan
        /\ work'[r].on = work[r].on /\ work'[r].holds = work[r].holds
        /\ \A q \in Requests \ {r} : work'[q] = work[q]
    BY <1>2, <2>1 DEF CleanupInv, CleanupTypeOK, RequestWork
  <2>3. WorkFits(r)'
    BY <1>1, <2>2 DEF WorkFits
  <2>4. Applicable(r)'
    BY <1>1, <1>2, <2>2 DEF Applicable, Applies, SameOwner, OwnClaim
  <2>5. MoveEffect(r)
    BY <1>1, <1>2, <2>2, <2>3, <2>4 DEF MoveEffect
  <2> QED BY <2>5, MoveEffectKeeps
<1>3. CASE Goto(r, After(r, FALSE)) /\ fresh' = fresh
  <2>1. work' = [work EXCEPT ![r] = At(r, "next")]
    BY <1>3 DEF Goto, After
  <2>2. /\ work' \in [Requests -> RequestWork] /\ work'[r] = At(r, "next")
        /\ \A q \in Requests \ {r} : work'[q] = work[q]
    BY <2>1, AtTyped DEF CleanupInv, CleanupTypeOK
  <2>3. /\ work'[r].pc = "next" /\ work'[r].active = work[r].active /\ ~work'[r].holds
    BY <2>2, AtTyped DEF CleanupInv
  <2>4. WorkFits(r)'
    BY <1>1, <2>3 DEF WorkFits, Changes, Cleaning
  <2>5. MoveEffect(r)
    BY <1>1, <1>3, <2>2, <2>3, <2>4 DEF MoveEffect
  <2> QED BY <2>5, MoveEffectKeeps
<1> QED BY <1>2, <1>3 DEF ReadRow

LEMMA ReadBackKeeps ==
    ASSUME CleanupInv, NEW r \in Requests, ReadBack(r) PROVE CleanupInv'
<1>1. /\ work[r].pc = "verify" /\ UNCHANGED <<manifest, queue, old, fresh, stored>>
      /\ r \notin fresh /\ faults' \in 0..MaxFaults /\ WorkFits(r)
  BY FreshChanges, FaultTyped DEF ReadBack, Row, Changes, CleanupInv, CleanupTypeOK
<1>2. PICK step \in {"drop", "release"} :
        Goto(r, step) /\ (step = "drop" => stored[work[r].on] = {})
  BY DEF ReadBack
<1>3. /\ work' \in [Requests -> RequestWork] /\ work'[r] = At(r, step)
      /\ \A q \in Requests \ {r} : work'[q] = work[q]
  BY <1>2, AtTyped DEF Goto, CleanupInv, CleanupTypeOK, Changes
<1>4. /\ work'[r].pc = step /\ work'[r].active = work[r].active
      /\ work'[r].on = work[r].on /\ (work'[r].holds => work[r].holds)
  BY <1>3, AtTyped DEF CleanupInv, Changes
<1>5. WorkFits(r)'
  BY <1>1, <1>2, <1>4 DEF WorkFits, Changes, Cleaning
<1>6. MoveEffect(r)
  BY <1>1, <1>3, <1>4, <1>5 DEF MoveEffect
<1> QED BY <1>6, MoveEffectKeeps

LEMMA CrashKeeps ==
    ASSUME CleanupInv, NEW r \in Requests, Crash(r) PROVE CleanupInv'
BY EndKeeps, FaultTyped DEF Crash

(***************************************************************************)
(* The write of the row.                                                   *)
(***************************************************************************)
\* How a request goes on that has written, or that was told of a failure.
WriteNext(r, next) ==
    /\ next \in RequestWork
    /\ next.active \in {work[r].active, Null}
    /\ next.pc # "idle" => next.active = work[r].active
    /\ next.pc \in {"idle", "next", "delete"}
    /\ next.holds => next.pc = "delete"
    /\ next.pc = "delete" => work[r].pc = "claim" /\ next.on = work[r].on

LEMMA WriteNextOf ==
    ASSUME CleanupInv, NEW r \in Requests, work[r].pc \in Changes
    PROVE  WriteNext(r, NoWork) /\ WriteNext(r, At(r, After(r, TRUE)))
<1>1. WriteNext(r, NoWork)
  BY NoWorkTyped DEF WriteNext, NoWork
<1>2. CASE work[r].pc = "claim"
  <2>1. After(r, TRUE) = "delete"
    BY <1>2 DEF After
  <2> QED BY <1>1, <1>2, <2>1, AtTyped DEF WriteNext, CleanupInv
<1>3. CASE work[r].pc # "claim"
  <2>1. After(r, TRUE) = "next"
    BY <1>3 DEF After
  <2>2. WriteNext(r, At(r, "next"))
    BY AtTyped DEF WriteNext, CleanupInv
  <2> QED BY <1>1, <2>1, <2>2
<1> QED BY <1>2, <1>3

\* What the others see of a write: the claim they lose, and that another claim
\* was written on a batch they have planned.
LEMMA WriteOthers ==
    ASSUME CleanupInv, NEW r \in Requests, NEW next \in RequestWork, Write(r, next)
    PROVE  /\ work' \in [Requests -> RequestWork] /\ work'[r] = next
           /\ \A q \in Requests \ {r} :
                /\ work'[q].pc = work[q].pc /\ work'[q].on = work[q].on
                /\ work'[q].active = work[q].active
                /\ \A x \in Batches : work'[q].plan[x].state = work[q].plan[x].state
                /\ work'[q].holds =>
                     work[q].holds /\ ~(work[r].pc = "claim" /\ work[q].on = work[r].on)
<1> DEFINE b == work[r].on
           claim == work[r].pc = "claim"
           holds(q) == work[q].holds /\ ~(claim /\ work[q].on = b)
           taken(q) == work[q].plan[b].taken \/ (claim /\ work[q].plan[b].state # Null)
           left(q) == [work[q] EXCEPT !.holds = holds(q), !.plan[b].taken = taken(q)]
<1>1. work' = [q \in Requests |-> IF q = r THEN next ELSE left(q)]
  BY Zenon DEF Write
<1>2. ASSUME NEW q \in Requests
      PROVE  /\ left(q) \in RequestWork
             /\ left(q).pc = work[q].pc /\ left(q).on = work[q].on
             /\ left(q).active = work[q].active
             /\ \A x \in Batches : left(q).plan[x].state = work[q].plan[x].state
             /\ left(q).holds = holds(q)
  <2>1. /\ work[q] \in RequestWork /\ work[q].plan \in [Batches -> PlannedBatch]
        /\ b \in Batches \cup {Null}
    BY WorkTyped DEF CleanupInv
  <2>2. holds(q) \in BOOLEAN
    OBVIOUS
  <2>3. PICK h \in BOOLEAN : h = holds(q)
    BY <2>2
  <2>4. b \in Batches => taken(q) \in BOOLEAN
    OBVIOUS
  <2>5. PICK plan \in [Batches -> PlannedBatch] :
          /\ plan = [work[q].plan EXCEPT ![b].taken = taken(q)]
          /\ \A x \in Batches : plan[x].state = work[q].plan[x].state
    <3>1. \A t \in BOOLEAN :
            LET plan == [work[q].plan EXCEPT ![b].taken = t]
            IN  /\ plan \in [Batches -> PlannedBatch]
                /\ \A x \in Batches : plan[x].state = work[q].plan[x].state
      BY <2>1 DEF PlannedBatch
    <3>2. taken(q) \in BOOLEAN
      OBVIOUS
    <3> HIDE DEF taken, b
    <3> QED BY <3>1, <3>2
  <2>6. left(q) = [work[q] EXCEPT !.holds = h, !.plan = plan]
    <3>1. left(q) = [work[q] EXCEPT !.holds = holds(q), !.plan = [work[q].plan EXCEPT ![b].taken = taken(q)]]
      <4> HIDE DEF b, taken, holds
      <4> QED BY <2>1 DEF RequestWork
    <3> QED BY <2>3, <2>5, <3>1, Zenon
  <2> HIDE DEF left, holds, taken, b
  <2>7. [work[q] EXCEPT !.holds = h, !.plan = plan] \in RequestWork
    BY <2>1 DEF RequestWork
  <2> QED BY <2>1, <2>3, <2>5, <2>6, <2>7 DEF RequestWork
<1> HIDE DEF left
<1>3. \A q \in Requests \ {r} : work'[q] = left(q)
  BY <1>1
<1> QED BY <1>1, <1>2, <1>3

\* What the write does to the row, by the kind of change.
LEMMA WriteOwns ==
    ASSUME CleanupInv, NEW r \in fresh
    PROVE  /\ r \in Requests /\ work[r].pc \in Changes /\ work[r].on \in Batches
           /\ Changed(r) \in States \cup {Null}
           /\ work[r].pc = "claim" => Changed(r) = "cleanup_claimed"
           /\ Changed(r) = Null => work[r].on = Active \/ stored[work[r].on] = {}
           /\ work[r].pc # "claim" =>
                \A q \in Requests \ {r} : work[q].holds => work[q].on # work[r].on
<1> DEFINE b == work[r].on
<1>1. /\ r \in Requests /\ Applicable(r) /\ WorkFits(r)
  BY DEF CleanupInv, CleanupTypeOK, FreshApplies
<1>2. work[r].pc \in Changes /\ b \in Batches /\ Applies(r, work[r].pc, b)
  BY <1>1 DEF Applicable, WorkFits
<1>3. Changed(r) \in States \cup {Null} /\ (Changed(r) = Null => work[r].pc \in {"unreserve", "drop"})
  BY <1>2, CleanupAssumption DEF Changed, Changes, States
<1>4. CASE work[r].pc = "unreserve"
  <2>1. queue[b] = "reserved" /\ b = Active
    BY <1>1, <1>2, <1>4, NullState DEF Applies, SameOwner, WorkFits
  <2>2. \A q \in Requests : work[q].holds => work[q].on # b
    BY <2>1 DEF CleanupInv, HoldersOwnTheirBatch
  <2> QED BY <1>1, <1>2, <1>3, <1>4, <2>1, <2>2
<1>5. CASE work[r].pc = "claim"
  BY <1>1, <1>2, <1>3, <1>5, CleanupAssumption DEF Changed, States
<1>6. CASE work[r].pc \in {"drop", "release"}
  <2>1. work[r].holds
    BY <1>2, <1>6 DEF Applies, OwnClaim
  <2>2. \A q \in Requests \ {r} : work[q].holds => work[q].on # b
    BY <1>1, <2>1 DEF CleanupInv, OneHolder
  <2>3. Changed(r) = Null => stored[b] = {}
    BY <1>1, <1>3, <1>6 DEF WorkFits
  <2> QED BY <1>1, <1>2, <1>3, <1>6, <2>2, <2>3
<1> QED BY <1>2, <1>4, <1>5, <1>6 DEF Changes

LEMMA WriteKeeps ==
    ASSUME CleanupInv, NEW r \in fresh, NEW next, WriteNext(r, next), Write(r, next),
           UNCHANGED <<manifest, stored>>, faults' \in 0..MaxFaults
    PROVE  CleanupInv'
<1> DEFINE b == work[r].on
<1>1. /\ r \in Requests /\ b \in Batches /\ next \in RequestWork /\ work[r].pc \in Changes
      /\ WorkFits(r)
  BY WriteOwns DEF WriteNext, CleanupInv
<1>2. /\ queue' = [queue EXCEPT ![b] = Changed(r)] /\ old' = [old EXCEPT ![b] = FALSE]
      /\ fresh' = {}
  BY DEF Write
<1>3. /\ queue' \in [Batches -> States \cup {Null}] /\ queue'[b] = Changed(r)
      /\ \A x \in Batches \ {b} : queue'[x] = queue[x]
  BY <1>1, <1>2, WriteOwns DEF CleanupInv, CleanupTypeOK
<1>4. CleanupTypeOK'
  <2>1. work' \in [Requests -> RequestWork]
    BY <1>1, WriteOthers
  <2>2. old' \in [Batches -> BOOLEAN]
    BY <1>1, <1>2 DEF CleanupInv, CleanupTypeOK
  <2> QED BY <1>2, <1>3, <2>1, <2>2 DEF CleanupInv, CleanupTypeOK
<1>5. ForgottenMeansGone'
  BY <1>3, WriteOwns DEF ForgottenMeansGone, CleanupInv
<1>6. FilesInUseAreKept' /\ (manifest' = "enabled" => Active \in Batches)
  BY DEF CleanupInv, FilesInUseAreKept
<1>7. ASSUME NEW q \in Requests PROVE WorkFits(q)'
  <2>1. CASE q = r
    <3>1. work'[r] = next
      BY <1>1, WriteOthers
    <3>2. /\ next.active \in {Active, Null}
          /\ manifest' = "enabled" /\ next.pc # "idle" => next.active = Active
          /\ next.pc \in {"idle", "next", "delete"} /\ (next.holds => next.pc = "delete")
      BY <1>1 DEF WriteNext, WorkFits, Changes
    <3>3. next.pc = "delete" => next.on \in Batches /\ next.on # next.active
      BY <1>1 DEF WriteNext, WorkFits, Cleaning
    <3> QED BY <2>1, <3>1, <3>2, <3>3 DEF WorkFits, Changes, Cleaning
  <2>2. CASE q # r
    <3>1. /\ work'[q].pc = work[q].pc /\ work'[q].on = work[q].on
          /\ work'[q].active = work[q].active
          /\ \A x \in Batches : work'[q].plan[x].state = work[q].plan[x].state
          /\ work'[q].holds => work[q].holds
      BY <1>1, <2>2, WriteOthers
    <3>2. WorkFits(q)
      BY DEF CleanupInv
    <3> QED BY <3>1, <3>2 DEF WorkFits, Changes
  <2> QED BY <2>1, <2>2
\* Whoever holds a claim after the write held it before, on another batch, or
\* has written it.
<1>8. ASSUME NEW q \in Requests, work'[q].holds
      PROVE  /\ work'[q].on \in Batches
             /\ IF q = r THEN work[r].pc = "claim" /\ work'[q].on = b
                ELSE work[q].holds /\ work'[q].on = work[q].on /\ work'[q].on # b
  <2>1. CASE q = r
    BY <1>1, <1>8, <2>1, WriteOthers DEF WriteNext
  <2>2. CASE q # r
    <3>1. /\ work[q].holds /\ work'[q].on = work[q].on
          /\ ~(work[r].pc = "claim" /\ work[q].on = b)
      BY <1>1, <1>8, <2>2, WriteOthers
    <3>2. work[q].on # b
      BY <2>2, <3>1, WriteOwns
    <3>3. work[q].on \in Batches
      BY <3>1 DEF CleanupInv, WorkFits
    <3> QED BY <2>2, <3>1, <3>2, <3>3
  <2> QED BY <2>1, <2>2
<1>9. OneHolder'
  BY <1>8 DEF OneHolder, CleanupInv
<1>10. HoldersOwnTheirBatch'
  BY <1>3, <1>8, WriteOwns DEF HoldersOwnTheirBatch, CleanupInv
<1>11. FreshApplies'
  BY <1>2 DEF FreshApplies
<1> QED BY <1>4, <1>5, <1>6, <1>7, <1>9, <1>10, <1>11 DEF CleanupInv

LEMMA WriteRowKeeps ==
    ASSUME CleanupInv, NEW r \in Requests, WriteRow(r) \/ WriteRowFails(r) PROVE CleanupInv'
<1>1. /\ work[r].pc \in Changes /\ r \in fresh /\ UNCHANGED <<manifest, stored>>
      /\ faults' \in 0..MaxFaults
  BY FaultTyped DEF WriteRow, WriteRowFails, CleanupInv, CleanupTypeOK
<1>2. CASE Write(r, NoWork) \/ Write(r, At(r, After(r, TRUE)))
  BY <1>1, <1>2, WriteNextOf, WriteKeeps
<1>3. CASE work' = [work EXCEPT ![r] = NoWork] /\ fresh' = fresh \ {r} /\ UNCHANGED <<queue, old>>
  BY <1>1, <1>3, EndKeeps
<1> QED BY <1>2, <1>3 DEF WriteRow, WriteRowFails

(***************************************************************************)
(* Steps on the bucket, the manifest and the clock.                        *)
(***************************************************************************)
LEMMA DeleteFilesKeeps ==
    ASSUME CleanupInv, NEW r \in Requests, DeleteFiles(r) PROVE CleanupInv'
<1> DEFINE b == work[r].on
<1>1. /\ work[r].pc = "delete" /\ UNCHANGED <<manifest, queue, old, fresh>> /\ WorkFits(r)
      /\ work' = [work EXCEPT ![r].pc = "verify"] /\ r \notin fresh
      /\ faults' \in 0..MaxFaults
  BY FreshChanges, FaultTyped DEF DeleteFiles, Row, Changes, CleanupInv, CleanupTypeOK
<1>2. b \in Batches /\ b # work[r].active /\ work[r].active \in {Active, Null}
      /\ (manifest = "enabled" => work[r].active = Active)
  BY <1>1 DEF WorkFits, Changes, Cleaning
<1>3. PICK left \in SUBSET stored[b] : stored' = [stored EXCEPT ![b] = left]
  BY DEF DeleteFiles
<1>4. /\ stored' \in [Batches -> SUBSET Objects]
      /\ \A x \in Batches : stored'[x] \subseteq stored[x]
      /\ \A x \in Batches \ {b} : stored'[x] = stored[x]
  BY <1>2, <1>3 DEF CleanupInv, CleanupTypeOK
<1>5. /\ work' \in [Requests -> RequestWork]
      /\ work'[r].pc = "verify" /\ work'[r].active = work[r].active
      /\ work'[r].on = work[r].on /\ work'[r].holds = work[r].holds
      /\ \A q \in Requests \ {r} : work'[q] = work[q]
  BY <1>1 DEF CleanupInv, CleanupTypeOK, RequestWork
<1>6. CleanupTypeOK'
  BY <1>1, <1>4, <1>5 DEF CleanupInv, CleanupTypeOK
<1>7. ForgottenMeansGone'
  BY <1>1, <1>4 DEF CleanupInv, ForgottenMeansGone
<1>8. FilesInUseAreKept' /\ (manifest' = "enabled" => Active \in Batches)
  BY <1>1, <1>2, <1>4 DEF CleanupInv, FilesInUseAreKept
<1>9. ASSUME NEW q \in Requests PROVE WorkFits(q)'
  <2>1. CASE q = r
    BY <1>1, <1>2, <1>5, <2>1 DEF WorkFits, Changes, Cleaning
  <2>2. CASE q # r
    <3>1. work'[q] = work[q] /\ WorkFits(q)
      BY <1>5, <2>2 DEF CleanupInv
    <3> QED BY <1>1, <1>4, <3>1 DEF WorkFits, Changes, Cleaning
  <2> QED BY <2>1, <2>2
<1>10. OneHolder' /\ HoldersOwnTheirBatch'
  BY <1>1, <1>5 DEF CleanupInv, OneHolder, HoldersOwnTheirBatch
<1>11. FreshApplies'
  <2> SUFFICES ASSUME NEW q \in fresh' PROVE Applicable(q)'
    BY DEF FreshApplies
  <2>1. work'[q] = work[q] /\ Applicable(q)
    BY <1>1, <1>5 DEF CleanupInv, CleanupTypeOK, FreshApplies
  <2> QED BY <1>1, <2>1 DEF Applicable, Applies, SameOwner, OwnClaim
<1> QED BY <1>6, <1>7, <1>8, <1>9, <1>10, <1>11 DEF CleanupInv

\* The row, the bucket and the requests are left alone.
LEMMA RestKeeps ==
    ASSUME CleanupInv, UNCHANGED <<queue, stored, fresh, work, faults>>,
           old' \in [Batches -> BOOLEAN],
           manifest' = manifest \/ manifest' = "disabled"
    PROVE  CleanupInv'
<1>1. CleanupTypeOK'
  BY DEF CleanupInv, CleanupTypeOK
<1>2. /\ ForgottenMeansGone' /\ FilesInUseAreKept' /\ (manifest' = "enabled" => Active \in Batches)
      /\ OneHolder' /\ HoldersOwnTheirBatch'
  BY DEF CleanupInv, ForgottenMeansGone, FilesInUseAreKept, OneHolder, HoldersOwnTheirBatch
<1>3. \A q \in Requests : WorkFits(q)'
  BY DEF CleanupInv, WorkFits
<1>4. FreshApplies'
  BY DEF CleanupInv, FreshApplies, Applicable, Applies, SameOwner, OwnClaim
<1> QED BY <1>1, <1>2, <1>3, <1>4 DEF CleanupInv

LEMMA CleanupInvStep == CleanupInv /\ [CleanupNext]_cleanupVars => CleanupInv'
<1> SUFFICES ASSUME CleanupInv, [CleanupNext]_cleanupVars PROVE CleanupInv'
  OBVIOUS
<1>1. ASSUME NEW r \in Requests, Steps(r) PROVE CleanupInv'
  BY <1>1, StartKeeps, ListQueueKeeps, NextBatchKeeps, ReadRowKeeps, WriteRowKeeps,
     DeleteFilesKeeps, ReadBackKeeps DEF Steps
<1>2. ASSUME NEW r \in Requests, WriteRowFails(r) \/ Crash(r) PROVE CleanupInv'
  BY <1>2, WriteRowKeeps, CrashKeeps
<1>3. CASE Deactivate
  BY <1>3, RestKeeps DEF Deactivate, CleanupInv, CleanupTypeOK
<1>4. ASSUME NEW b \in Batches, TenMinutes(b) PROVE CleanupInv'
  <2>1. old' \in [Batches -> BOOLEAN]
    BY <1>4 DEF TenMinutes, CleanupInv, CleanupTypeOK
  <2> QED BY <1>4, <2>1, RestKeeps DEF TenMinutes
<1>5. CASE UNCHANGED cleanupVars
  BY <1>5, RestKeeps DEF cleanupVars, CleanupInv, CleanupTypeOK
<1> QED BY <1>1, <1>2, <1>3, <1>4, <1>5 DEF CleanupNext

LEMMA CleanupInvAlways == CleanupSpec => []CleanupInv
BY CleanupInvInit, CleanupInvStep, PTL DEF CleanupSpec

\* The queue and the storage agree however many deletions of the Custom UI go
\* through the queue at once, whichever of their calls fail, and whichever dies
\* between deleting files and writing the row: what is in use is still there,
\* and a file that is still there is named by a batch.
THEOREM ForgottenFilesAreGone == CleanupSpec => []CleanupInvariant
<1>1. CleanupInv => CleanupInvariant
  BY DEF CleanupInv, CleanupInvariant
<1> QED BY <1>1, CleanupInvAlways, PTL

\* A claim that was taken over after ten minutes is lost to its holder at that
\* moment, so the slow holder writes nothing under the new one.
THEOREM SlowHoldersYield == CleanupSpec => []HoldersOwnTheirBatch
<1>1. CleanupInv => HoldersOwnTheirBatch
  BY DEF CleanupInv
<1> QED BY <1>1, CleanupInvAlways, PTL
=============================================================================
