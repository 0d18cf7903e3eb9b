----------------------- MODULE CustomUiDeletionProofs -----------------------
(***************************************************************************)
(* The deletion of the Custom UI, for any number of requests and files,    *)
(* and however many calls fail, answers are lost and requests die.         *)
(***************************************************************************)
EXTENDS CustomUiDeletion, TLAPS

(***************************************************************************)
(* The inductive invariant: the outbox.                                    *)
(***************************************************************************)
Unsent(e) == log[e] = 0 /\ e \notin underway
NotYet(e) == e \notin committed /\ Unsent(e)

\* The row tells what became of its event, and how far the deletion has come.
RowFits ==
    /\ row \in Manifests /\ ValidManifest(row)
    /\ row.event # Null => row.event \in committed
    /\ row.delivery = "ready" => Unsent(row.event)
    /\ row.delivery = "delivered" => log[row.event] = 1
    /\ row.enabled => row.life = "active"
    /\ row.life = "active" => NotYet("delete_pending")
    /\ IF row.life = "objects_deleted" THEN stored = {} /\ "deleted" \in committed
       ELSE NotYet("deleted")

Kept(e) == log[e] = 1 \/ (row # Null /\ row.event = e)
OnItsWay(e) ==
    /\ log[e] = 0 /\ row # Null /\ row.event = e
    /\ row.delivery \in {"sending", "delivery_unknown"}

Announced == Disabled /\ ("delete_pending" \in committed => log["delete_pending"] = 1)

OutboxFits ==
    /\ row = Null => stored = {} /\ "deleted" \in committed
    /\ row # Null => RowFits
    /\ \A e \in Events : log[e] \in {0, 1}
    /\ \A e \in committed : Kept(e)
    /\ \A e \in underway : OnItsWay(e)
    /\ stored # Objects => Announced

(***************************************************************************)
(* The inductive invariant: the requests.                                  *)
(***************************************************************************)
\* A request that knows the current revision knows the row.
SnapFits(r) ==
    /\ req[r].pc # "idle" => req[r].snap \in Manifests /\ ValidManifest(req[r].snap)
    /\ row # Null /\ req[r].snap # Null =>
         req[r].snap.rev <= row.rev /\ (req[r].snap.rev = row.rev => req[r].snap = row)

\* What a request is about to write is true; one that is about to post holds
\* the lease of an event that nobody has sent.
StepFits(r) ==
    /\ req[r].pc = "lease" => req[r].snap.delivery = "ready"
    /\ req[r].pc \in {"post", "settle"} => req[r].snap.delivery = "sending"
    /\ req[r].pc = "post" => row = req[r].snap /\ Unsent(req[r].snap.event)
    /\ req[r].pc = "settle" /\ req[r].post = "delivered" => log[req[r].snap.event] = 1
    /\ req[r].pc = "settle" /\ req[r].post = "rejected" /\ row = req[r].snap =>
         Unsent(req[r].snap.event)
    /\ req[r].pc \in {"readback", "confirm"} =>
         req[r].snap.delivery \in {"sending", "delivery_unknown"}
    /\ req[r].pc = "confirm" => log[req[r].snap.event] = 1
    /\ req[r].pc = "clear" => req[r].snap.delivery = "delivered"
    /\ req[r].pc \in {"deactivate", "remove", "record", "drop"} => req[r].snap.event = Null
    /\ req[r].pc = "deactivate" => req[r].snap.enabled
    /\ req[r].pc \in {"remove", "record"} => req[r].snap.life # "objects_deleted" /\ Announced
    /\ req[r].pc = "record" => stored = {}
    /\ req[r].pc = "drop" => req[r].snap.life = "objects_deleted"

OwnFits(r) ==
    /\ req[r].own \in {"delete_pending", "deleted", Null}
    /\ req[r].own = "delete_pending" => Disabled
    /\ req[r].own = "deleted" => stored = {}

RequestFits(r) == SnapFits(r) /\ StepFits(r) /\ OwnFits(r)

\* A lease has one holder.
Sender(r) == req[r].pc \in {"post", "settle"}
OneSender ==
    \A r, q \in Requests : Sender(r) /\ Sender(q) /\ req[r].snap = req[q].snap => r = q

ReplyIsTrue(r) ==
    /\ reply[r] = "deleted" => row = Null
    /\ reply[r] = "deleted_audit_pending" => stored = {}
    /\ reply[r] = "deactivated" => Disabled

DeletionInv ==
    /\ DeletionTypeOK
    /\ OutboxFits
    /\ \A r \in Requests : RequestFits(r)
    /\ OneSender
    /\ \A r \in Requests : ReplyIsTrue(r)

(***************************************************************************)
(* Types.                                                                  *)
(***************************************************************************)
LEMMA Nulls ==
    /\ Null \notin Events /\ Null \notin Deliveries /\ Null \notin Manifests /\ Null \notin Replies
BY DeletionAssumption

LEMMA NoRequestTyped == NoRequest \in RequestState
BY DEF NoRequest, RequestState

LEMMA RequestTyped ==
    ASSUME DeletionInv, NEW r \in Requests
    PROVE  /\ req[r] \in RequestState /\ req[r].snap \in Manifests \cup {Null}
           /\ RequestFits(r)
           /\ req[r].pc # "idle" =>
                /\ req[r].snap \in Manifests /\ req[r].snap # Null
                /\ req[r].snap.delivery # Null => req[r].snap.event \in Events
BY Nulls DEF DeletionInv, DeletionTypeOK, RequestState, RequestFits, SnapFits, ValidManifest, Manifests

LEMMA DeletionInvInit == DeletionInit => DeletionInv
<1> SUFFICES ASSUME DeletionInit PROVE DeletionInv
  OBVIOUS
<1> USE Nulls DEF DeletionInit
<1>1. /\ row \in Manifests /\ ValidManifest(row) /\ row # Null /\ row.life = "active"
      /\ row.event \in {"uploaded", Null} /\ row.delivery \in {"ready", "delivery_unknown", Null}
  BY DEF Manifests, ValidManifest, Events, Deliveries
<1>2. /\ log \in [Events -> Nat] /\ \A e \in Events : log[e] \in {0, 1}
      /\ log["delete_pending"] = 0 /\ log["deleted"] = 0
  BY DEF Events
<1>3. \A r \in Requests : /\ req[r].pc = "idle" /\ req[r].snap = Null /\ req[r].own = Null
                          /\ reply[r] = Null
  BY DEF NoRequest
<1>4. DeletionTypeOK
  BY <1>1, <1>2, NoRequestTyped DEF DeletionTypeOK, Events
<1>5. OutboxFits
  <2>1. RowFits
    BY <1>1, <1>2 DEF RowFits, NotYet, Unsent, Events, Deliveries
  <2>2. \A e \in committed : Kept(e)
    BY <1>1, <1>2 DEF Kept, Events
  <2> QED BY <1>1, <1>2, <2>1, <2>2 DEF OutboxFits
<1>6. \A r \in Requests : RequestFits(r)
  BY <1>3 DEF RequestFits, SnapFits, StepFits, OwnFits, Events
<1>7. OneSender /\ \A r \in Requests : ReplyIsTrue(r)
  BY <1>3 DEF OneSender, Sender, ReplyIsTrue, Replies
<1> QED BY <1>4, <1>5, <1>6, <1>7 DEF DeletionInv

(***************************************************************************)
(* What the other requests rely on while one takes a step.                 *)
(***************************************************************************)
Progress ==
    /\ stored' \subseteq stored
    /\ \A e \in Events : log[e] = 1 => log'[e] = 1
    /\ Disabled => Disabled' /\ ("delete_pending" \in committed' => "delete_pending" \in committed)
    /\ \/ row' = row
       \/ row' = Null
       \/ row # Null /\ row' \in Manifests /\ row'.rev > row.rev

\* Nobody writes the row under a request that is about to post, or sends the
\* event of one whose post was refused.
LeaseRespected(q) ==
    Sender(q) /\ row = req[q].snap =>
      /\ req[q].pc = "post" => row' = row
      /\ row' = row /\ Unsent(req[q].snap.event) =>
           log'[req[q].snap.event] = 0 /\ req[q].snap.event \notin underway'

LEMMA OthersFit ==
    ASSUME DeletionInv, NEW q \in Requests, req'[q] = req[q], Progress, LeaseRespected(q)
    PROVE  RequestFits(q)'
<1> USE Nulls
<1>1. /\ RequestFits(q) /\ req[q].snap \in Manifests \cup {Null}
      /\ req[q].pc # "idle" =>
           /\ req[q].snap \in Manifests /\ req[q].snap # Null
           /\ req[q].snap.delivery # Null => req[q].snap.event \in Events
  BY RequestTyped
<1>2. row \in Manifests \cup {Null}
  BY DEF DeletionInv, DeletionTypeOK
<1>3. SnapFits(q)'
  BY <1>1, <1>2 DEF RequestFits, SnapFits, Progress, Manifests, ValidManifest
<1>4. Announced => Announced'
  BY DEF Progress, Announced, Events
<1>5. row' = req[q].snap /\ req[q].pc # "idle" => row' = row
  BY <1>1, <1>2 DEF RequestFits, SnapFits, Progress, Manifests
<1>6. StepFits(q)'
  <2>1. StepFits(q)
    BY <1>1 DEF RequestFits
  <2>2. (req[q].pc = "post" => row = req[q].snap /\ Unsent(req[q].snap.event))'
    BY <2>1 DEF StepFits, LeaseRespected, Sender, Unsent
  <2>3. (req[q].pc = "settle" /\ req[q].post = "rejected" /\ row = req[q].snap =>
           Unsent(req[q].snap.event))'
    BY <1>5, <2>1 DEF StepFits, LeaseRespected, Sender, Unsent
  <2>4. (/\ req[q].pc = "settle" /\ req[q].post = "delivered" => log[req[q].snap.event] = 1
         /\ req[q].pc = "confirm" => log[req[q].snap.event] = 1)'
    BY <1>1, <2>1 DEF StepFits, Progress, Deliveries
  <2>5. (/\ req[q].pc \in {"remove", "record"} => req[q].snap.life # "objects_deleted" /\ Announced
         /\ req[q].pc = "record" => stored = {})'
    BY <1>4, <2>1 DEF StepFits, Progress
  <2> QED BY <2>1, <2>2, <2>3, <2>4, <2>5 DEF StepFits
<1>7. OwnFits(q)'
  BY <1>1 DEF RequestFits, OwnFits, Progress
<1> QED BY <1>3, <1>6, <1>7 DEF RequestFits

LEMMA RepliesStayTrue ==
    ASSUME DeletionInv, NEW q \in Requests, reply'[q] = reply[q], Progress
    PROVE  ReplyIsTrue(q)'
BY DEF DeletionInv, ReplyIsTrue, Progress

\* A step of one request.
LEMMA RequestKeeps ==
    ASSUME DeletionInv, NEW r \in Requests, DeletionTypeOK', OutboxFits', Progress,
           \A q \in Requests \ {r} :
             req'[q] = req[q] /\ reply'[q] = reply[q] /\ LeaseRespected(q),
           RequestFits(r)', ReplyIsTrue(r)',
           Sender(r)' => \A q \in Requests \ {r} : Sender(q) => req[q].snap # req'[r].snap
    PROVE  DeletionInv'
<1>1. ASSUME NEW q \in Requests PROVE RequestFits(q)' /\ ReplyIsTrue(q)'
  <2>1. CASE q = r
    BY <2>1
  <2>2. CASE q # r
    BY <2>2, OthersFit, RepliesStayTrue
  <2> QED BY <2>1, <2>2
<1>2. OneSender'
  BY DEF DeletionInv, OneSender, Sender
<1> QED BY <1>1, <1>2 DEF DeletionInv

(***************************************************************************)
(* Writes of the row.                                                      *)
(***************************************************************************)
LEMMA Stored ==
    ASSUME NEW new \in Manifests, ValidManifest(new), Store(new)
    PROVE  /\ row' \in Manifests /\ row' # Null /\ ValidManifest(row)' /\ row'.rev = new.rev + 1
           /\ row'.enabled = new.enabled /\ row'.life = new.life
           /\ row'.event = new.event /\ row'.delivery = new.delivery
           /\ committed' = committed \cup ({new.event} \ {Null})
<1>1. row' = [new EXCEPT !.rev = new.rev + 1]
  BY DEF Store
<1>2. /\ row' \in Manifests /\ row'.rev = new.rev + 1
      /\ row'.enabled = new.enabled /\ row'.life = new.life
      /\ row'.event = new.event /\ row'.delivery = new.delivery
  BY <1>1 DEF Manifests
<1> QED BY <1>2, Nulls DEF Store, ValidManifest

Writes == {"lease", "settle", "confirm", "clear", "deactivate", "record"}

\* A write of the row that the invariant allows.
RowEffect ==
    /\ OutboxFits' /\ Progress
    /\ row' \in Manifests /\ ValidManifest(row)' /\ row' # Null /\ committed' \subseteq Events
    /\ \A q \in Requests : req[q].snap # row'

\* Who writes the row from its latest revision meets nobody about to post.
LEMMA NobodyPosts ==
    ASSUME DeletionInv, NEW r \in Requests, req[r].pc \in Writes \cup {"drop"}, row = req[r].snap,
           NEW q \in Requests \ {r}
    PROVE  ~(Sender(q) /\ req[q].pc = "post") /\ (req[r].pc = "settle" => ~(Sender(q) /\ row = req[q].snap))
<1>1. StepFits(r) /\ StepFits(q) /\ row \in Manifests /\ ValidManifest(row)
  BY RequestTyped DEF RequestFits, SnapFits, Writes
<1>2. CASE req[r].pc = "settle"
  BY <1>1, <1>2 DEF DeletionInv, OneSender, Sender, StepFits
<1>3. CASE req[r].pc # "settle" /\ req[q].pc = "post"
  <2>1. row.delivery = "sending" /\ log[row.event] = 0 /\ row.event # Null
    BY <1>1, <1>3, Nulls DEF StepFits, Unsent, ValidManifest, Deliveries
  <2> QED BY <1>1, <1>3, <2>1 DEF StepFits, Writes
<1> QED BY <1>2, <1>3

\* The conditions under which a write keeps the outbox.
LEMMA WriteKeepsOutbox ==
    ASSUME DeletionInv, NEW r \in Requests, row = req[r].snap, req[r].pc # "idle",
           NEW new \in Manifests, ValidManifest(new), new.rev = row.rev, Store(new),
           UNCHANGED <<stored, log, underway>>,
           new.enabled => row.enabled,
           row.event \in {new.event, Null} \/ log[row.event] = 1,
           row.event \in underway =>
             new.event = row.event /\ new.delivery \in {"sending", "delivery_unknown"},
           new.event \in committed \cup {Null, "deleted"} \/ row.enabled,
           new.delivery = "ready" => Unsent(new.event),
           new.delivery = "delivered" => log[new.event] = 1,
           new.enabled => new.life = "active",
           new.life = "active" => NotYet("delete_pending") /\ new.event # "delete_pending",
           IF new.life = "objects_deleted" THEN stored = {} /\ "deleted" \in committed'
           ELSE NotYet("deleted") /\ new.event # "deleted"
    PROVE  RowEffect
<1> USE Nulls
<1>1. /\ row \in Manifests /\ row # Null /\ RowFits /\ OutboxFits /\ DeletionTypeOK
  BY RequestTyped DEF DeletionInv, OutboxFits
<1>2. /\ row' \in Manifests /\ row' # Null /\ ValidManifest(row)' /\ row'.rev = row.rev + 1
      /\ row'.enabled = new.enabled /\ row'.life = new.life
      /\ row'.event = new.event /\ row'.delivery = new.delivery
      /\ committed' = committed \cup ({new.event} \ {Null})
  BY Stored
<1>3. RowFits'
  BY <1>2 DEF RowFits, NotYet, Unsent
<1>4. ASSUME NEW e \in committed' PROVE Kept(e)'
  <2>1. e \in Events /\ (e \in committed \/ e = new.event)
    BY <1>1, <1>2, <1>4 DEF DeletionTypeOK, Manifests
  <2>2. log'[e] = log[e] /\ (e \in committed => log[e] = 1 \/ row.event = e)
    BY <1>1 DEF OutboxFits, Kept
  <2> QED BY <1>2, <2>1, <2>2 DEF Kept
<1>5. ASSUME NEW e \in underway' PROVE OnItsWay(e)'
  BY <1>1, <1>2, <1>5 DEF OutboxFits, OnItsWay
<1>6. Disabled => Disabled' /\ ("delete_pending" \in committed' => "delete_pending" \in committed)
  BY <1>1, <1>2 DEF Disabled, Manifests
<1>7. Announced => Announced'
  BY <1>6 DEF Announced
<1>8. OutboxFits'
  BY <1>1, <1>2, <1>3, <1>4, <1>5, <1>7 DEF OutboxFits
<1>9. Progress
  BY <1>1, <1>2, <1>6 DEF Progress, Manifests
<1>10. committed' \subseteq Events
  BY <1>1, <1>2 DEF DeletionTypeOK, Manifests
<1>11. ASSUME NEW q \in Requests PROVE req[q].snap # row'
  <2>1. req[q].snap = Null \/ req[q].snap.rev <= row.rev
    BY <1>1, RequestTyped DEF RequestFits, SnapFits
  <2> QED BY <1>1, <1>2, <2>1 DEF Manifests
<1> QED BY <1>2, <1>8, <1>9, <1>10, <1>11 DEF RowEffect

\* What a write that succeeds leaves of the request.
SwapEffect(r, step, own) ==
    /\ row = req[r].snap /\ req[r].pc \in Writes /\ RowEffect
    /\ req' = [req EXCEPT ![r] = [req[r] EXCEPT !.pc = step, !.snap = row', !.own = own]]
    /\ UNCHANGED <<stored, log, underway, reply>>

\* A write that fails, is lost or is beaten by another ends the request, or
\* leaves the event pending.
LoseEffect(r) ==
    /\ req[r].pc \in Writes
    /\ UNCHANGED <<row, committed>> \/ (row = req[r].snap /\ RowEffect)
    /\ \/ req' = [req EXCEPT ![r].pc = "pending"] /\ reply' = reply
       \/ /\ req' = [req EXCEPT ![r] = NoRequest]
          /\ \E answer \in {"unavailable", "conflict"} : reply' = [reply EXCEPT ![r] = answer]
    /\ UNCHANGED <<stored, log, underway>>

LEMMA SwapKeeps ==
    ASSUME DeletionInv, NEW r \in Requests,
           NEW step \in {"post", "pending", "clear", "lease", "drop", "deactivate", "remove"},
           NEW own \in Events \cup {Null}, SwapEffect(r, step, own), StepFits(r)', OwnFits(r)'
    PROVE  DeletionInv'
<1> USE Nulls
<1>1. /\ req[r] \in RequestState /\ row \in Manifests /\ row # Null /\ DeletionTypeOK
  BY RequestTyped DEF SwapEffect, Writes, DeletionInv
<1>2. /\ req' \in [Requests -> RequestState]
      /\ req'[r].pc = step /\ req'[r].snap = row' /\ req'[r].own = own
      /\ \A q \in Requests \ {r} : req'[q] = req[q]
  BY <1>1 DEF SwapEffect, RowEffect, DeletionTypeOK, RequestState
<1>3. DeletionTypeOK'
  BY <1>1, <1>2 DEF SwapEffect, RowEffect, DeletionTypeOK
<1>4. SnapFits(r)'
  BY <1>2 DEF SnapFits, SwapEffect, RowEffect, Manifests
<1>5. \A q \in Requests \ {r} : LeaseRespected(q)
  <2> SUFFICES ASSUME NEW q \in Requests \ {r} PROVE LeaseRespected(q)
    OBVIOUS
  <2>1. ~(Sender(q) /\ req[q].pc = "post")
    BY NobodyPosts DEF SwapEffect
  <2> QED BY <2>1 DEF LeaseRespected, SwapEffect, Unsent
<1>6. ReplyIsTrue(r)'
  BY RepliesStayTrue DEF SwapEffect, RowEffect
<1>7. \A q \in Requests \ {r} : req[q].snap # req'[r].snap
  BY <1>2 DEF SwapEffect, RowEffect
<1> QED BY <1>2, <1>3, <1>4, <1>5, <1>6, <1>7, RequestKeeps DEF RequestFits, SwapEffect, RowEffect

LEMMA LoseKeeps ==
    ASSUME DeletionInv, NEW r \in Requests, LoseEffect(r) PROVE DeletionInv'
<1> USE Nulls
<1>1. /\ req[r] \in RequestState /\ RequestFits(r) /\ DeletionTypeOK
  BY RequestTyped DEF DeletionInv
<1>2. /\ OutboxFits' /\ Progress
      /\ row' = row \/ (row' \in Manifests /\ ValidManifest(row)')
      /\ committed' \subseteq Events
      /\ \A q \in Requests \ {r} : LeaseRespected(q)
  <2>1. CASE UNCHANGED <<row, committed>>
    <3>1. OutboxFits'
      BY <2>1 DEF LoseEffect, DeletionInv, OutboxFits, RowFits, NotYet, Unsent, ValidManifest,
                  Kept, OnItsWay, Announced, Disabled
    <3>2. Progress
      BY <2>1 DEF LoseEffect, Progress, Disabled
    <3> QED BY <1>1, <2>1, <3>1, <3>2 DEF LoseEffect, DeletionTypeOK, LeaseRespected, Unsent
  <2>2. CASE row = req[r].snap /\ RowEffect
    <3> SUFFICES ASSUME NEW q \in Requests \ {r} PROVE LeaseRespected(q)
      BY <2>2 DEF RowEffect
    <3>1. ~(Sender(q) /\ req[q].pc = "post")
      BY <2>2, NobodyPosts DEF LoseEffect
    <3> QED BY <3>1 DEF LeaseRespected, LoseEffect, Unsent
  <2> QED BY <2>1, <2>2 DEF LoseEffect
<1>3. CASE req' = [req EXCEPT ![r].pc = "pending"] /\ reply' = reply
  <2>1. /\ req' \in [Requests -> RequestState]
        /\ req'[r].pc = "pending" /\ req'[r].snap = req[r].snap /\ req'[r].own = req[r].own
        /\ \A q \in Requests \ {r} : req'[q] = req[q]
    BY <1>1, <1>3 DEF DeletionTypeOK, RequestState
  <2>2. DeletionTypeOK'
    BY <1>1, <1>2, <1>3, <2>1 DEF LoseEffect, DeletionTypeOK, ValidManifest
  <2>3. SnapFits(r)'
    <3>1. row \in Manifests \cup {Null} /\ req[r].pc # "idle" /\ req[r].snap \in Manifests
      BY <1>1, RequestTyped DEF LoseEffect, Writes, DeletionTypeOK
    <3> QED BY <1>1, <1>2, <2>1, <3>1 DEF RequestFits, SnapFits, Progress, Manifests, ValidManifest
  <2>4. OwnFits(r)' /\ ReplyIsTrue(r)'
    BY <1>1, <1>2, <1>3, <2>1, RepliesStayTrue DEF RequestFits, OwnFits, Progress
  <2>5. StepFits(r)' /\ ~Sender(r)'
    BY <2>1 DEF StepFits, Sender
  <2> QED BY <1>2, <1>3, <2>1, <2>2, <2>3, <2>4, <2>5, RequestKeeps DEF RequestFits
<1>4. ASSUME req' = [req EXCEPT ![r] = NoRequest],
             NEW answer \in {"unavailable", "conflict"}, reply' = [reply EXCEPT ![r] = answer]
      PROVE  DeletionInv'
  <2>1. /\ req' \in [Requests -> RequestState] /\ req'[r] = NoRequest
        /\ reply' \in [Requests -> Replies \cup {Null}] /\ reply'[r] = answer
        /\ \A q \in Requests \ {r} : req'[q] = req[q] /\ reply'[q] = reply[q]
    BY <1>1, <1>4, NoRequestTyped DEF DeletionTypeOK, Replies
  <2>2. DeletionTypeOK'
    BY <1>1, <1>2, <2>1 DEF LoseEffect, DeletionTypeOK, ValidManifest
  <2>3. RequestFits(r)' /\ ReplyIsTrue(r)' /\ ~Sender(r)'
    BY <2>1 DEF RequestFits, SnapFits, StepFits, OwnFits, ReplyIsTrue, Sender, NoRequest, Events
  <2> QED BY <1>2, <2>1, <2>2, <2>3, RequestKeeps
<1> QED BY <1>3, <1>4 DEF LoseEffect

(***************************************************************************)
(* The delivery of the pending event.                                      *)
(***************************************************************************)
LEMMA DeliverEffect ==
    ASSUME DeletionInv, NEW r \in Requests, req[r].pc \in {"lease", "settle", "confirm"},
           NEW state \in Deliveries, row = req[r].snap, Store(Deliver(r, state)),
           UNCHANGED <<stored, log, underway>>,
           state = "ready" => Unsent(row.event),
           state = "delivered" => log[row.event] = 1
    PROVE  /\ RowEffect /\ row'.event = row.event /\ row'.delivery = state
           /\ row'.event \in Events /\ row'.life = row.life /\ row'.enabled = row.enabled
<1> USE Nulls
<1> DEFINE new == Deliver(r, state)
<1>1. /\ row \in Manifests /\ ValidManifest(row) /\ row.event \in Events /\ RowFits
      /\ row.delivery # Null
  <2>1. row.delivery # Null
    BY RequestTyped DEF RequestFits, StepFits, Deliveries
  <2> QED BY <2>1, RequestTyped DEF DeletionInv, OutboxFits, RowFits
<1>2. /\ new \in Manifests /\ new.delivery = state /\ new.event = row.event
      /\ new.life = row.life /\ new.enabled = row.enabled /\ new.rev = row.rev
  BY <1>1 DEF Deliver, Manifests
<1> HIDE DEF new
<1>3. ValidManifest(new)
  BY <1>1, <1>2 DEF ValidManifest
<1>4. Store(new)
  BY DEF new
<1>5. committed' = committed \cup ({new.event} \ {Null})
  BY <1>4 DEF Store
<1>6. state \in {"ready", "delivered"} => row.event \notin underway
  BY <1>1 DEF Unsent, DeletionInv, OutboxFits, OnItsWay
<1>7. /\ row.event \in committed
      /\ row.life = "active" => row.event # "delete_pending"
      /\ row.life # "objects_deleted" => row.event # "deleted"
  BY <1>1 DEF RowFits, NotYet
<1>8. RowEffect
  <2>1. row.event \in underway =>
          new.event = row.event /\ new.delivery \in {"sending", "delivery_unknown"}
    BY <1>2, <1>6 DEF Deliveries
  <2>2. /\ new.delivery = "ready" => Unsent(new.event)
        /\ new.delivery = "delivered" => log[new.event] = 1
        /\ new.enabled => new.life = "active"
        /\ new.life = "active" => NotYet("delete_pending") /\ new.event # "delete_pending"
    BY <1>1, <1>2, <1>7 DEF RowFits
  <2>3. IF new.life = "objects_deleted" THEN stored = {} /\ "deleted" \in committed'
        ELSE NotYet("deleted") /\ new.event # "deleted"
    BY <1>1, <1>2, <1>5, <1>7 DEF RowFits
  <2> QED BY <1>2, <1>3, <1>4, <1>7, <2>1, <2>2, <2>3, WriteKeepsOutbox
<1>9. /\ row'.event = new.event /\ row'.delivery = new.delivery
      /\ row'.life = new.life /\ row'.enabled = new.enabled
  BY <1>2, <1>3, <1>4, Stored
<1> QED BY <1>1, <1>2, <1>8, <1>9

\* A request with no event pending goes on by the manifest.
LEMMA ResumeFits ==
    ASSUME NEW r \in Requests, OutboxFits', row' \in Manifests, row' # Null, row'.event = Null,
           req'[r].snap = row', DeletionTypeOK',
           req'[r].pc = IF row'.life = "objects_deleted" THEN "drop"
                        ELSE IF row'.enabled THEN "deactivate" ELSE "remove"
    PROVE  StepFits(r)'
<1>1. req'[r].pc = "remove" => Announced'
  BY Nulls DEF OutboxFits, Kept, Announced, Disabled, DeletionTypeOK
<1> QED BY <1>1 DEF StepFits

LEMMA ResumeIs ==
    ASSUME NEW manifest
    PROVE  Resume(manifest) = IF manifest.life = "objects_deleted" THEN "drop"
                              ELSE IF manifest.enabled THEN "deactivate" ELSE "remove"
BY DEF Resume

LEMMA ClearEffect ==
    ASSUME DeletionInv, NEW r \in Requests, req[r].pc = "clear", row = req[r].snap,
           Store([req[r].snap EXCEPT !.event = Null, !.delivery = Null]),
           UNCHANGED <<stored, log, underway>>
    PROVE  /\ RowEffect /\ row'.event = Null
           /\ row'.life = row.life /\ row'.enabled = row.enabled
<1> USE Nulls
<1> DEFINE new == [req[r].snap EXCEPT !.event = Null, !.delivery = Null]
<1>1. /\ row \in Manifests /\ ValidManifest(row) /\ row.event \in Events /\ RowFits
      /\ row.delivery = "delivered"
  <2>1. row.delivery = "delivered"
    BY RequestTyped DEF RequestFits, StepFits
  <2> QED BY <2>1, RequestTyped DEF DeletionInv, OutboxFits, RowFits, Deliveries
<1>2. /\ new \in Manifests /\ new.delivery = Null /\ new.event = Null
      /\ new.life = row.life /\ new.enabled = row.enabled /\ new.rev = row.rev
  BY <1>1 DEF Manifests
<1>3. Store(new)
  OBVIOUS
<1> HIDE DEF new
<1>4. ValidManifest(new)
  BY <1>2 DEF ValidManifest
<1>5. committed' = committed
  BY <1>2, <1>3 DEF Store
<1>6. log[row.event] = 1 /\ row.event \notin underway
  BY <1>1 DEF RowFits, DeletionInv, OutboxFits, OnItsWay
<1>7. RowEffect
  <2>1. /\ new.event \in committed \cup {Null, "deleted"}
        /\ new.delivery # "ready" /\ new.delivery # "delivered"
        /\ new.enabled => new.life = "active"
        /\ new.life = "active" => NotYet("delete_pending") /\ new.event # "delete_pending"
    BY <1>1, <1>2 DEF RowFits, Events, Deliveries
  <2>2. IF new.life = "objects_deleted" THEN stored = {} /\ "deleted" \in committed'
        ELSE NotYet("deleted") /\ new.event # "deleted"
    BY <1>1, <1>2, <1>5 DEF RowFits, Events
  <2> QED BY <1>2, <1>3, <1>4, <1>6, <2>1, <2>2, WriteKeepsOutbox
<1>8. /\ row'.event = new.event /\ row'.life = new.life /\ row'.enabled = new.enabled
  BY <1>2, <1>3, <1>4, Stored
<1> QED BY <1>2, <1>7, <1>8

LEMMA WriteDeliveryKeeps ==
    ASSUME DeletionInv, NEW r \in Requests, NEW at \in Writes, NEW new,
           NEW next \in {"post", "pending", "clear", "lease", "drop", "deactivate", "remove"},
           WriteDelivery(r, at, new, next),
           row = req[r].snap /\ Store(new) => RowEffect,
           SwapEffect(r, next, req[r].own) => StepFits(r)'
    PROVE  DeletionInv'
<1>1. req[r].pc = at /\ UNCHANGED <<stored, log, underway, reply>>
  BY DEF WriteDelivery
<1>2. CASE Swap(r, new, next, req[r].own)
  <2>1. SwapEffect(r, next, req[r].own)
    BY <1>1, <1>2 DEF Swap, SwapEffect
  <2>2. /\ req[r].own \in Events \cup {Null} /\ OwnFits(r) /\ req[r] \in RequestState
        /\ DeletionTypeOK
    BY RequestTyped DEF RequestState, RequestFits, DeletionInv
  <2>3. req'[r].own = req[r].own
    BY <2>1, <2>2 DEF SwapEffect, DeletionTypeOK, RequestState
  <2>4. OwnFits(r)'
    BY <2>1, <2>2, <2>3 DEF OwnFits, SwapEffect, RowEffect, Progress
  <2> QED BY <2>1, <2>2, <2>4, SwapKeeps
<1>3. CASE SwapFails(r, new) /\ Goto(r, "pending")
  <2>1. LoseEffect(r)
    BY <1>1, <1>3 DEF SwapFails, KeepRow, Goto, LoseEffect
  <2> QED BY <2>1, LoseKeeps
<1> QED BY <1>2, <1>3 DEF WriteDelivery

\* After a write that succeeds the request knows the new row.
LEMMA SwappedRequest ==
    ASSUME DeletionInv, NEW r \in Requests, NEW step, NEW own, SwapEffect(r, step, own)
    PROVE  /\ req'[r].pc = step /\ req'[r].snap = row' /\ req'[r].own = own
           /\ req'[r].post = req[r].post
BY DEF SwapEffect, DeletionInv, DeletionTypeOK, RequestState

LEMMA LeaseKeeps ==
    ASSUME DeletionInv, NEW r \in Requests, Lease(r) PROVE DeletionInv'
<1>1. /\ req[r].pc = "lease" /\ WriteDelivery(r, "lease", Deliver(r, "sending"), "post")
      /\ UNCHANGED <<stored, log, underway>>
  BY DEF Lease, WriteDelivery
<1>2. row = req[r].snap /\ Store(Deliver(r, "sending")) =>
        RowEffect /\ row'.event = row.event /\ row'.delivery = "sending"
  BY <1>1, DeliverEffect DEF Deliveries
<1>3. ASSUME SwapEffect(r, "post", req[r].own) PROVE StepFits(r)'
  <2>1. row = req[r].snap /\ row # Null /\ row.delivery = "ready" /\ Unsent(row.event)
    BY <1>1, <1>3, RequestTyped DEF SwapEffect, RequestFits, StepFits, DeletionInv, OutboxFits, RowFits
  <2>2. row'.event = row.event /\ row'.delivery = "sending"
    BY <1>1, <1>2, <1>3, <2>1 DEF WriteDelivery, SwapFails, Swap, KeepRow, SwapEffect, RowEffect
  <2> QED BY <1>1, <1>3, <2>1, <2>2, SwappedRequest DEF StepFits, Unsent
<1> QED BY <1>1, <1>2, <1>3, WriteDeliveryKeeps DEF Writes

LEMMA SettleKeeps ==
    ASSUME DeletionInv, NEW r \in Requests, req[r].pc = "settle", Settle(r) PROVE DeletionInv'
<1>1. /\ StepFits(r) /\ req[r].snap.event \in Events /\ UNCHANGED <<stored, log, underway>>
  BY RequestTyped, Nulls DEF RequestFits, StepFits, Settle, WriteDelivery, Deliveries
<1>2. CASE req[r].post = "delivered"
  <2>1. WriteDelivery(r, "settle", Deliver(r, "delivered"), "clear")
    BY <1>2 DEF Settle
  <2>2. row = req[r].snap /\ Store(Deliver(r, "delivered")) =>
          RowEffect /\ row'.delivery = "delivered"
    BY <1>1, <1>2, DeliverEffect DEF StepFits, Deliveries
  <2>3. ASSUME SwapEffect(r, "clear", req[r].own) PROVE StepFits(r)'
    <3>1. row'.delivery = "delivered"
      BY <2>1, <2>2, <2>3 DEF WriteDelivery, SwapFails, Swap, KeepRow, SwapEffect, RowEffect
    <3> QED BY <2>3, <3>1, SwappedRequest DEF StepFits
  <2> QED BY <2>1, <2>2, <2>3, WriteDeliveryKeeps DEF Writes
<1>3. ASSUME NEW state \in {"ready", "delivery_unknown"},
             WriteDelivery(r, "settle", Deliver(r, state), "pending"),
             state = "ready" => req[r].post = "rejected"
      PROVE  DeletionInv'
  <2>1. row = req[r].snap /\ Store(Deliver(r, state)) => RowEffect
    BY <1>1, <1>3, DeliverEffect DEF StepFits, Deliveries
  <2>2. ASSUME SwapEffect(r, "pending", req[r].own) PROVE StepFits(r)'
    BY <2>2, SwappedRequest DEF StepFits
  <2> QED BY <1>3, <2>1, <2>2, WriteDeliveryKeeps DEF Writes
<1> QED BY <1>2, <1>3 DEF Settle

LEMMA ConfirmKeeps ==
    ASSUME DeletionInv, NEW r \in Requests, Confirm(r) PROVE DeletionInv'
<1>1. /\ req[r].pc = "confirm" /\ WriteDelivery(r, "confirm", Deliver(r, "delivered"), "clear")
      /\ UNCHANGED <<stored, log, underway>> /\ StepFits(r)
  BY RequestTyped DEF Confirm, WriteDelivery, RequestFits
<1>2. row = req[r].snap /\ Store(Deliver(r, "delivered")) =>
        RowEffect /\ row'.delivery = "delivered"
  BY <1>1, DeliverEffect DEF StepFits, Deliveries
<1>3. ASSUME SwapEffect(r, "clear", req[r].own) PROVE StepFits(r)'
  <2>1. row'.delivery = "delivered"
    BY <1>1, <1>2, <1>3 DEF WriteDelivery, SwapFails, Swap, KeepRow, SwapEffect, RowEffect
  <2> QED BY <1>3, <2>1, SwappedRequest DEF StepFits
<1> QED BY <1>1, <1>2, <1>3, WriteDeliveryKeeps DEF Writes

LEMMA ClearKeeps ==
    ASSUME DeletionInv, NEW r \in Requests, Clear(r) PROVE DeletionInv'
<1> DEFINE new == [req[r].snap EXCEPT !.event = Null, !.delivery = Null]
           next == Resume(req[r].snap)
<1>1. /\ req[r].pc = "clear" /\ WriteDelivery(r, "clear", new, next)
      /\ UNCHANGED <<stored, log, underway>>
  BY DEF Clear, WriteDelivery
<1>2. row = req[r].snap /\ Store(new) =>
        RowEffect /\ row'.event = Null /\ row'.life = row.life /\ row'.enabled = row.enabled
  BY <1>1, ClearEffect
<1>3. next \in {"drop", "deactivate", "remove"}
  BY ResumeIs
<1>4. ASSUME SwapEffect(r, next, req[r].own) PROVE StepFits(r)'
  <2>1. row = req[r].snap /\ row'.event = Null /\ row'.life = row.life /\ row'.enabled = row.enabled
    <3> HIDE DEF new, next
    <3> QED BY <1>1, <1>2, <1>4 DEF WriteDelivery, SwapFails, Swap, KeepRow, SwapEffect, RowEffect
  <2>2. /\ req'[r].pc = next /\ req'[r].snap = row' /\ OutboxFits'
        /\ row' \in Manifests /\ row' # Null /\ DeletionTypeOK'
    <3>1. req'[r].pc = next /\ req'[r].snap = row'
      BY <1>4, SwappedRequest
    <3>2. committed' \subseteq Events /\ row' \in Manifests /\ row' # Null /\ OutboxFits' /\ ValidManifest(row)'
      BY <1>4 DEF SwapEffect, RowEffect
    <3>3. req' \in [Requests -> RequestState]
      <4>1. req[r] \in RequestState /\ req[r].own \in Events \cup {Null}
        BY RequestTyped DEF RequestState
      <4>2. next \in {"drop", "deactivate", "remove"} /\ row' \in Manifests
        BY <1>3, <3>2
      <4> HIDE DEF next
      <4> QED BY <1>4, <4>1, <4>2 DEF SwapEffect, DeletionInv, DeletionTypeOK, RequestState
    <3> QED BY <1>1, <1>4, <3>1, <3>2, <3>3 DEF SwapEffect, DeletionInv, DeletionTypeOK
  <2>3. req'[r].pc = IF row'.life = "objects_deleted" THEN "drop"
                     ELSE IF row'.enabled THEN "deactivate" ELSE "remove"
    BY <2>1, <2>2, ResumeIs
  <2> QED BY <2>1, <2>2, <2>3, ResumeFits
<1> HIDE DEF new, next
<1> QED BY <1>1, <1>2, <1>3, <1>4, WriteDeliveryKeeps DEF Writes

(***************************************************************************)
(* Writes that change the manifest.                                        *)
(***************************************************************************)
LEMMA WriteManifestKeeps ==
    ASSUME DeletionInv, NEW r \in Requests,
           NEW at, NEW life, NEW event,
           \/ at = "deactivate" /\ life = "cleanup_pending" /\ event = "delete_pending"
           \/ at = "record" /\ life = "objects_deleted" /\ event = "deleted",
           WriteManifest(r, at, life, event)
    PROVE  DeletionInv'
<1> USE Nulls
<1> DEFINE new == [req[r].snap EXCEPT !.life = life, !.enabled = FALSE,
                                      !.event = event, !.delivery = "ready"]
<1>1. /\ req[r].pc = at /\ at \in Writes /\ UNCHANGED <<stored, log, underway>>
      /\ RequestFits(r) /\ event \in Events /\ req[r].snap \in Manifests
  BY RequestTyped DEF WriteManifest, Writes, Events
<1>2. ASSUME row = req[r].snap, Store(new)
      PROVE  /\ RowEffect /\ row'.event = event /\ row'.delivery = "ready" /\ ~row'.enabled
  <2>1. /\ row \in Manifests /\ row # Null /\ RowFits /\ row.event = Null
        /\ row.life # "objects_deleted"
        /\ at = "deactivate" => row.enabled /\ row.life = "active"
        /\ at = "record" => stored = {}
    BY <1>1, <1>2, RequestTyped DEF DeletionInv, OutboxFits, RowFits, RequestFits, StepFits
  <2>2. /\ new \in Manifests /\ new.event = event /\ new.delivery = "ready"
        /\ new.life = life /\ new.enabled = FALSE /\ new.rev = row.rev
    BY <1>1, <1>2 DEF Manifests, Deliveries
  <2>3. Store(new)
    BY <1>2
  <2> HIDE DEF new
  <2>4. ValidManifest(new)
    BY <1>1, <2>2 DEF ValidManifest, Deliveries
  <2>5. committed' = committed \cup {event}
    BY <1>1, <2>2, <2>3 DEF Store
  <2>6. NotYet(event) /\ (life = "cleanup_pending" => NotYet("deleted"))
    BY <2>1 DEF RowFits
  <2>7. RowEffect
    <3>1. /\ row.event \in {new.event, Null} /\ row.event \notin underway
          /\ new.event \in committed \cup {Null, "deleted"} \/ row.enabled
          /\ new.delivery = "ready" => Unsent(new.event)
          /\ new.delivery # "delivered" /\ new.life # "active"
      BY <2>1, <2>2, <2>6 DEF NotYet, DeletionInv, DeletionTypeOK
    <3>2. IF new.life = "objects_deleted" THEN stored = {} /\ "deleted" \in committed'
          ELSE NotYet("deleted") /\ new.event # "deleted"
      BY <2>1, <2>2, <2>5, <2>6
    <3> QED BY <1>1, <1>2, <2>2, <2>3, <2>4, <3>1, <3>2, WriteKeepsOutbox DEF Writes
  <2>8. row'.event = new.event /\ row'.delivery = new.delivery /\ row'.enabled = new.enabled
    BY <2>2, <2>3, <2>4, Stored
  <2> QED BY <2>2, <2>7, <2>8
<1>3. CASE Swap(r, new, "lease", event) /\ UNCHANGED reply
  <2>1. row = req[r].snap /\ Store(new)
    BY <1>3 DEF Swap
  <2>2. SwapEffect(r, "lease", event)
    <3> HIDE DEF new
    <3> QED BY <1>1, <1>2, <1>3, <2>1 DEF Swap, SwapEffect
  <2>3. StepFits(r)'
    BY <1>2, <2>1, <2>2, SwappedRequest DEF StepFits
  <2>4. OwnFits(r)'
    <3>1. event = "deleted" => stored' = {}
      BY <1>1 DEF RequestFits, StepFits
    <3> QED BY <1>1, <1>2, <2>1, <2>2, <3>1, SwappedRequest DEF OwnFits, Disabled
  <2> QED BY <1>1, <2>2, <2>3, <2>4, SwapKeeps
<1>4. CASE SwapFails(r, new) /\ Finish(r, IF row = req[r].snap THEN "unavailable" ELSE "conflict")
  <2> HIDE DEF new
  <2>1. LoseEffect(r)
    BY <1>1, <1>2, <1>4 DEF SwapFails, KeepRow, Finish, LoseEffect
  <2> QED BY <2>1, LoseKeeps
<1> QED BY <1>3, <1>4 DEF WriteManifest

(***************************************************************************)
(* Steps that leave the row, the bucket and the audit log alone.           *)
(***************************************************************************)
Quiet == UNCHANGED <<row, stored, log, underway, committed>>

LEMMA QuietOutbox ==
    ASSUME DeletionInv, Quiet
    PROVE  OutboxFits' /\ Progress /\ \A q \in Requests : LeaseRespected(q)
<1>1. OutboxFits'
  BY DEF Quiet, DeletionInv, OutboxFits, RowFits, NotYet, Unsent, ValidManifest, Kept, OnItsWay,
         Announced, Disabled
<1>2. Progress
  BY DEF Quiet, Progress, Disabled
<1>3. ASSUME NEW q \in Requests PROVE LeaseRespected(q)
  BY DEF Quiet, LeaseRespected, Unsent
<1> QED BY <1>1, <1>2, <1>3

LEMMA QuietKeeps ==
    ASSUME DeletionInv, Quiet, NEW r \in Requests,
           req' \in [Requests -> RequestState], reply' \in [Requests -> Replies \cup {Null}],
           \A q \in Requests \ {r} : req'[q] = req[q] /\ reply'[q] = reply[q],
           RequestFits(r)', ReplyIsTrue(r)', ~Sender(r)'
    PROVE  DeletionInv'
<1>1. DeletionTypeOK'
  BY DEF DeletionInv, DeletionTypeOK, Quiet, ValidManifest
<1> QED BY <1>1, QuietOutbox, RequestKeeps

\* A request that has ended knows nothing.
LEMMA EndedFits ==
    ASSUME NEW r \in Requests, req'[r] = NoRequest PROVE RequestFits(r)' /\ ~Sender(r)'
BY Nulls DEF RequestFits, SnapFits, StepFits, OwnFits, NoRequest, Sender, Events

LEMMA FinishTyped ==
    ASSUME DeletionInv, NEW r \in Requests, NEW answer \in Replies \cup {Null}, Finish(r, answer)
    PROVE  /\ req' \in [Requests -> RequestState] /\ req'[r] = NoRequest
           /\ reply' \in [Requests -> Replies \cup {Null}] /\ reply'[r] = answer
           /\ \A q \in Requests \ {r} : req'[q] = req[q] /\ reply'[q] = reply[q]
BY NoRequestTyped DEF DeletionInv, DeletionTypeOK, Finish

LEMMA QuietFinish ==
    ASSUME DeletionInv, Quiet, NEW r \in Requests, NEW answer \in Replies \cup {Null},
           Finish(r, answer),
           answer = "deleted" => row = Null,
           answer = "deleted_audit_pending" => stored = {},
           answer = "deactivated" => Disabled
    PROVE  DeletionInv'
<1>1. ReplyIsTrue(r)'
  BY FinishTyped DEF ReplyIsTrue, Quiet, Disabled
<1> QED BY <1>1, FinishTyped, EndedFits, QuietKeeps

LEMMA GiveUpKeeps ==
    ASSUME DeletionInv, NEW r \in Requests, GiveUp(r) PROVE DeletionInv'
<1> DEFINE answer == CASE req[r].own = "delete_pending" -> "deactivated"
                       [] req[r].own = "deleted" -> "deleted_audit_pending"
                       [] OTHER -> "unavailable"
<1>1. OwnFits(r) /\ Quiet /\ Finish(r, answer)
  BY RequestTyped DEF GiveUp, RequestFits, Quiet
<1>2. /\ answer \in Replies /\ answer # "deleted"
      /\ answer = "deleted_audit_pending" => req[r].own = "deleted"
      /\ answer = "deactivated" => req[r].own = "delete_pending"
  BY DEF Replies
<1> HIDE DEF answer
<1> QED BY <1>1, <1>2, QuietFinish DEF OwnFits

LEMMA CrashKeeps ==
    ASSUME DeletionInv, NEW r \in Requests, Crash(r) PROVE DeletionInv'
BY QuietFinish, Nulls DEF Crash, Quiet, Replies

\* A step that only chooses the next one.
LEMMA GotoKeeps ==
    ASSUME DeletionInv, Quiet, NEW r \in Requests, NEW step \in {"confirm", "pending", "record"},
           req[r].pc # "idle", Goto(r, step), reply' = reply, StepFits(r)'
    PROVE  DeletionInv'
<1>1. /\ req' \in [Requests -> RequestState]
      /\ req'[r].pc = step /\ req'[r].snap = req[r].snap /\ req'[r].own = req[r].own
      /\ \A q \in Requests \ {r} : req'[q] = req[q]
  BY DEF DeletionInv, DeletionTypeOK, RequestState, Goto
<1>2. RequestFits(r)'
  BY <1>1, RequestTyped DEF RequestFits, SnapFits, OwnFits, Quiet, Disabled, ValidManifest
<1>3. ReplyIsTrue(r)' /\ ~Sender(r)'
  BY <1>1, QuietOutbox, RepliesStayTrue DEF Sender
<1> QED BY <1>1, <1>2, <1>3, QuietKeeps DEF DeletionInv, DeletionTypeOK

LEMMA ReadBackKeeps ==
    ASSUME DeletionInv, NEW r \in Requests, ReadBack(r) PROVE DeletionInv'
<1>1. req[r].pc = "readback" /\ Quiet /\ reply' = reply /\ StepFits(r)
  BY RequestTyped DEF ReadBack, Quiet, RequestFits
<1>2. PICK step \in {"confirm", "pending"} :
        Goto(r, step) /\ (step = "confirm" => log[req[r].snap.event] = 1)
  BY DEF ReadBack
<1>3. req'[r].pc = step /\ req'[r].snap = req[r].snap
  BY <1>2 DEF Goto, DeletionInv, DeletionTypeOK, RequestState
<1>4. StepFits(r)'
  BY <1>1, <1>2, <1>3 DEF StepFits, Quiet
<1> QED BY <1>1, <1>2, <1>4, GotoKeeps

LEMMA DeleteKeeps ==
    ASSUME DeletionInv, NEW r \in Requests, Delete(r) PROVE DeletionInv'
<1> USE Nulls
<1>1. req[r].pc = "idle" /\ Quiet /\ DeletionTypeOK
  BY DEF Delete, Quiet, DeletionInv
<1>2. CASE row = Null /\ Finish(r, "deleted")
  BY <1>1, <1>2, QuietFinish DEF Replies
<1>3. ASSUME row # Null, reply' = [reply EXCEPT ![r] = Null],
             req' = [req EXCEPT ![r] = [req[r] EXCEPT !.pc = Flush(row, aged), !.snap = row]]
      PROVE  DeletionInv'
  <2> DEFINE step == Flush(row, aged)
  <2>1. row \in Manifests /\ ValidManifest(row) /\ RowFits /\ OutboxFits
    BY <1>1, <1>3 DEF DeletionInv, DeletionTypeOK, OutboxFits
  <2>2. \/ row.event = Null /\ step = IF row.life = "objects_deleted" THEN "drop"
                                      ELSE IF row.enabled THEN "deactivate" ELSE "remove"
        \/ row.event # Null /\ row.delivery = "delivered" /\ step = "clear"
        \/ row.event # Null /\ row.delivery = "ready" /\ step = "lease"
        \/ row.event # Null /\ row.delivery \in {"sending", "delivery_unknown"} /\ step = "readback"
        \/ step = "pending"
    <3>1. CASE row.event = Null
      <4>1. row.delivery = Null
        BY <2>1, <3>1 DEF ValidManifest
      <4>2. Flush(row, aged) = Resume(row)
        BY <3>1, <4>1 DEF Flush, Deliveries
      <4> QED BY <3>1, <4>2, ResumeIs
    <3>2. CASE row.event # Null
      BY <3>2 DEF Flush
    <3> QED BY <3>1, <3>2
  <2> HIDE DEF step
  <2>3. step \in {"drop", "deactivate", "remove", "clear", "lease", "readback", "pending"}
    BY <2>2
  <2>4. /\ req' \in [Requests -> RequestState]
        /\ req'[r].pc = step /\ req'[r].snap = row /\ req'[r].own = req[r].own
        /\ \A q \in Requests \ {r} : req'[q] = req[q]
    BY ZenonT(40), <1>1, <1>3, <2>1, <2>3 DEF DeletionTypeOK, RequestState, step
  <2>5. /\ reply' \in [Requests -> Replies \cup {Null}] /\ reply'[r] = Null
        /\ \A q \in Requests \ {r} : reply'[q] = reply[q]
    BY <1>1, <1>3 DEF DeletionTypeOK
  <2>6. OutboxFits' /\ row' = row /\ DeletionTypeOK'
    BY <1>1, <2>4, <2>5, QuietOutbox DEF Quiet, DeletionTypeOK, ValidManifest
  <2>7. StepFits(r)'
    <3>1. CASE /\ row.event = Null
               /\ step = IF row.life = "objects_deleted" THEN "drop"
                         ELSE IF row.enabled THEN "deactivate" ELSE "remove"
      BY <1>3, <2>1, <2>4, <2>6, <3>1, ResumeFits
    <3>2. CASE row.event # Null /\ step \in {"clear", "lease", "readback", "pending"}
      BY <2>2, <2>4, <3>2 DEF StepFits
    <3>3. CASE step = "pending"
      BY <2>4, <3>3 DEF StepFits
    <3> QED BY <2>2, <3>1, <3>2, <3>3
  <2>8. SnapFits(r)' /\ OwnFits(r)'
    <3>1. OwnFits(r)
      BY RequestTyped DEF RequestFits
    <3> QED BY <1>1, <2>1, <2>4, <3>1 DEF SnapFits, OwnFits, Quiet, Disabled, ValidManifest, Manifests
  <2>9. ReplyIsTrue(r)' /\ ~Sender(r)'
    BY <2>3, <2>4, <2>5 DEF ReplyIsTrue, Sender, Replies
  <2> QED BY <1>1, <2>4, <2>5, <2>7, <2>8, <2>9, QuietKeeps DEF RequestFits
<1> QED BY <1>2, <1>3 DEF Delete

(***************************************************************************)
(* Steps on the bucket and the audit log, and the last write.              *)
(***************************************************************************)
LEMMA RemoveObjectsKeeps ==
    ASSUME DeletionInv, NEW r \in Requests, RemoveObjects(r) PROVE DeletionInv'
<1> USE Nulls
<1>1. /\ req[r].pc = "remove" /\ UNCHANGED <<row, log, underway, committed>>
      /\ stored' \subseteq stored /\ Announced /\ DeletionTypeOK /\ req[r].snap.event = Null
      /\ RequestFits(r)
  BY RequestTyped DEF RemoveObjects, RequestFits, StepFits, DeletionInv
<1>2. Progress /\ \A q \in Requests : LeaseRespected(q)
  BY <1>1 DEF Progress, Disabled, LeaseRespected, Unsent
<1>3. OutboxFits'
  BY <1>1 DEF DeletionInv, OutboxFits, RowFits, NotYet, Unsent, ValidManifest, Kept, OnItsWay,
              Announced, Disabled
<1>4. CASE stored' = {} /\ Goto(r, "record") /\ UNCHANGED reply
  <2>1. /\ req' \in [Requests -> RequestState]
        /\ req'[r].pc = "record" /\ req'[r].snap = req[r].snap /\ req'[r].own = req[r].own
        /\ \A q \in Requests \ {r} : req'[q] = req[q]
    BY <1>1, <1>4 DEF DeletionTypeOK, RequestState, Goto
  <2>2. DeletionTypeOK'
    BY <1>1, <1>4, <2>1 DEF DeletionTypeOK, ValidManifest
  <2>3. Announced'
    BY <1>1 DEF Announced, Disabled
  <2>4. StepFits(r)'
    BY <1>1, <1>4, <2>1, <2>3 DEF StepFits, RequestFits
  <2>5. SnapFits(r)' /\ OwnFits(r)'
    BY <1>1, <1>4, <2>1 DEF RequestFits, SnapFits, OwnFits, Disabled, ValidManifest
  <2>6. ReplyIsTrue(r)' /\ ~Sender(r)'
    BY <1>2, <1>4, <2>1, RepliesStayTrue DEF Sender
  <2> QED BY <1>2, <1>3, <1>4, <2>1, <2>2, <2>4, <2>5, <2>6, RequestKeeps DEF RequestFits
<1>5. CASE Finish(r, "unavailable")
  <2>1. DeletionTypeOK' /\ ReplyIsTrue(r)'
    BY <1>1, <1>5, FinishTyped DEF DeletionTypeOK, ValidManifest, ReplyIsTrue, Replies
  <2> QED BY <1>2, <1>3, <1>5, <2>1, FinishTyped, EndedFits, RequestKeeps DEF Replies
<1> QED BY <1>4, <1>5 DEF RemoveObjects

LEMMA DropKeeps ==
    ASSUME DeletionInv, NEW r \in Requests, Drop(r) PROVE DeletionInv'
<1> USE Nulls
<1>1. req[r].pc = "drop" /\ UNCHANGED <<stored, log, underway, committed>> /\ DeletionTypeOK
  BY DEF Drop, DeletionInv
<1>2. PICK answer \in {"deleted", "conflict", "unavailable"} :
        /\ Finish(r, answer)
        /\ row' = row \/ (row = req[r].snap /\ row' = Null)
        /\ answer = "deleted" => row = req[r].snap /\ row' = Null
  BY DEF Drop
<1>3. CASE row' = row /\ answer # "deleted"
  BY <1>1, <1>2, <1>3, QuietFinish DEF Quiet, Replies
<1>4. CASE row = req[r].snap /\ row' = Null
  <2>1. /\ row \in Manifests /\ row # Null /\ row.event = Null /\ row.life = "objects_deleted"
        /\ RowFits /\ OutboxFits
    BY <1>1, <1>4, RequestTyped DEF RequestFits, StepFits, DeletionInv, OutboxFits
  <2>2. stored = {} /\ "deleted" \in committed
    BY <2>1 DEF RowFits
  <2>3. \A e \in committed : log[e] = 1
    BY <1>1, <2>1 DEF OutboxFits, Kept, DeletionTypeOK
  <2>4. underway = {}
    BY <1>1, <2>1 DEF OutboxFits, OnItsWay, DeletionTypeOK
  <2>5. OutboxFits'
    BY <1>1, <1>4, <2>1, <2>2, <2>3, <2>4 DEF OutboxFits, Kept, OnItsWay, Announced, Disabled
  <2>6. Progress
    BY <1>1, <1>4 DEF Progress, Disabled
  <2>7. ASSUME NEW q \in Requests \ {r} PROVE LeaseRespected(q)
    BY <1>1, <1>4, NobodyPosts DEF LeaseRespected, Unsent
  <2>8. DeletionTypeOK' /\ ReplyIsTrue(r)'
    BY <1>1, <1>2, <1>4, FinishTyped DEF DeletionTypeOK, ReplyIsTrue, Replies
  <2> QED BY <1>2, <2>5, <2>6, <2>7, <2>8, FinishTyped, EndedFits, RequestKeeps DEF Replies
<1> QED BY <1>2, <1>3, <1>4

\* An event is recorded that nobody had recorded, or goes on its way.
LEMMA RecordEffect ==
    ASSUME DeletionInv, NEW e \in Events, Unsent(e) \/ e \in underway, row # Null, row.event = e,
           row.delivery \in {"sending", "delivery_unknown"},
           \/ Record(e) /\ underway' \in {underway, underway \ {e}} /\ e \notin underway'
           \/ log' = log /\ underway' \in {underway, underway \cup {e}},
           UNCHANGED <<row, stored, committed>>
    PROVE  /\ OutboxFits' /\ Progress
           /\ log' \in [Events -> Nat] /\ underway' \subseteq Events
           /\ \A x \in Events \ {e} : log'[x] = log[x] /\ (x \in underway' => x \in underway)
           /\ Record(e) => log'[e] = 1
<1>1. /\ RowFits /\ OutboxFits /\ DeletionTypeOK /\ row \in Manifests
      /\ log[e] = 0 /\ log \in [Events -> Nat]
  BY DEF DeletionInv, OutboxFits, Unsent, OnItsWay, DeletionTypeOK, RowFits
<1>2. /\ log' \in [Events -> Nat] /\ log'[e] \in {0, 1} /\ (Record(e) => log'[e] = 1)
      /\ \A x \in Events \ {e} : log'[x] = log[x]
      /\ e \in underway' => log'[e] = 0
  BY <1>1 DEF Record
<1>3. \A x \in Events \ {e} : x \in underway' => x \in underway
  OBVIOUS
<1>4. /\ underway' \subseteq Events
      /\ e \in committed /\ "delete_pending" \in Events /\ "deleted" \in Events
  BY <1>1, Nulls DEF RowFits, DeletionTypeOK, Events
<1>5. RowFits'
  <2>1. \A x \in Events : NotYet(x) => NotYet(x)'
    BY <1>2, <1>3, <1>4 DEF NotYet, Unsent
  <2>2. (/\ row.life = "active" => NotYet("delete_pending")
         /\ IF row.life = "objects_deleted" THEN stored = {} /\ "deleted" \in committed
            ELSE NotYet("deleted"))'
    BY <1>1, <1>4, <2>1 DEF RowFits
  <2> QED BY <1>1, <1>2, <2>2 DEF RowFits, ValidManifest
<1>6. \A x \in committed' : Kept(x)'
  BY <1>1, <1>2 DEF OutboxFits, Kept, DeletionTypeOK
<1>7. \A x \in underway' : OnItsWay(x)'
  BY <1>1, <1>2, <1>3, <1>4 DEF OutboxFits, OnItsWay
<1>8. Announced => Announced'
  BY <1>2, <1>4, <1>1 DEF Announced, Disabled
<1>9. OutboxFits'
  BY <1>1, <1>2, <1>5, <1>6, <1>7, <1>8 DEF OutboxFits
<1>10. Progress
  BY <1>1, <1>2 DEF Progress, Disabled
<1> QED BY <1>2, <1>3, <1>4, <1>9, <1>10

LEMMA PostKeeps ==
    ASSUME DeletionInv, NEW r \in Requests, Post(r) PROVE DeletionInv'
<1> DEFINE e == req[r].snap.event
<1>1. /\ req[r].pc = "post" /\ UNCHANGED <<row, stored, committed, reply>> /\ DeletionTypeOK
      /\ row = req[r].snap /\ row # Null /\ row.delivery = "sending" /\ Unsent(e) /\ e \in Events
      /\ RequestFits(r)
  BY RequestTyped, Nulls DEF Post, RequestFits, StepFits, DeletionInv, Deliveries
<1>2. PICK result \in {"delivered", "rejected", "unknown"} :
        /\ Posted(r, result)
        /\ \/ Record(e) /\ underway' = underway
           \/ log' = log /\ underway' \in {underway, underway \cup {e}}
        /\ result = "delivered" => Record(e)
        /\ result = "rejected" => UNCHANGED <<log, underway>>
  BY DEF Post
<1>3. /\ OutboxFits' /\ Progress
      /\ log' \in [Events -> Nat] /\ underway' \subseteq Events
      /\ Record(e) => log'[e] = 1
  BY <1>1, <1>2, RecordEffect DEF Unsent
<1>4. /\ req' \in [Requests -> RequestState]
      /\ req'[r].pc = "settle" /\ req'[r].snap = req[r].snap
      /\ req'[r].own = req[r].own /\ req'[r].post = result
      /\ \A q \in Requests \ {r} : req'[q] = req[q]
  BY <1>1, <1>2 DEF DeletionTypeOK, RequestState, Posted
<1>5. DeletionTypeOK'
  BY <1>1, <1>3, <1>4 DEF DeletionTypeOK, ValidManifest
<1>6. StepFits(r)'
  BY <1>1, <1>2, <1>3, <1>4 DEF StepFits, Unsent
<1>7. SnapFits(r)' /\ OwnFits(r)'
  BY <1>1, <1>4 DEF RequestFits, SnapFits, OwnFits, Disabled, ValidManifest
<1>8. \A q \in Requests \ {r} : Sender(q) => req[q].snap # req[r].snap
  BY <1>1 DEF DeletionInv, OneSender, Sender
<1>9. \A q \in Requests \ {r} : LeaseRespected(q)
  BY <1>1, <1>8 DEF LeaseRespected
<1>10. ReplyIsTrue(r)'
  BY <1>1, <1>3, RepliesStayTrue
<1> QED BY <1>1, <1>3, <1>4, <1>5, <1>6, <1>7, <1>8, <1>9, <1>10, RequestKeeps DEF RequestFits

(***************************************************************************)
(* Steps of nobody.                                                        *)
(***************************************************************************)
LEMMA NobodyKeeps ==
    ASSUME DeletionInv, UNCHANGED <<row, stored, committed, req, reply>>, OutboxFits', Progress,
           log' \in [Events -> Nat], underway' \subseteq Events,
           \A q \in Requests : LeaseRespected(q)
    PROVE  DeletionInv'
<1>1. DeletionTypeOK'
  BY DEF DeletionInv, DeletionTypeOK, ValidManifest
<1>2. \A q \in Requests : RequestFits(q)' /\ ReplyIsTrue(q)'
  BY OthersFit, RepliesStayTrue
<1>3. OneSender'
  BY DEF DeletionInv, OneSender, Sender
<1> QED BY <1>1, <1>2, <1>3 DEF DeletionInv

LEMMA LandKeeps ==
    ASSUME DeletionInv, NEW e \in Events, Land(e) PROVE DeletionInv'
<1>1. /\ e \in underway /\ Record(e) /\ underway' = underway \ {e}
      /\ UNCHANGED <<row, stored, committed, req, reply>>
      /\ row # Null /\ row.event = e /\ row.delivery \in {"sending", "delivery_unknown"}
  BY DEF Land, DeletionInv, OutboxFits, OnItsWay
<1>2. /\ OutboxFits' /\ Progress
      /\ log' \in [Events -> Nat] /\ underway' \subseteq Events
  BY <1>1, RecordEffect
<1>3. \A q \in Requests : LeaseRespected(q)
  BY <1>1 DEF LeaseRespected, Unsent
<1> QED BY <1>1, <1>2, <1>3, NobodyKeeps

LEMMA DeletionInvStep == DeletionInv /\ [DeletionNext]_uiVars => DeletionInv'
<1> SUFFICES ASSUME DeletionInv, [DeletionNext]_uiVars PROVE DeletionInv'
  OBVIOUS
<1>1. ASSUME NEW r \in Requests, Step(r) PROVE DeletionInv'
  <2>1. CASE GiveUp(r) \/ Lease(r) \/ Post(r) \/ (req[r].pc = "settle" /\ Settle(r))
    BY <2>1, GiveUpKeeps, LeaseKeeps, PostKeeps, SettleKeeps
  <2>2. CASE Clear(r) \/ ReadBack(r) \/ Confirm(r)
    BY <2>2, ClearKeeps, ReadBackKeeps, ConfirmKeeps
  <2>3. CASE Deactivate(r) \/ RecordDeletion(r)
    BY <2>3, WriteManifestKeeps DEF Deactivate, RecordDeletion
  <2>4. CASE RemoveObjects(r) \/ Drop(r)
    BY <2>4, RemoveObjectsKeeps, DropKeeps
  <2> QED BY <1>1, <2>1, <2>2, <2>3, <2>4 DEF Step
<1>2. ASSUME NEW r \in Requests, Delete(r) \/ Crash(r) PROVE DeletionInv'
  BY <1>2, DeleteKeeps, CrashKeeps
<1>3. ASSUME NEW e \in Events, Land(e) PROVE DeletionInv'
  BY <1>3, LandKeeps
<1>4. CASE Age \/ UNCHANGED uiVars
  <2>1. Quiet /\ UNCHANGED <<req, reply>>
    BY <1>4 DEF Age, uiVars, Quiet
  <2> QED BY <2>1, QuietOutbox, NobodyKeeps DEF Quiet, DeletionInv, DeletionTypeOK
<1> QED BY <1>1, <1>2, <1>3, <1>4 DEF DeletionNext

LEMMA DeletionInvAlways == DeletionSpec => []DeletionInv
BY DeletionInvInit, DeletionInvStep, PTL DEF DeletionSpec

\* The outbox is exact, whichever requests overlap, take over a lease after ten
\* minutes, lose an answer or die: every event that was committed is recorded
\* once or still in the row, and every row can be read again.
THEOREM OutboxIsExact == DeletionSpec => []DeletionInvariant
<1>1. DeletionInv => DeletionInvariant
  <2> SUFFICES ASSUME DeletionInv PROVE DeletionInvariant
    OBVIOUS
  <2>1. CommittedEventsAreKept /\ RecordedAtMostOnce
    BY DEF DeletionInv, DeletionTypeOK, OutboxFits, Kept, CommittedEventsAreKept, RecordedAtMostOnce
  <2> QED BY <2>1 DEF DeletionInv, DeletionInvariant
<1> QED BY <1>1, DeletionInvAlways, PTL

\* No file is removed before the Custom UI is disabled and the audit log says so.
THEOREM FilesGoAfterTheAudit == DeletionSpec => []RemovalIsAnnounced
<1>1. DeletionInv => RemovalIsAnnounced
  BY DEF DeletionInv, OutboxFits, Announced, RemovalIsAnnounced
<1> QED BY <1>1, DeletionInvAlways, PTL

\* The row goes last, and no reply says more than what has happened.
THEOREM RowGoesLast == DeletionSpec => []GoneMeansGone
<1>1. DeletionInv => GoneMeansGone
  <2> SUFFICES ASSUME DeletionInv PROVE GoneMeansGone
    OBVIOUS
  <2>1. row = Null => stored = {} /\ \A e \in committed \cup {"deleted"} : log[e] = 1
    BY DEF DeletionInv, OutboxFits, Kept
  <2>2. DeletedRepliesAreTrue
    BY DEF DeletionInv, ReplyIsTrue, DeletedRepliesAreTrue
  <2> QED BY <2>1, <2>2 DEF GoneMeansGone
<1> QED BY <1>1, DeletionInvAlways, PTL
=============================================================================
