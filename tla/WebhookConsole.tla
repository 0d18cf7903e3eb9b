--------------------------- MODULE WebhookConsole ---------------------------
(***************************************************************************)
(* The webhook page of the administration console: the row commands of     *)
(* packages/admin-console/src/routes/webhooks/+page.svelte, the durable    *)
(* locks they stage in localStorage and the authoritative read-back.       *)
(*                                                                         *)
(* A command stages a lock, sends one write and clears the lock only when  *)
(* it knows what became of the write; a lock that stays blocks the action  *)
(* until the administrator has looked at the state and acknowledged it.    *)
(* Leaving the page does not stop its handlers: they run on beside those   *)
(* of the page mounted next, over the same storage.  This is one tab, so   *)
(* one page is live at a time and each storage operation is atomic.        *)
(***************************************************************************)
EXTENDS Naturals, FiniteSets

CONSTANTS
    Pages,        \* mounted instances of the page
    Hooks,        \* webhooks
    MaxCommands,  \* bound: commands the administrator starts
    MaxFaults,    \* bound: lost answers, writes sent again, failures of the storage,
                  \* reloads and interventions of another administrator
    Null

Staged == {"toggle", "delete", "rotate"}   \* staged as they start
Acts == Staged \cup {"test"}               \* staged after a first read

\* A list of the webhooks, of the state after so many changes.
Lists == [at : Nat, rows : [Hooks -> {"on", "off", "gone"}]]

ASSUME ConsoleAssumption ==
    /\ MaxCommands \in Nat /\ MaxFaults \in Nat
    /\ Null \notin Hooks \cup Pages \cup Acts \cup Lists \cup {"ok", "refused", "unknown"}

VARIABLES
    hook,       \* hook[h]: the webhook at the server
    changes,    \* changes of the webhooks so far
    locks,      \* the locks in localStorage
    page,       \* page[p]: the state of page p
    cmd,        \* cmd[p][h]: the command p runs on h
    late,       \* writes given up that the server may still perform
    doubt,      \* history: <<page, action, webhook>> of the commands sent whose fate
                \* is not known and whose lock was not acknowledged
    overruled,  \* history: locks acknowledged while a command still ran
    begun,      \* commands so far
    faults      \* faults so far

consoleVars == <<hook, changes, locks, page, cmd, late, doubt, overruled, begun, faults>>

NoCommand == [act |-> Null, want |-> Null, step |-> "none", answer |-> Null,
              again |-> FALSE, current |-> FALSE, seen |-> Null]

\* latest: the owner of the page's most recent list request.
NoPage == [life |-> "away", locks |-> {}, ready |-> FALSE, shown |-> Null, latest |-> Null]

ConsoleInit ==
    /\ hook = [h \in Hooks |-> "on"]
    /\ changes = 0
    /\ locks = {} /\ doubt = {} /\ overruled = {} /\ late = {}
    /\ page = [p \in Pages |-> NoPage]
    /\ cmd = [p \in Pages |-> [h \in Hooks |-> NoCommand]]
    /\ begun = 0 /\ faults = 0

Fault == faults < MaxFaults /\ faults' = faults + 1
\* The pages on which the action is under way on h.
Running(a, h) == {p \in Pages : cmd[p][h].act = a}
LockOf(d) == <<d[2], d[3]>>
List == [at |-> changes, rows |-> hook]
Listed(list) == {h \in Hooks : list.rows[h] # "gone"}
Server == <<hook, changes, late>>

---------------------------------------------------------------------------
(* The lock store.  pg is the page with what the handler changed before. *)

Put(p, pg, new) ==
    /\ locks' = new
    /\ page' = [page EXCEPT ![p] = [pg EXCEPT !.locks = new, !.ready = TRUE]]
    /\ UNCHANGED faults

\* The operation throws: the page keeps its copy and blocks its actions.
StorageFails(p, pg) ==
    /\ page' = [page EXCEPT ![p] = [pg EXCEPT !.ready = FALSE]]
    /\ UNCHANGED locks

\* The lock was free and is now in storage and in the page's copy.
Stage(p, pg, l) ==
    /\ l \notin locks
    /\ Put(p, pg, locks \cup {l})

StageFails(p, pg, l) ==
    /\ IF l \in locks THEN UNCHANGED faults ELSE Fault
    /\ StorageFails(p, pg)

\* Wrong: the page's own copy is written, not the storage's latest.
ClearFromCopy(p, pg, l) ==
    Put(p, pg, pg.locks \ {l})

Clear(p, pg, l) ==
    \/ Put(p, pg, locks \ {l})
    \/ Fault /\ StorageFails(p, pg)

\* recordWebhookMutationUnknown: staged again unless the page's copy has it.
RecordUnknown(p, pg, l) ==
    IF l \in pg.locks
    THEN /\ page' = [page EXCEPT ![p] = pg]
         /\ UNCHANGED <<locks, faults>>
    ELSE Stage(p, pg, l) \/ StageFails(p, pg, l)

---------------------------------------------------------------------------
(* The page's life. *)

\* onMount: the locks are restored.  A page mounted again is a new one: the
\* handlers of the old one have ended.
Mount(p) ==
    /\ \A q \in Pages : page[q].life # "live"
    /\ \A h \in Hooks : cmd[p][h] = NoCommand
    /\ LET pg == [NoPage EXCEPT !.life = "live"]
       IN Put(p, pg, locks) \/ (Fault /\ StorageFails(p, pg))
    /\ UNCHANGED <<Server, cmd, doubt, overruled, begun>>

\* pageDisposed: another route is shown, the handlers run on.
Leave(p) ==
    /\ page[p].life = "live"
    /\ page' = [page EXCEPT ![p] =
                    IF \A h \in Hooks : cmd[p][h] = NoCommand THEN NoPage
                    ELSE [@ EXCEPT !.life = "gone", !.shown = Null]]
    /\ UNCHANGED <<Server, locks, cmd, doubt, overruled, begun, faults>>

Write(p, h) == [act |-> cmd[p][h].act, hook |-> h, want |-> cmd[p][h].want]

\* The tab is reloaded: every handler ends where it is, its write may arrive.
Reload ==
    /\ Fault
    /\ page' = [p \in Pages |-> NoPage]
    /\ late' = late \cup {Write(x[1], x[2]) :
                            x \in {y \in Pages \X Hooks : cmd[y[1]][y[2]].step = "sent"}}
    /\ cmd' = [p \in Pages |-> [h \in Hooks |-> NoCommand]]
    /\ UNCHANGED <<hook, changes, locks, doubt, overruled, begun>>

\* load, when it succeeds: at once or by the Retry button.  No row command
\* runs before the first list is shown, so nothing supersedes it.
Load(p) ==
    /\ page[p].life = "live" /\ page[p].shown = Null
    /\ page' = [page EXCEPT ![p].shown = List]
    /\ UNCHANGED <<Server, locks, cmd, doubt, overruled, begun, faults>>

\* reconcileDiagnosticState: what runs on a webhook not listed is invalidated.
Invalidated(cmds, list) ==
    [h \in Hooks |-> IF h \in Listed(list) \/ cmds[h] = NoCommand THEN cmds[h]
                     ELSE [cmds[h] EXCEPT !.current = FALSE]]

\* Wrong: a list is shown in the order the answers arrive.
AppliesAny(pg, owner) == TRUE

\* applyWebhookList: only the list requested last is shown.
Applies(pg, owner) == pg.latest = owner

\* acknowledgeWebhookMutation, confirmed twice.  The button is not disabled
\* while the command runs.
Acknowledge(p, a, h) ==
    /\ page[p].life = "live" /\ <<a, h>> \in page[p].locks
    /\ page[p].shown # Null /\ h \in Listed(page[p].shown)
    /\ Clear(p, page[p], <<a, h>>)
    /\ doubt' = {d \in doubt : LockOf(d) # <<a, h>>}
    /\ overruled' = IF Running(a, h) = {} THEN overruled ELSE overruled \cup {<<a, h>>}
    /\ UNCHANGED <<Server, cmd, begun>>

---------------------------------------------------------------------------
(* Starting a command. *)

Started(p, h, a, step) ==
    [NoCommand EXCEPT !.act = a, !.step = step, !.current = TRUE,
        !.want = IF a = "toggle" THEN page[p].shown.rows[h] = "off" ELSE Null]

MayBegin(p, h, a) ==
    /\ page[p].life = "live" /\ page[p].ready
    /\ page[p].shown # Null /\ h \in Listed(page[p].shown)
    /\ cmd[p][h] = NoCommand
    /\ <<a, h>> \notin page[p].locks
    /\ begun < MaxCommands /\ begun' = begun + 1

\* Wrong: the lock is not staged before the write.
BeginUnstaged(p, h, a) ==
    /\ a \in Staged /\ MayBegin(p, h, a)
    /\ cmd' = [cmd EXCEPT ![p][h] = Started(p, h, a, "sent")]
    /\ UNCHANGED <<Server, locks, page, doubt, overruled, faults>>

\* handleToggle, handleDelete, handleRotateSecret.
Begin(p, h, a) ==
    /\ a \in Staged /\ MayBegin(p, h, a)
    /\ \/ /\ Stage(p, page[p], <<a, h>>)
          /\ cmd' = [cmd EXCEPT ![p][h] = Started(p, h, a, "sent")]
          /\ doubt' = doubt \cup {<<p, a, h>>}
       \/ StageFails(p, page[p], <<a, h>>) /\ UNCHANGED <<cmd, doubt>>
    /\ UNCHANGED <<Server, overruled>>

\* handleTest reads the deliveries before it stages its lock.
BeginTest(p, h) ==
    /\ MayBegin(p, h, "test")
    /\ cmd' = [cmd EXCEPT ![p][h] = Started(p, h, "test", "before")]
    /\ UNCHANGED <<Server, locks, page, doubt, overruled, faults>>

Ended(p, h) == [cmd EXCEPT ![p][h] = NoCommand]

StageTest(p, h) ==
    /\ cmd[p][h].step = "before"
    /\ \/ /\ Stage(p, page[p], <<"test", h>>)
          /\ cmd' = [cmd EXCEPT ![p][h].step = "sent"]
          /\ doubt' = doubt \cup {<<p, "test", h>>}
       \/ StageFails(p, page[p], <<"test", h>>) /\ cmd' = Ended(p, h) /\ UNCHANGED doubt
    /\ UNCHANGED <<Server, overruled, begun>>

\* The first read fails: the lock is cleared, staged by this command or not.
TestReadFails(p, h) ==
    /\ cmd[p][h].step = "before"
    /\ IF cmd[p][h].current
       THEN /\ locks' = locks \ {<<"test", h>>}
            /\ page' = [page EXCEPT ![p].locks = locks', ![p].ready = TRUE]
       ELSE UNCHANGED <<locks, page>>
    /\ cmd' = Ended(p, h)
    /\ UNCHANGED <<Server, doubt, overruled, begun, faults>>

---------------------------------------------------------------------------
(* The server: routes/webhooks.ts performs the write, then audits it. *)

Effect(w) ==
    CASE w.act = "toggle" -> [hook EXCEPT ![w.hook] = IF w.want THEN "on" ELSE "off"]
      [] w.act = "delete" -> [hook EXCEPT ![w.hook] = "gone"]
      [] OTHER            -> hook

Performs(w) ==
    /\ hook[w.hook] # "gone"
    /\ hook' = Effect(w)
    /\ changes' = IF hook' = hook THEN changes ELSE changes + 1

Perform(p, h) ==
    /\ cmd[p][h].step = "sent"
    /\ Performs(Write(p, h))
    /\ cmd' = [cmd EXCEPT ![p][h].step = "performed",
                          ![p][h].seen = IF cmd[p][h].act = "rotate" THEN List ELSE Null]
    /\ UNCHANGED <<locks, page, late, doubt, overruled, begun, faults>>

Answered(p, h, answer) ==
    /\ cmd' = [cmd EXCEPT ![p][h].step = "answered", ![p][h].answer = answer]
    /\ UNCHANGED <<hook, changes, locks, page, doubt, overruled, begun>>

AuditDone(p, h) ==
    /\ cmd[p][h].step = "performed"
    /\ Answered(p, h, "ok")
    /\ UNCHANGED <<late, faults>>

\* A 4xx, before the write or from the audit after it.
Refused(p, h) ==
    /\ cmd[p][h].step \in {"sent", "performed"}
    /\ Answered(p, h, "refused")
    /\ UNCHANGED <<late, faults>>

\* A 5xx, a network error, or eight seconds without an answer: what was not
\* performed may still be.
NoAnswer(p, h) ==
    /\ cmd[p][h].step \in {"sent", "performed"}
    /\ Fault
    /\ Answered(p, h, "unknown")
    /\ late' = IF cmd[p][h].step = "sent" THEN late \cup {Write(p, h)} ELSE late

\* A 401, from the route or from the audit: the session client refreshes the
\* token and sends the write again, once.  Toggles do without it.
SentAgain(p, h) ==
    /\ cmd[p][h].step \in {"sent", "performed"}
    /\ cmd[p][h].act # "toggle" /\ ~cmd[p][h].again
    /\ Fault
    /\ cmd' = [cmd EXCEPT ![p][h].step = "sent", ![p][h].again = TRUE]
    /\ UNCHANGED <<Server, locks, page, doubt, overruled, begun>>

\* Another administrator deletes the webhook.
DeletedElsewhere(h) ==
    /\ hook[h] # "gone"
    /\ Fault
    /\ hook' = [hook EXCEPT ![h] = "gone"]
    /\ changes' = changes + 1
    /\ UNCHANGED <<locks, page, cmd, late, doubt, overruled, begun>>

PerformLate(w) ==
    /\ w \in late /\ Performs(w)
    /\ late' = late \ {w}
    /\ UNCHANGED <<locks, page, cmd, doubt, overruled, begun, faults>>

---------------------------------------------------------------------------
(* The handler goes on.  The lock is kept, cleared or staged again. *)

KeepLock == UNCHANGED <<locks, page, doubt, faults>>
Settle(p, pg, a, h) == Clear(p, pg, <<a, h>>) /\ doubt' = doubt \ {<<p, a, h>>}
Unsettled(p, pg, a, h) == RecordUnknown(p, pg, <<a, h>>) /\ UNCHANGED doubt

\* readWebhookList: the newest list request of the page.
AskList(p, h) ==
    /\ cmd' = [cmd EXCEPT ![p][h].step = "reading"]
    /\ page' = [page EXCEPT ![p].latest = h]
    /\ UNCHANGED <<locks, doubt, faults>>

\* Wrong: a toggle refused by the server is taken for not performed.
DefiniteToggle(p, h) ==
    IF cmd[p][h].answer = "refused"
    THEN Clear(p, page[p], <<"toggle", h>>) /\ UNCHANGED doubt /\ cmd' = Ended(p, h)
    ELSE AskList(p, h)

\* toggleWebhookCommand: whatever the answer, the list is read.
ToggleAnswered(p, h) == AskList(p, h)

\* Wrong: the operation of a refused command is never finished.
UnfinishedRefusal(p, h) ==
    /\ cmd[p][h].answer = "refused"
    /\ IF cmd[p][h].current THEN Settle(p, page[p], cmd[p][h].act, h) ELSE KeepLock
    /\ cmd' = [cmd EXCEPT ![p][h].step = "refused"]

\* Only a refusal asks whether the command is still current.
RefusedAnswer(p, h) ==
    /\ cmd[p][h].answer = "refused"
    /\ IF cmd[p][h].current THEN Settle(p, page[p], cmd[p][h].act, h) ELSE KeepLock
    /\ cmd' = Ended(p, h)

DeleteAnswered(p, h) == IF cmd[p][h].answer = "refused" THEN RefusedAnswer(p, h) ELSE AskList(p, h)

\* A rotated webhook is shown as the answer has it, in the list as it is.
WithAck(p, h) ==
    IF page[p].life = "live" THEN [page[p] EXCEPT !.shown.rows[h] = cmd[p][h].seen.rows[h]] ELSE page[p]

\* Outcomes of handleRotateSecret.  When the lock cannot be cleared, the row
\* stays as it was.
RotateAnswered(p, h) ==
    \/ RefusedAnswer(p, h)
    \/ /\ cmd[p][h].answer = "ok"
       /\ \/ Put(p, WithAck(p, h), locks \ {<<"rotate", h>>})
          \/ Fault /\ StorageFails(p, page[p])
       /\ doubt' = doubt \ {<<p, "rotate", h>>} /\ cmd' = Ended(p, h)
    \/ /\ cmd[p][h].answer = "unknown"
       /\ Unsettled(p, page[p], "rotate", h) /\ cmd' = Ended(p, h)

TestAnswered(p, h) ==
    IF cmd[p][h].answer = "refused" THEN RefusedAnswer(p, h)
    ELSE cmd' = [cmd EXCEPT ![p][h].step = "reading"] /\ KeepLock

Resume(p, h) ==
    /\ cmd[p][h].step = "answered"
    /\ \/ cmd[p][h].act = "toggle" /\ ToggleAnswered(p, h)
       \/ cmd[p][h].act = "delete" /\ DeleteAnswered(p, h)
       \/ cmd[p][h].act = "rotate" /\ RotateAnswered(p, h)
       \/ cmd[p][h].act = "test" /\ TestAnswered(p, h)
    /\ UNCHANGED <<Server, overruled, begun>>

ListAnswered(p, h) ==
    /\ cmd[p][h].step = "reading" /\ cmd[p][h].act # "test"
    /\ \/ cmd' = [cmd EXCEPT ![p][h].step = "read", ![p][h].seen = List]
       \/ cmd' = [cmd EXCEPT ![p][h].step = "read"]
    /\ UNCHANGED <<Server, locks, page, doubt, overruled, begun, faults>>

\* The command ends having shown its list; the list may invalidate others.
EndedWithList(p, h) == [cmd EXCEPT ![p] = Invalidated([@ EXCEPT ![h] = NoCommand], cmd[p][h].seen)]
WithList(p, h) ==
    IF page[p].life = "live" THEN [page[p] EXCEPT !.shown = cmd[p][h].seen] ELSE page[p]

\* handleToggle after its read: a page left or a newer list leaves the lock.
ToggleEnds(p, h) ==
    LET c == cmd[p][h] IN
    IF page[p].life = "gone" \/ ~c.current \/ ~Applies(page[p], h)
    THEN KeepLock /\ cmd' = Ended(p, h)
    ELSE IF c.seen # Null /\ c.seen.rows[h] = (IF c.want THEN "on" ELSE "off")
    THEN Settle(p, WithList(p, h), "toggle", h) /\ cmd' = EndedWithList(p, h)
    ELSE Unsettled(p, page[p], "toggle", h) /\ cmd' = Ended(p, h)

\* handleDelete after its read.
DeleteEnds(p, h) ==
    LET c == cmd[p][h] IN
    IF ~c.current THEN KeepLock /\ cmd' = Ended(p, h)
    ELSE IF c.seen # Null /\ h \notin Listed(c.seen) /\ Applies(page[p], h)
    THEN Settle(p, WithList(p, h), "delete", h) /\ cmd' = EndedWithList(p, h)
    ELSE Unsettled(p, page[p], "delete", h) /\ cmd' = Ended(p, h)

ReadBack(p, h) ==
    /\ cmd[p][h].step = "read"
    /\ \/ cmd[p][h].act = "toggle" /\ ToggleEnds(p, h)
       \/ cmd[p][h].act = "delete" /\ DeleteEnds(p, h)
    /\ UNCHANGED <<Server, overruled, begun>>

\* handleTest after its second read: verified only if the call succeeded and
\* the new delivery is listed.
TestEnds(p, h) ==
    /\ cmd[p][h].step = "reading" /\ cmd[p][h].act = "test"
    /\ \/ ~cmd[p][h].current /\ KeepLock
       \/ /\ cmd[p][h].current
          /\ Unsettled(p, page[p], "test", h)
       \/ /\ cmd[p][h].current /\ cmd[p][h].answer = "ok"
          /\ Settle(p, page[p], "test", h)
    /\ cmd' = Ended(p, h)
    /\ UNCHANGED <<Server, overruled, begun>>

---------------------------------------------------------------------------

\* A command under way.
Goes(p, h) ==
    \/ StageTest(p, h) \/ TestReadFails(p, h)
    \/ Perform(p, h) \/ AuditDone(p, h) \/ Refused(p, h) \/ NoAnswer(p, h) \/ SentAgain(p, h)
    \/ Resume(p, h) \/ ListAnswered(p, h) \/ ReadBack(p, h) \/ TestEnds(p, h)

ConsoleNext ==
    \/ \E p \in Pages :
        \/ Mount(p) \/ Leave(p) \/ Load(p)
        \/ \E h \in Hooks :
            \/ \E a \in Staged : Begin(p, h, a)
            \/ \E a \in Acts : Acknowledge(p, a, h)
            \/ BeginTest(p, h) \/ Goes(p, h)
    \/ \E h \in Hooks : DeletedElsewhere(h)
    \/ \E w \in late : PerformLate(w)
    \/ Reload

ConsoleSpec == ConsoleInit /\ [][ConsoleNext]_consoleVars

---------------------------------------------------------------------------

Locks == Acts \X Hooks
Writes == [act : Acts, hook : Hooks, want : BOOLEAN \cup {Null}]
PageState == [life : {"away", "live", "gone"}, locks : SUBSET Locks, ready : BOOLEAN,
              shown : Lists \cup {Null}, latest : Hooks \cup {Null}]
Command == [act : Acts \cup {Null}, want : BOOLEAN \cup {Null},
            step : {"none", "before", "sent", "performed", "answered", "reading", "read"},
            answer : {"ok", "refused", "unknown", Null}, again : BOOLEAN,
            current : BOOLEAN, seen : Lists \cup {Null}]

ConsoleTypeOK ==
    /\ hook \in [Hooks -> {"on", "off", "gone"}] /\ changes \in Nat
    /\ locks \subseteq Locks /\ overruled \subseteq Locks
    /\ doubt \subseteq Pages \X Acts \X Hooks
    /\ late \subseteq Writes
    /\ page \in [Pages -> PageState] /\ cmd \in [Pages -> [Hooks -> Command]]
    /\ begun \in 0..MaxCommands /\ faults \in 0..MaxFaults

\* A toggle that was sent keeps its lock in storage until the list has shown
\* the state it asked for or the administrator has acknowledged it, whatever
\* was refused, lost or left on the way and whichever page is shown: "页面刷新
\* 恢复未决锁" and "PUT 的 401/403/409 均不能直接解锁" in docs/app-contract-pilot.md.
ToggleInDoubtIsLocked ==
    \A d \in doubt : d[2] = "toggle" => LockOf(d) \in locks

\* A delete or a rotation whose fate is not known keeps its lock, unless the
\* administrator acknowledged it while it still ran: then the handler of a
\* page left behind may clear the lock of the next one.
DeleteOrRotateInDoubtIsLocked ==
    \A d \in doubt : d[2] \in {"delete", "rotate"} => LockOf(d) \in locks \cup overruled

\* What is in doubt is locked, in every state.
ConsoleInvariant ==
    ConsoleTypeOK /\ ToggleInDoubtIsLocked /\ DeleteOrRotateInDoubtIsLocked

\* Two pages never have the same write under way on one webhook, though the
\* handlers of a page left behind run on, unless the administrator acknowledged it.
OneWriterPerLock ==
    \A a \in Staged, h \in Hooks :
        Cardinality(Running(a, h)) > 1 => <<a, h>> \in overruled

\* The list a page shows never goes back to an older state of the server,
\* though lists are read by several handlers at once and answered in any order.
ShownListNeverGoesBack ==
    [][\A p \in Pages :
        (page[p].shown # Null /\ page'[p].shown # Null)
            => page'[p].shown.at >= page[p].shown.at]_consoleVars
=============================================================================
