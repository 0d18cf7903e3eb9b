------------------------ MODULE WebhookConsoleProofs ------------------------
(***************************************************************************)
(* The webhook page, for any number of pages, webhooks and commands, and   *)
(* however often answers are lost, writes are sent again, the storage      *)
(* fails and the tab is reloaded.                                          *)
(***************************************************************************)
EXTENDS WebhookConsole, FiniteSetTheorems, TLAPS

(***************************************************************************)
(* The inductive invariant: the lists a page has.                          *)
(***************************************************************************)

\* A list that may still be shown is not older than the one that is.
CommandFits(pg, c, h) ==
    /\ c.act = Null => c = NoCommand
    /\ c.step = "before" => c.act = "test"
    /\ c.step \in {"reading", "read"} => c.act # "rotate"
    /\ c.seen # Null => c.seen.at <= changes
    /\ c.act \in {"toggle", "delete"} /\ c.step # "read" => c.seen = Null
    /\ c.act = "rotate" /\ c.step = "performed" => c.seen # Null
    /\ c.act = "rotate" /\ c.step = "answered" /\ c.answer = "ok" => c.seen # Null
    /\ (c.step = "read" /\ c.seen # Null /\ pg.latest = h /\ pg.shown # Null) =>
         pg.shown.at <= c.seen.at

Quiet(row) == \A h \in Hooks : row[h] = NoCommand

\* Commands run on a page that has shown a list, also when it has been left.
PageFits(pg, row) ==
    /\ pg.life = "away" => Quiet(row)
    /\ pg.life = "live" /\ pg.shown = Null => Quiet(row)
    /\ pg.shown # Null => pg.life = "live" /\ pg.shown.at <= changes
    /\ \A h \in Hooks : CommandFits(pg, row[h], h)

ListsInv == \A p \in Pages : PageFits(page[p], cmd[p])

(***************************************************************************)
(* The inductive invariant: the locks.                                     *)
(***************************************************************************)
OneLivePage == \A p, q \in Pages : page[p].life = "live" /\ page[q].life = "live" => p = q

Runs(p, a, h) == cmd[p][h].act = a

\* What runs is locked, by one page, unless it was overruled.
RunningIsLocked ==
    \A p \in Pages, a \in Staged, h \in Hooks :
        Runs(p, a, h) => <<a, h>> \in locks \cup overruled
RunsOnce ==
    \A p, q \in Pages, a \in Staged, h \in Hooks :
        Runs(p, a, h) /\ Runs(q, a, h) /\ p # q => <<a, h>> \in overruled

\* A page that runs what another is in doubt about was overruled; with a toggle
\* it has been left, so it will not clear the other's lock.
DoubtIsRespected ==
    \A p, q \in Pages, a \in Staged, h \in Hooks :
        Runs(p, a, h) /\ <<q, a, h>> \in doubt /\ p # q =>
            <<a, h>> \in overruled /\ (a = "toggle" => page[p].life = "gone")

LocksInv ==
    /\ OneLivePage /\ RunningIsLocked /\ RunsOnce /\ DoubtIsRespected
    /\ ToggleInDoubtIsLocked /\ DeleteOrRotateInDoubtIsLocked

ConsoleInv == ConsoleTypeOK /\ ListsInv /\ LocksInv

LEMMA Names ==
    /\ Null \notin Hooks /\ Null \notin Acts /\ Null \notin Staged /\ Null \notin Lists
    /\ Staged = {"toggle", "delete", "rotate"} /\ Acts = {"toggle", "delete", "rotate", "test"}
    /\ Null \notin {"ok", "refused", "unknown"}
BY ConsoleAssumption DEF Acts, Staged

LEMMA NothingTyped ==
    /\ NoCommand \in Command /\ NoCommand.act = Null /\ NoCommand.step = "none"
    /\ NoCommand.seen = Null
    /\ NoPage \in PageState /\ NoPage.life = "away" /\ NoPage.shown = Null
BY DEF NoCommand, Command, NoPage, PageState

LEMMA NoCommandFits == \A pg, h : CommandFits(pg, NoCommand, h)
BY NothingTyped, Names DEF CommandFits

LEMMA ConsoleInvInit == ConsoleInit => ConsoleInv
<1> SUFFICES ASSUME ConsoleInit PROVE ConsoleInv
  OBVIOUS
<1> USE NothingTyped, Names, ConsoleAssumption DEF ConsoleInit
<1>1. ConsoleTypeOK
  BY DEF ConsoleTypeOK
<1>2. ListsInv
  BY NoCommandFits DEF ListsInv, PageFits, Quiet
<1>3. LocksInv
  BY DEF LocksInv, OneLivePage, Runs, RunningIsLocked, RunsOnce, DoubtIsRespected,
         ToggleInDoubtIsLocked, DeleteOrRotateInDoubtIsLocked
<1> QED BY <1>1, <1>2, <1>3 DEF ConsoleInv

(***************************************************************************)
(* What a step of one page does to the lists and the locks.                *)
(***************************************************************************)

\* Page p and its commands change to something that fits, and the list it
\* shows does not go back.
PageMoves(p) ==
    /\ page' \in [Pages -> PageState] /\ cmd' \in [Pages -> [Hooks -> Command]]
    /\ \A q \in Pages \ {p} : page'[q] = page[q] /\ cmd'[q] = cmd[q]
    /\ changes' \in Nat /\ changes <= changes'
    /\ PageFits(page[p], cmd[p])'
    /\ (page[p].shown # Null /\ page'[p].shown # Null) =>
         page'[p].shown.at >= page[p].shown.at

LEMMA FitsStays ==
    ASSUME ConsoleInv, NEW p \in Pages, UNCHANGED <<page[p], cmd[p]>>,
           changes' \in Nat, changes <= changes'
    PROVE  PageFits(page[p], cmd[p])'
<1>1. /\ PageFits(page[p], cmd[p]) /\ changes \in Nat
      /\ page[p].shown # Null => page[p].shown.at \in Nat
      /\ \A h \in Hooks : cmd[p][h].seen # Null => cmd[p][h].seen.at \in Nat
  BY DEF ConsoleInv, ListsInv, ConsoleTypeOK, PageState, Command, Lists
<1> QED BY <1>1 DEF PageFits, CommandFits, Quiet

LEMMA ListsKeep ==
    ASSUME ConsoleInv, NEW p \in Pages, PageMoves(p) PROVE ListsInv'
<1>1. \A q \in Pages \ {p} : PageFits(page[q], cmd[q])'
  BY FitsStays DEF PageMoves
<1> QED BY <1>1 DEF PageMoves, ListsInv

\* No staged command starts, and no page comes to life.
Subsides ==
    /\ \A p \in Pages, h \in Hooks : cmd'[p][h].act \in Staged => cmd'[p][h].act = cmd[p][h].act
    /\ \A p \in Pages :
         \/ page'[p].life = page[p].life
         \/ page'[p].life = "gone"
         \/ page'[p].life # "live" /\ \A h \in Hooks : cmd'[p][h].act = Null

\* The locks of staged commands stay, and what is in doubt does not grow.
LocksStay ==
    /\ \A a \in Staged, h \in Hooks : <<a, h>> \in locks => <<a, h>> \in locks'
    /\ \A q \in Pages, a \in Staged, h \in Hooks : <<q, a, h>> \in doubt' => <<q, a, h>> \in doubt
    /\ overruled \subseteq overruled'

LEMMA DoubtIs ==
    ASSUME ConsoleTypeOK, NEW d \in doubt
    PROVE  /\ d[1] \in Pages /\ d[2] \in Acts /\ d[3] \in Hooks
           /\ d = <<d[1], d[2], d[3]>>
BY DEF ConsoleTypeOK

LEMMA SubsidingKeeps ==
    ASSUME ConsoleInv, ConsoleTypeOK', Subsides, LocksStay PROVE LocksInv'
<1> USE DEF ConsoleInv, LocksInv, Subsides, LocksStay
<1>1. \A p \in Pages, a \in Staged, h \in Hooks : Runs(p, a, h)' => Runs(p, a, h)
  BY Names DEF Runs
<1>2. OneLivePage'
  BY DEF OneLivePage
<1>3. RunningIsLocked'
  BY <1>1 DEF RunningIsLocked
<1>4. RunsOnce'
  BY <1>1 DEF RunsOnce
<1>5. DoubtIsRespected'
  <2> SUFFICES ASSUME NEW p \in Pages, NEW q \in Pages, NEW a \in Staged, NEW h \in Hooks,
                      Runs(p, a, h)', <<q, a, h>> \in doubt', p # q
               PROVE  <<a, h>> \in overruled' /\ (a = "toggle" => page'[p].life = "gone")
    BY DEF DoubtIsRespected
  <2>1. Runs(p, a, h) /\ <<q, a, h>> \in doubt
    BY <1>1
  <2>2. <<a, h>> \in overruled /\ (a = "toggle" => page[p].life = "gone")
    BY <2>1 DEF DoubtIsRespected
  <2>3. a = "toggle" => page'[p].life = "gone"
    BY <2>2, Names DEF Runs
  <2> QED BY <2>2, <2>3
<1>6. ToggleInDoubtIsLocked' /\ DeleteOrRotateInDoubtIsLocked'
  <2> SUFFICES ASSUME NEW d \in doubt'
               PROVE  /\ d[2] = "toggle" => LockOf(d) \in locks'
                      /\ d[2] \in {"delete", "rotate"} => LockOf(d) \in locks' \cup overruled'
    BY DEF ToggleInDoubtIsLocked, DeleteOrRotateInDoubtIsLocked
  <2>1. d[1] \in Pages /\ d[3] \in Hooks /\ d = <<d[1], d[2], d[3]>>
    BY DoubtIs DEF ConsoleTypeOK
  <2>2. d[2] \in Staged => d \in doubt
    BY <2>1
  <2> QED BY <2>1, <2>2, Names DEF ToggleInDoubtIsLocked, DeleteOrRotateInDoubtIsLocked, LockOf
<1> QED BY <1>2, <1>3, <1>4, <1>5, <1>6

\* p's own command on h is over, its lock is cleared and it is in doubt no more.
LEMMA SettlingKeeps ==
    ASSUME ConsoleInv, ConsoleTypeOK', Subsides, NEW p \in Pages, NEW a \in Staged, NEW h \in Hooks,
           Runs(p, a, h), ~Runs(p, a, h)', a = "toggle" => page[p].life # "gone",
           locks' = locks \ {<<a, h>>}, doubt' = doubt \ {<<p, a, h>>}, UNCHANGED overruled
    PROVE  LocksInv'
<1> USE DEF ConsoleInv, LocksInv, Subsides
<1>1. \A q \in Pages, b \in Staged, g \in Hooks : Runs(q, b, g)' => Runs(q, b, g)
  BY Names DEF Runs
<1>2. OneLivePage'
  BY DEF OneLivePage
<1>3. RunningIsLocked'
  <2> SUFFICES ASSUME NEW q \in Pages, NEW b \in Staged, NEW g \in Hooks, Runs(q, b, g)'
               PROVE  <<b, g>> \in locks' \cup overruled'
    BY DEF RunningIsLocked
  <2>1. CASE b = a /\ g = h
    BY <1>1, <2>1 DEF RunsOnce
  <2>2. CASE <<b, g>> # <<a, h>>
    BY <1>1, <2>2 DEF RunningIsLocked
  <2> QED BY <2>1, <2>2
<1>4. RunsOnce'
  BY <1>1 DEF RunsOnce
<1>5. DoubtIsRespected'
  <2> SUFFICES ASSUME NEW r \in Pages, NEW q \in Pages, NEW b \in Staged, NEW g \in Hooks,
                      Runs(r, b, g)', <<q, b, g>> \in doubt', r # q
               PROVE  <<b, g>> \in overruled' /\ (b = "toggle" => page'[r].life = "gone")
    BY DEF DoubtIsRespected
  <2>1. Runs(r, b, g) /\ <<q, b, g>> \in doubt
    BY <1>1
  <2>2. <<b, g>> \in overruled /\ (b = "toggle" => page[r].life = "gone")
    BY <2>1 DEF DoubtIsRespected
  <2>3. b = "toggle" => page'[r].life = "gone"
    BY <2>2, Names DEF Runs
  <2> QED BY <2>2, <2>3
<1>6. ToggleInDoubtIsLocked' /\ DeleteOrRotateInDoubtIsLocked'
  <2> SUFFICES ASSUME NEW d \in doubt'
               PROVE  /\ d[2] = "toggle" => LockOf(d) \in locks'
                      /\ d[2] \in {"delete", "rotate"} => LockOf(d) \in locks' \cup overruled'
    BY DEF ToggleInDoubtIsLocked, DeleteOrRotateInDoubtIsLocked
  <2>1. d \in doubt /\ d # <<p, a, h>> /\ d[1] \in Pages /\ d = <<d[1], d[2], d[3]>>
    BY DoubtIs
  <2>2. CASE LockOf(d) = <<a, h>>
    <3>1. d[1] # p /\ d = <<d[1], a, h>>
      BY <2>1, <2>2 DEF LockOf
    <3>2. <<a, h>> \in overruled /\ (a = "toggle" => page[p].life = "gone")
      BY <2>1, <3>1 DEF DoubtIsRespected
    <3> QED BY <2>2, <3>1, <3>2 DEF LockOf
  <2>3. CASE LockOf(d) # <<a, h>>
    BY <2>1, <2>3 DEF ToggleInDoubtIsLocked, DeleteOrRotateInDoubtIsLocked
  <2> QED BY <2>2, <2>3
<1> QED BY <1>2, <1>3, <1>4, <1>5, <1>6

(***************************************************************************)
(* The lock store.                                                         *)
(***************************************************************************)

\* Page p becomes pg, but for its copy of the locks.
PageBecomes(p, pg) ==
    /\ page' \in [Pages -> PageState] /\ \A q \in Pages \ {p} : page'[q] = page[q]
    /\ page'[p].life = pg.life /\ page'[p].shown = pg.shown /\ page'[p].latest = pg.latest

LEMMA FaultTyped == ASSUME ConsoleTypeOK, Fault PROVE faults' \in 0..MaxFaults
BY ConsoleAssumption DEF ConsoleTypeOK, Fault

LEMMA PutIs ==
    ASSUME ConsoleTypeOK, NEW p \in Pages, NEW pg \in PageState, NEW new \in SUBSET Locks,
           Put(p, pg, new)
    PROVE  PageBecomes(p, pg) /\ locks' = new /\ faults' \in 0..MaxFaults
<1> DEFINE x == [pg EXCEPT !.locks = new, !.ready = TRUE]
<1>1. x \in PageState /\ x.life = pg.life /\ x.shown = pg.shown /\ x.latest = pg.latest
  BY DEF PageState
<1>2. page' = [page EXCEPT ![p] = x] /\ locks' = new /\ UNCHANGED faults
  BY DEF Put
<1> HIDE DEF x
<1> QED BY <1>1, <1>2 DEF PageBecomes, ConsoleTypeOK

LEMMA StorageFailsIs ==
    ASSUME ConsoleTypeOK, NEW p \in Pages, NEW pg \in PageState, StorageFails(p, pg)
    PROVE  PageBecomes(p, pg) /\ locks' = locks
<1> DEFINE x == [pg EXCEPT !.ready = FALSE]
<1>1. x \in PageState /\ x.life = pg.life /\ x.shown = pg.shown /\ x.latest = pg.latest
  BY DEF PageState
<1>2. page' = [page EXCEPT ![p] = x] /\ locks' = locks
  BY DEF StorageFails
<1> HIDE DEF x
<1> QED BY <1>1, <1>2 DEF PageBecomes, ConsoleTypeOK

LEMMA StageIs ==
    ASSUME ConsoleTypeOK, NEW p \in Pages, NEW pg \in PageState, NEW l \in Locks,
           Stage(p, pg, l) \/ StageFails(p, pg, l)
    PROVE  /\ PageBecomes(p, pg) /\ faults' \in 0..MaxFaults
           /\ Stage(p, pg, l) => l \notin locks /\ locks' = locks \cup {l}
           /\ StageFails(p, pg, l) => locks' = locks
<1>1. CASE Stage(p, pg, l)
  <2>1. l \notin locks /\ locks \cup {l} \in SUBSET Locks /\ Put(p, pg, locks \cup {l})
    BY <1>1 DEF Stage, ConsoleTypeOK
  <2>2. PageBecomes(p, pg) /\ locks' = locks \cup {l} /\ faults' \in 0..MaxFaults
    BY <2>1, PutIs
  <2>3. ~StageFails(p, pg, l)
    BY <2>1, <2>2 DEF StageFails, StorageFails
  <2> QED BY <2>1, <2>2, <2>3
<1>2. CASE StageFails(p, pg, l)
  <2>1. faults' \in 0..MaxFaults
    BY <1>2, FaultTyped DEF StageFails, ConsoleTypeOK
  <2>2. StorageFails(p, pg)
    BY <1>2 DEF StageFails
  <2>3. PageBecomes(p, pg) /\ locks' = locks
    BY <2>2, StorageFailsIs
  <2>4. ~Stage(p, pg, l)
    BY <2>3 DEF Stage, Put
  <2> QED BY <2>1, <2>3, <2>4
<1> QED BY <1>1, <1>2

LEMMA ClearIs ==
    ASSUME ConsoleTypeOK, NEW p \in Pages, NEW pg \in PageState, NEW l \in Locks,
           Clear(p, pg, l)
    PROVE  PageBecomes(p, pg) /\ locks' \in {locks, locks \ {l}} /\ faults' \in 0..MaxFaults
<1>1. CASE Put(p, pg, locks \ {l})
  <2>1. locks \ {l} \in SUBSET Locks
    BY DEF ConsoleTypeOK
  <2> QED BY <1>1, <2>1, PutIs
<1>2. CASE Fault /\ StorageFails(p, pg)
  BY <1>2, StorageFailsIs, FaultTyped
<1> QED BY <1>1, <1>2 DEF Clear

LEMMA RecordUnknownIs ==
    ASSUME ConsoleTypeOK, NEW p \in Pages, NEW pg \in PageState, NEW l \in Locks,
           RecordUnknown(p, pg, l)
    PROVE  /\ PageBecomes(p, pg) /\ locks \subseteq locks' /\ locks' \subseteq Locks
           /\ faults' \in 0..MaxFaults
<1>1. CASE l \in pg.locks
  BY <1>1 DEF RecordUnknown, PageBecomes, ConsoleTypeOK
<1>2. CASE l \notin pg.locks
  <2>1. Stage(p, pg, l) \/ StageFails(p, pg, l)
    BY <1>2 DEF RecordUnknown
  <2> QED BY <2>1, StageIs DEF ConsoleTypeOK
<1> QED BY <1>1, <1>2

(***************************************************************************)
(* A command under way: what it is, and what its steps do to the lists.    *)
(***************************************************************************)
LEMMA RunningIs ==
    ASSUME ConsoleInv, NEW p \in Pages, NEW h \in Hooks, cmd[p][h].step # "none"
    PROVE  /\ cmd[p][h] \in Command /\ cmd[p][h] # NoCommand /\ cmd[p][h].act \in Acts
           /\ page[p] \in PageState /\ page[p].life \in {"live", "gone"}
           /\ page[p].life = "live" => page[p].shown \in Lists
           /\ CommandFits(page[p], cmd[p][h], h)
           /\ <<cmd[p][h].act, h>> \in Locks
<1>1. /\ cmd[p][h] \in Command /\ page[p] \in PageState /\ PageFits(page[p], cmd[p])
      /\ cmd[p][h] # NoCommand
  BY NothingTyped DEF ConsoleInv, ConsoleTypeOK, ListsInv
<1>2. CommandFits(page[p], cmd[p][h], h) /\ cmd[p][h].act # Null
  BY <1>1 DEF PageFits, CommandFits
<1> QED BY <1>1, <1>2 DEF PageFits, Quiet, Command, PageState, Locks

\* The command of p on h becomes what it becomes, the others stay.
CommandSteps(p, h) ==
    /\ cmd' \in [Pages -> [Hooks -> Command]] /\ \A q \in Pages \ {p} : cmd'[q] = cmd[q]
    /\ \A g \in Hooks \ {h} : cmd'[p][g] = cmd[p][g]

LEMMA CommandIs ==
    ASSUME ConsoleTypeOK, NEW p \in Pages, NEW h \in Hooks, NEW c \in Command,
           cmd' = [cmd EXCEPT ![p][h] = c]
    PROVE  CommandSteps(p, h) /\ cmd'[p][h] = c
BY DEF ConsoleTypeOK, CommandSteps

\* The page shows what it showed, as far as the age of the list goes; the list
\* requested last may be the one for h.
ShowsTheSame(p, h) ==
    /\ page' \in [Pages -> PageState] /\ \A q \in Pages \ {p} : page'[q] = page[q]
    /\ page'[p].life = page[p].life /\ page'[p].latest \in {page[p].latest, h}
    /\ page'[p].shown = Null <=> page[p].shown = Null
    /\ page[p].shown # Null => page'[p].shown.at = page[p].shown.at

LEMMA BecomesTheSame ==
    ASSUME NEW p \in Pages, NEW h \in Hooks, PageBecomes(p, page[p]) PROVE ShowsTheSame(p, h)
BY DEF PageBecomes, ShowsTheSame

\* A page on which something may run.
InUse(p) == page[p].life = "gone" \/ (page[p].life = "live" /\ page[p].shown # Null)

LEMMA CommandMoves ==
    ASSUME ConsoleInv, NEW p \in Pages, NEW h \in Hooks, InUse(p), CommandSteps(p, h),
           ShowsTheSame(p, h), changes' \in Nat, changes <= changes',
           CommandFits(page[p], cmd[p][h], h)'
    PROVE  PageMoves(p)
<1>1. /\ PageFits(page[p], cmd[p]) /\ changes \in Nat /\ page[p] \in PageState
      /\ \A g \in Hooks : cmd[p][g].seen # Null => cmd[p][g].seen.at \in Nat
      /\ page[p].shown # Null => page[p].shown.at \in Nat
      /\ page'[p].shown # Null => page'[p].shown.at \in Nat
  BY DEF ConsoleInv, ListsInv, ConsoleTypeOK, PageState, Command, Lists, ShowsTheSame
<1>2. \A g \in Hooks \ {h} : CommandFits(page[p], cmd[p][g], g)'
  <2> SUFFICES ASSUME NEW g \in Hooks \ {h} PROVE CommandFits(page[p], cmd[p][g], g)'
    OBVIOUS
  <2>1. CommandFits(page[p], cmd[p][g], g) /\ cmd'[p][g] = cmd[p][g]
    BY <1>1 DEF PageFits, CommandSteps
  <2> QED BY <1>1, <2>1 DEF CommandFits, ShowsTheSame
<1>3. PageFits(page[p], cmd[p])'
  BY <1>1, <1>2 DEF PageFits, InUse, ShowsTheSame
<1> QED BY <1>1, <1>3 DEF PageMoves, CommandSteps, ShowsTheSame

(***************************************************************************)
(* Steps of a command under way that leave the lock alone.                 *)
(***************************************************************************)
RestTyped ==
    /\ hook \in [Hooks -> {"on", "off", "gone"}]
    /\ locks \subseteq Locks /\ overruled \subseteq Locks
    /\ doubt \subseteq Pages \X Acts \X Hooks
    /\ late \subseteq Writes
    /\ begun \in 0..MaxCommands /\ faults \in 0..MaxFaults

LEMMA TypesKeep ==
    ASSUME ConsoleInv, NEW p \in Pages, PageMoves(p), RestTyped' PROVE ConsoleTypeOK'
BY ConsoleAssumption DEF ConsoleTypeOK, RestTyped, PageMoves

\* Every staged command of p goes on or ends.
Recedes(p) ==
    /\ \A h \in Hooks : cmd'[p][h].act \in Staged => cmd'[p][h].act = cmd[p][h].act
    /\ page'[p].life = page[p].life

LEMMA RecedingSubsides ==
    ASSUME ConsoleInv, NEW p \in Pages, PageMoves(p), Recedes(p) PROVE Subsides
BY DEF PageMoves, Recedes, Subsides

LEMMA CommandKeeps ==
    ASSUME ConsoleInv, NEW p \in Pages, PageMoves(p), RestTyped', Recedes(p), LocksStay
    PROVE  ConsoleInv'
<1>1. ConsoleTypeOK' /\ ListsInv' /\ Subsides
  BY TypesKeep, ListsKeep, RecedingSubsides
<1> QED BY <1>1, SubsidingKeeps DEF ConsoleInv

\* A command takes a step, on a page that shows what it showed; no lock of a
\* staged command goes.
LEMMA CommandAndPage ==
    ASSUME ConsoleInv, NEW p \in Pages, NEW h \in Hooks, InUse(p),
           NEW c \in Command, cmd' = [cmd EXCEPT ![p][h] = c],
           c.act \in Staged => c.act = cmd[p][h].act, CommandFits(page[p], cmd[p][h], h)',
           ShowsTheSame(p, h), LocksStay, RestTyped', changes' \in Nat, changes <= changes'
    PROVE  ConsoleInv' /\ PageMoves(p)
<1>1. CommandSteps(p, h) /\ cmd'[p][h] = c
  BY CommandIs DEF ConsoleInv
<1>2. PageMoves(p)
  BY <1>1, CommandMoves
<1>3. Recedes(p)
  BY <1>1 DEF Recedes, CommandSteps, ShowsTheSame
<1> QED BY <1>2, <1>3, CommandKeeps

LEMMA RunningInUse ==
    ASSUME ConsoleInv, NEW p \in Pages, NEW h \in Hooks, cmd[p][h].step # "none" PROVE InUse(p)
BY RunningIs, Names DEF InUse

\* The command only takes a step; the page, the locks and the history stay.
LEMMA OnlyTheCommand ==
    ASSUME ConsoleInv, NEW p \in Pages, NEW h \in Hooks, cmd[p][h].step # "none",
           NEW c \in Command, cmd' = [cmd EXCEPT ![p][h] = c],
           c.act = cmd[p][h].act, CommandFits(page[p], cmd[p][h], h)',
           UNCHANGED <<page, locks, doubt, overruled>>, RestTyped',
           changes' \in Nat, changes <= changes'
    PROVE  ConsoleInv' /\ PageMoves(p)
<1>1. ShowsTheSame(p, h) /\ LocksStay
  BY DEF ShowsTheSame, LocksStay, ConsoleInv, ConsoleTypeOK
<1> QED BY <1>1, RunningInUse, CommandAndPage

\* A performed write, sent or late.
LEMMA PerformsIs ==
    ASSUME ConsoleTypeOK, NEW w \in Writes, Performs(w)
    PROVE  hook' \in [Hooks -> {"on", "off", "gone"}] /\ changes' \in Nat /\ changes <= changes'
<1>1. hook' \in [Hooks -> {"on", "off", "gone"}]
  <2>1. CASE w.act = "toggle"
    <3>1. Effect(w) = [hook EXCEPT ![w.hook] = IF w.want THEN "on" ELSE "off"]
      BY <2>1 DEF Effect
    <3> QED BY <3>1 DEF ConsoleTypeOK, Performs
  <2>2. CASE w.act = "delete"
    <3>1. Effect(w) = [hook EXCEPT ![w.hook] = "gone"]
      BY <2>2 DEF Effect
    <3> QED BY <3>1 DEF ConsoleTypeOK, Performs
  <2>3. CASE w.act \notin {"toggle", "delete"}
    <3>1. Effect(w) = hook
      BY <2>3 DEF Effect
    <3> QED BY <3>1 DEF ConsoleTypeOK, Performs
  <2> QED BY <2>1, <2>2, <2>3
<1>2. changes' \in {changes, changes + 1}
  BY DEF Performs
<1> QED BY <1>1, <1>2 DEF ConsoleTypeOK

LEMMA WriteTyped ==
    ASSUME ConsoleInv, NEW p \in Pages, NEW h \in Hooks, cmd[p][h].step # "none"
    PROVE  Write(p, h) \in Writes
BY RunningIs DEF Write, Writes, Command

LEMMA ListTyped == ConsoleTypeOK => List \in Lists /\ List.at = changes /\ List # Null
BY Names DEF ConsoleTypeOK, List, Lists

LEMMA PerformKeeps ==
    ASSUME ConsoleInv, NEW p \in Pages, NEW h \in Hooks, Perform(p, h) PROVE ConsoleInv' /\ PageMoves(p)
<1> DEFINE s == IF cmd[p][h].act = "rotate" THEN List ELSE Null
           c == [cmd[p][h] EXCEPT !.step = "performed", !.seen = s]
<1>1. /\ cmd[p][h].step = "sent" /\ Performs(Write(p, h))
      /\ UNCHANGED <<locks, page, late, doubt, overruled, begun, faults>>
      /\ cmd' = [cmd EXCEPT ![p][h] = c]
  BY DEF Perform, ConsoleInv, ConsoleTypeOK
<1>2. /\ hook' \in [Hooks -> {"on", "off", "gone"}] /\ changes' \in Nat /\ changes <= changes'
      /\ changes \in Nat
  BY <1>1, WriteTyped, PerformsIs DEF ConsoleInv, ConsoleTypeOK
<1>3. s \in Lists \cup {Null} /\ (s # Null => s.at = changes)
      /\ (cmd[p][h].act = "rotate" => s # Null) /\ (cmd[p][h].act # "rotate" => s = Null)
  BY ListTyped DEF ConsoleInv
<1> HIDE DEF s
<1>4. /\ c \in Command /\ c.step = "performed" /\ c.act = cmd[p][h].act /\ c.act \in Acts
      /\ c.seen = s
  BY <1>1, <1>3, RunningIs DEF Command
<1> HIDE DEF c
<1>5. cmd'[p][h] = c
  BY <1>1, <1>4, CommandIs DEF ConsoleInv
<1>6. CommandFits(page[p], cmd[p][h], h)'
  BY <1>2, <1>3, <1>4, <1>5, Names DEF CommandFits
<1>7. RestTyped'
  BY <1>1, <1>2 DEF RestTyped, ConsoleInv, ConsoleTypeOK
<1> QED BY <1>1, <1>2, <1>4, <1>6, <1>7, OnlyTheCommand

\* An answer, or none in time.
LEMMA AnsweredKeeps ==
    ASSUME ConsoleInv, NEW p \in Pages, NEW h \in Hooks, cmd[p][h].step \in {"sent", "performed"},
           NEW answer \in {"ok", "refused", "unknown"}, Answered(p, h, answer),
           answer = "ok" => cmd[p][h].step = "performed",
           late' \in {late, late \cup {Write(p, h)}}, faults' \in 0..MaxFaults
    PROVE  ConsoleInv' /\ PageMoves(p)
<1> DEFINE c == [cmd[p][h] EXCEPT !.step = "answered", !.answer = answer]
<1>1. /\ cmd' = [cmd EXCEPT ![p][h] = c]
      /\ UNCHANGED <<hook, changes, locks, page, doubt, overruled, begun>>
  BY DEF Answered, ConsoleInv, ConsoleTypeOK
<1>2. /\ cmd[p][h] \in Command /\ CommandFits(page[p], cmd[p][h], h) /\ cmd[p][h].act \in Acts
      /\ changes \in Nat
  BY RunningIs DEF ConsoleInv, ConsoleTypeOK
<1>3. /\ c \in Command /\ c.step = "answered" /\ c.answer = answer /\ c.act = cmd[p][h].act
      /\ c.seen = cmd[p][h].seen
  BY <1>2 DEF Command
<1> HIDE DEF c
<1>4. cmd'[p][h] = c
  BY <1>1, <1>3, CommandIs DEF ConsoleInv
<1>5. CommandFits(page[p], cmd[p][h], h)'
  BY <1>1, <1>2, <1>3, <1>4, Names DEF CommandFits
<1>6. RestTyped'
  BY <1>1, WriteTyped DEF RestTyped, ConsoleInv, ConsoleTypeOK
<1>7. /\ cmd[p][h].step # "none" /\ changes' \in Nat /\ changes <= changes'
      /\ c.act = cmd[p][h].act /\ UNCHANGED <<page, locks, doubt, overruled>>
      /\ cmd' = [cmd EXCEPT ![p][h] = c]
  BY <1>1, <1>2, <1>3
<1> QED BY <1>3, <1>5, <1>6, <1>7, OnlyTheCommand

LEMMA AnswersKeep ==
    ASSUME ConsoleInv, NEW p \in Pages, NEW h \in Hooks,
           AuditDone(p, h) \/ Refused(p, h) \/ NoAnswer(p, h)
    PROVE  ConsoleInv' /\ PageMoves(p)
<1>1. CASE AuditDone(p, h)
  <2>1. Answered(p, h, "ok") /\ cmd[p][h].step = "performed" /\ UNCHANGED <<late, faults>>
    BY <1>1 DEF AuditDone
  <2> QED BY <2>1, AnsweredKeeps DEF ConsoleInv, ConsoleTypeOK
<1>2. CASE Refused(p, h)
  <2>1. /\ Answered(p, h, "refused") /\ cmd[p][h].step \in {"sent", "performed"}
        /\ UNCHANGED <<late, faults>>
    BY <1>2 DEF Refused
  <2> QED BY <2>1, AnsweredKeeps DEF ConsoleInv, ConsoleTypeOK
<1>3. CASE NoAnswer(p, h)
  <2>1. /\ Answered(p, h, "unknown") /\ cmd[p][h].step \in {"sent", "performed"}
        /\ late' \in {late, late \cup {Write(p, h)}} /\ Fault
    BY <1>3 DEF NoAnswer
  <2> QED BY <2>1, AnsweredKeeps, FaultTyped DEF ConsoleInv
<1> QED BY <1>1, <1>2, <1>3

LEMMA SentAgainKeeps ==
    ASSUME ConsoleInv, NEW p \in Pages, NEW h \in Hooks, SentAgain(p, h)
    PROVE  ConsoleInv' /\ PageMoves(p)
<1> DEFINE c == [cmd[p][h] EXCEPT !.step = "sent", !.again = TRUE]
<1>1. /\ cmd[p][h].step \in {"sent", "performed"} /\ cmd[p][h].act # "toggle" /\ Fault
      /\ UNCHANGED <<hook, changes, late, locks, page, doubt, overruled, begun>>
      /\ cmd' = [cmd EXCEPT ![p][h] = c]
  BY DEF SentAgain, Server, ConsoleInv, ConsoleTypeOK
<1>2. /\ cmd[p][h] \in Command /\ CommandFits(page[p], cmd[p][h], h) /\ cmd[p][h].act \in Acts
      /\ changes \in Nat /\ faults' \in 0..MaxFaults
  BY <1>1, RunningIs, FaultTyped DEF ConsoleInv, ConsoleTypeOK
<1>3. c \in Command /\ c.step = "sent" /\ c.act = cmd[p][h].act /\ c.seen = cmd[p][h].seen
  BY <1>2 DEF Command
<1> HIDE DEF c
<1>4. cmd'[p][h] = c
  BY <1>1, <1>3, CommandIs DEF ConsoleInv
<1>5. CommandFits(page[p], cmd[p][h], h)'
  BY <1>1, <1>2, <1>3, <1>4, Names DEF CommandFits
<1>6. RestTyped'
  BY <1>1, <1>2 DEF RestTyped, ConsoleInv, ConsoleTypeOK
<1>7. /\ cmd[p][h].step # "none" /\ changes' \in Nat /\ changes <= changes'
      /\ c.act = cmd[p][h].act /\ UNCHANGED <<page, locks, doubt, overruled>>
      /\ cmd' = [cmd EXCEPT ![p][h] = c]
  BY <1>1, <1>2, <1>3
<1> QED BY <1>3, <1>5, <1>6, <1>7, OnlyTheCommand

LEMMA ListAnsweredKeeps ==
    ASSUME ConsoleInv, NEW p \in Pages, NEW h \in Hooks, ListAnswered(p, h)
    PROVE  ConsoleInv' /\ PageMoves(p)
<1>1. PICK s \in {List, cmd[p][h].seen} :
        cmd' = [cmd EXCEPT ![p][h] = [cmd[p][h] EXCEPT !.step = "read", !.seen = s]]
  BY ZenonT(40) DEF ListAnswered, ConsoleInv, ConsoleTypeOK, Command
<1> DEFINE c == [cmd[p][h] EXCEPT !.step = "read", !.seen = s]
<1>2. /\ cmd[p][h].step = "reading" /\ cmd[p][h].act # "test" /\ cmd[p][h] \in Command
      /\ UNCHANGED <<hook, changes, late, locks, page, doubt, overruled, begun, faults>>
      /\ CommandFits(page[p], cmd[p][h], h) /\ cmd[p][h].act \in Acts /\ changes \in Nat
      /\ PageFits(page[p], cmd[p]) /\ page[p] \in PageState
  BY RunningIs DEF ListAnswered, Server, ConsoleInv, ConsoleTypeOK, ListsInv
<1>3. cmd[p][h].act \in {"toggle", "delete"} /\ cmd[p][h].seen = Null
  BY <1>2, Names DEF CommandFits
<1>4. s \in Lists \cup {Null} /\ (s # Null => s.at = changes)
  BY <1>2, <1>3, ListTyped DEF ConsoleInv
<1>5. /\ c \in Command /\ c.step = "read" /\ c.act = cmd[p][h].act /\ c.seen = s
      /\ cmd' = [cmd EXCEPT ![p][h] = c]
  BY <1>1, <1>2, <1>4 DEF Command
<1> HIDE DEF c
<1>6. cmd'[p][h] = c
  BY <1>5, CommandIs DEF ConsoleInv
<1>7. CommandFits(page[p], cmd[p][h], h)'
  BY <1>2, <1>3, <1>4, <1>5, <1>6, Names DEF CommandFits, PageFits
<1>8. RestTyped'
  BY <1>2 DEF RestTyped, ConsoleInv, ConsoleTypeOK
<1>9. /\ cmd[p][h].step # "none" /\ changes' \in Nat /\ changes <= changes'
      /\ c.act = cmd[p][h].act /\ UNCHANGED <<page, locks, doubt, overruled>>
  BY <1>2, <1>5
<1> QED BY <1>5, <1>7, <1>8, <1>9, OnlyTheCommand

(***************************************************************************)
(* Starting a command.                                                     *)
(***************************************************************************)

\* The lock was free: what runs or is in doubt elsewhere was overruled.
LEMMA StartingKeeps ==
    ASSUME ConsoleInv, ConsoleTypeOK', NEW p \in Pages, NEW h \in Hooks, NEW a \in Staged,
           page[p].life = "live", <<a, h>> \notin locks, CommandSteps(p, h), cmd'[p][h].act = a,
           \A q \in Pages : page'[q].life = page[q].life,
           locks' = locks \cup {<<a, h>>}, doubt' = doubt \cup {<<p, a, h>>}, UNCHANGED overruled
    PROVE  LocksInv'
<1> USE DEF ConsoleInv, LocksInv
<1>1. \A q \in Pages, b \in Staged, g \in Hooks :
        Runs(q, b, g)' => Runs(q, b, g) \/ (q = p /\ b = a /\ g = h)
  BY DEF Runs, CommandSteps
<1>2. OneLivePage'
  BY DEF OneLivePage
<1>3. RunningIsLocked'
  BY <1>1 DEF RunningIsLocked
<1>4. RunsOnce'
  BY <1>1 DEF RunsOnce, RunningIsLocked
<1>5. \A q \in Pages \ {p} :
        Runs(q, a, h) => <<a, h>> \in overruled /\ (a = "toggle" => page[q].life = "gone")
  <2> SUFFICES ASSUME NEW q \in Pages \ {p}, Runs(q, a, h)
               PROVE  <<a, h>> \in overruled /\ page[q].life = "gone"
    OBVIOUS
  <2>1. <<a, h>> \in overruled
    BY DEF RunningIsLocked
  <2>2. page[q].life # "live"
    BY DEF OneLivePage
  <2>3. page[q] \in PageState /\ page[q].life # "away"
    BY Names, NothingTyped DEF ConsoleTypeOK, ListsInv, PageFits, Quiet, Runs
  <2> QED BY <2>1, <2>2, <2>3 DEF PageState
<1>6. \A q \in Pages : <<q, a, h>> \in doubt => <<a, h>> \in overruled /\ a # "toggle"
  <2> SUFFICES ASSUME NEW q \in Pages, <<q, a, h>> \in doubt
               PROVE  <<a, h>> \in overruled /\ a # "toggle"
    OBVIOUS
  <2> DEFINE d == <<q, a, h>>
  <2>1. d \in doubt /\ d[2] = a /\ LockOf(d) = <<a, h>>
    BY DEF LockOf
  <2> HIDE DEF d
  <2> QED BY <2>1, Names DEF ToggleInDoubtIsLocked, DeleteOrRotateInDoubtIsLocked
<1>7. DoubtIsRespected'
  <2> SUFFICES ASSUME NEW r \in Pages, NEW q \in Pages, NEW b \in Staged, NEW g \in Hooks,
                      Runs(r, b, g)', <<q, b, g>> \in doubt', r # q
               PROVE  <<b, g>> \in overruled' /\ (b = "toggle" => page'[r].life = "gone")
    BY DEF DoubtIsRespected
  <2>1. CASE Runs(r, b, g) /\ <<q, b, g>> \in doubt
    BY <2>1 DEF DoubtIsRespected
  <2>2. CASE ~Runs(r, b, g)
    <3>1. r = p /\ b = a /\ g = h /\ <<q, a, h>> \in doubt
      BY <1>1, <2>2
    <3> QED BY <3>1, <1>6
  <2>3. CASE Runs(r, b, g) /\ <<q, b, g>> \notin doubt
    <3>1. q = p /\ b = a /\ g = h
      BY <2>3
    <3> QED BY <2>3, <3>1, <1>5
  <2> QED BY <2>1, <2>2, <2>3
<1>8. ToggleInDoubtIsLocked' /\ DeleteOrRotateInDoubtIsLocked'
  BY DEF ToggleInDoubtIsLocked, DeleteOrRotateInDoubtIsLocked, LockOf
<1> QED BY <1>2, <1>3, <1>4, <1>7, <1>8

LEMMA StartedIs ==
    ASSUME ConsoleInv, NEW p \in Pages, NEW h \in Hooks, NEW a \in Acts, MayBegin(p, h, a),
           NEW step \in {"before", "sent"}, step = "before" => a = "test"
    PROVE  /\ Started(p, h, a, step) \in Command /\ Started(p, h, a, step).act = a
           /\ Started(p, h, a, step).step = step
           /\ CommandFits(page[p], Started(p, h, a, step), h)
           /\ page[p] \in PageState /\ page[p].life = "live" /\ InUse(p)
           /\ begun' \in 0..MaxCommands
<1>1. page[p] \in PageState /\ page[p].life = "live" /\ InUse(p) /\ begun' \in 0..MaxCommands
  BY ConsoleAssumption DEF MayBegin, ConsoleInv, ConsoleTypeOK, InUse
<1>2. Started(p, h, a, step) \in Command
  BY DEF Started, NoCommand, Command
<1>3. Started(p, h, a, step).act = a /\ Started(p, h, a, step).step = step
      /\ Started(p, h, a, step).seen = Null /\ Started(p, h, a, step).answer = Null
  BY DEF Started, NoCommand
<1> QED BY <1>1, <1>2, <1>3, Names DEF CommandFits

\* Fits on the page as it is, and as it shows the same list.
LEMMA FitsOn ==
    ASSUME ConsoleInv, NEW p \in Pages, NEW h \in Hooks, NEW c \in Command,
           CommandFits(page[p], c, h), c.step # "read", cmd'[p][h] = c, UNCHANGED changes
    PROVE  CommandFits(page[p], cmd[p][h], h)'
BY DEF CommandFits

LEMMA BeginKeeps ==
    ASSUME ConsoleInv, NEW p \in Pages, NEW h \in Hooks, NEW a \in Staged, Begin(p, h, a)
    PROVE  ConsoleInv' /\ PageMoves(p)
<1> DEFINE c == Started(p, h, a, "sent")
           l == <<a, h>>
<1>1. /\ MayBegin(p, h, a) /\ UNCHANGED <<hook, changes, late, overruled>>
      /\ \/ /\ Stage(p, page[p], l) /\ cmd' = [cmd EXCEPT ![p][h] = c]
            /\ doubt' = doubt \cup {<<p, a, h>>}
         \/ StageFails(p, page[p], l) /\ UNCHANGED <<cmd, doubt>>
  BY DEF Begin, Server
<1>2. /\ c \in Command /\ c.act = a /\ c.step = "sent" /\ CommandFits(page[p], c, h)
      /\ page[p] \in PageState /\ page[p].life = "live" /\ InUse(p) /\ begun' \in 0..MaxCommands
      /\ l \in Locks /\ <<p, a, h>> \in Pages \X Acts \X Hooks
      /\ changes' \in Nat /\ changes <= changes'
  <2>1. a \in Acts /\ l \in Locks /\ changes \in Nat /\ changes' = changes
    BY <1>1, Names DEF Locks, ConsoleInv, ConsoleTypeOK
  <2>2. /\ c \in Command /\ c.act = a /\ c.step = "sent" /\ CommandFits(page[p], c, h)
        /\ page[p] \in PageState /\ page[p].life = "live" /\ InUse(p) /\ begun' \in 0..MaxCommands
    BY <1>1, <2>1, StartedIs
  <2> HIDE DEF c
  <2> QED BY <2>1, <2>2
<1> HIDE DEF c
<1>3. /\ PageBecomes(p, page[p]) /\ faults' \in 0..MaxFaults
      /\ Stage(p, page[p], l) => l \notin locks /\ locks' = locks \cup {l}
      /\ StageFails(p, page[p], l) => locks' = locks
  BY <1>1, <1>2, StageIs DEF ConsoleInv
<1>4. ShowsTheSame(p, h) /\ \A q \in Pages : page'[q].life = page[q].life
  BY <1>3, BecomesTheSame DEF PageBecomes
<1>5. RestTyped'
  BY <1>1, <1>2, <1>3 DEF RestTyped, ConsoleInv, ConsoleTypeOK
<1>6. CASE Stage(p, page[p], l) /\ cmd' = [cmd EXCEPT ![p][h] = c]
           /\ doubt' = doubt \cup {<<p, a, h>>}
  <2>0. ConsoleTypeOK
    BY DEF ConsoleInv
  <2>1. CommandSteps(p, h) /\ cmd'[p][h] = c
    BY <1>2, <1>6, <2>0, CommandIs
  <2>2. CommandFits(page[p], cmd[p][h], h)'
    BY <1>1, <1>2, <2>1, FitsOn
  <2>3. PageMoves(p)
    BY <1>2, <1>4, <2>1, <2>2, CommandMoves
  <2>4. ConsoleTypeOK' /\ ListsInv'
    BY <1>5, <2>3, TypesKeep, ListsKeep
  <2>5. l \notin locks /\ locks' = locks \cup {l} /\ cmd'[p][h].act = a
    BY <1>2, <1>3, <1>6, <2>1
  <2>6. LocksInv'
    BY <1>1, <1>2, <1>4, <1>6, <2>1, <2>4, <2>5, StartingKeeps
  <2> QED BY <2>3, <2>4, <2>6 DEF ConsoleInv
<1>7. CASE StageFails(p, page[p], l) /\ UNCHANGED <<cmd, doubt>>
  <2>1. cmd' = [cmd EXCEPT ![p][h] = cmd[p][h]] /\ cmd[p][h] = NoCommand /\ cmd'[p][h] = NoCommand
    BY <1>1, <1>7 DEF ConsoleInv, ConsoleTypeOK, MayBegin
  <2>2. CommandFits(page[p], cmd[p][h], h)'
    BY <2>1, NoCommandFits, NothingTyped, FitsOn, <1>1
  <2>3. LocksStay
    BY <1>1, <1>3, <1>7 DEF LocksStay
  <2> QED BY <1>2, <1>4, <1>5, <2>1, <2>2, <2>3, NothingTyped, CommandAndPage
<1> QED BY <1>1, <1>6, <1>7

LEMMA BeginTestKeeps ==
    ASSUME ConsoleInv, NEW p \in Pages, NEW h \in Hooks, BeginTest(p, h)
    PROVE  ConsoleInv' /\ PageMoves(p)
<1> DEFINE c == Started(p, h, "test", "before")
<1>1. /\ MayBegin(p, h, "test") /\ cmd' = [cmd EXCEPT ![p][h] = c]
      /\ UNCHANGED <<hook, changes, late, locks, page, doubt, overruled, faults>>
  BY DEF BeginTest, Server
<1>2. /\ c \in Command /\ c.act = "test" /\ c.step = "before" /\ CommandFits(page[p], c, h)
      /\ InUse(p) /\ begun' \in 0..MaxCommands /\ changes' \in Nat /\ changes <= changes'
  <2>1. "test" \in Acts /\ changes \in Nat /\ changes' = changes
    BY <1>1 DEF Acts, ConsoleInv, ConsoleTypeOK
  <2>2. /\ c \in Command /\ c.act = "test" /\ c.step = "before" /\ CommandFits(page[p], c, h)
        /\ InUse(p) /\ begun' \in 0..MaxCommands
    BY <1>1, <2>1, StartedIs
  <2> HIDE DEF c
  <2> QED BY <2>1, <2>2
<1> HIDE DEF c
<1>3. CommandFits(page[p], cmd[p][h], h)'
  BY <1>1, <1>2, CommandIs, FitsOn DEF ConsoleInv
<1>4. RestTyped'
  BY <1>1, <1>2 DEF RestTyped, ConsoleInv, ConsoleTypeOK
<1>5. ShowsTheSame(p, h) /\ LocksStay
  BY <1>1 DEF ShowsTheSame, LocksStay, ConsoleInv, ConsoleTypeOK
<1> QED BY <1>1, <1>2, <1>3, <1>4, <1>5, Names, CommandAndPage

\* The command is over; the page shows what it showed.
LEMMA EndingKeeps ==
    ASSUME ConsoleInv, NEW p \in Pages, NEW h \in Hooks, cmd[p][h].step # "none",
           cmd' = Ended(p, h), ShowsTheSame(p, h), LocksStay, RestTyped', UNCHANGED changes
    PROVE  ConsoleInv' /\ PageMoves(p)
<1>1. cmd' = [cmd EXCEPT ![p][h] = NoCommand] /\ InUse(p) /\ NoCommand.act \notin Staged
  BY RunningInUse, NothingTyped, Names DEF Ended
<1>0. cmd \in [Pages -> [Hooks -> Command]]
  BY DEF ConsoleInv, ConsoleTypeOK
<1>2. cmd'[p][h] = NoCommand
  BY ONLY <1>1, <1>0
<1>3. CommandFits(page[p], cmd[p][h], h)' /\ changes' \in Nat /\ changes <= changes'
  BY <1>2, NoCommandFits, NothingTyped, FitsOn DEF ConsoleInv, ConsoleTypeOK
<1> QED BY <1>1, <1>3, NothingTyped, CommandAndPage

LEMMA StageTestKeeps ==
    ASSUME ConsoleInv, NEW p \in Pages, NEW h \in Hooks, StageTest(p, h)
    PROVE  ConsoleInv' /\ PageMoves(p)
<1> DEFINE l == <<"test", h>>
           c == [cmd[p][h] EXCEPT !.step = "sent"]
<1>1. /\ cmd[p][h].step = "before" /\ UNCHANGED <<hook, changes, late, overruled, begun>>
      /\ \/ /\ Stage(p, page[p], l) /\ cmd' = [cmd EXCEPT ![p][h] = c]
            /\ doubt' = doubt \cup {<<p, "test", h>>}
         \/ StageFails(p, page[p], l) /\ cmd' = Ended(p, h) /\ UNCHANGED doubt
  BY DEF StageTest, Server, ConsoleInv, ConsoleTypeOK
<1>2. /\ cmd[p][h] \in Command /\ cmd[p][h].act = "test" /\ CommandFits(page[p], cmd[p][h], h)
      /\ page[p] \in PageState /\ l \in Locks /\ <<p, "test", h>> \in Pages \X Acts \X Hooks
      /\ changes' \in Nat /\ changes <= changes'
  <2>1. /\ cmd[p][h] \in Command /\ CommandFits(page[p], cmd[p][h], h)
        /\ page[p] \in PageState /\ changes \in Nat /\ changes' = changes
    BY <1>1, RunningIs DEF ConsoleInv, ConsoleTypeOK
  <2>2. cmd[p][h].act = "test" /\ l \in Locks /\ "test" \in Acts
    BY <1>1, <2>1 DEF CommandFits, Acts, Locks
  <2> QED BY <2>1, <2>2
<1>3. /\ PageBecomes(p, page[p]) /\ faults' \in 0..MaxFaults
      /\ locks' \in {locks, locks \cup {l}}
  BY <1>1, <1>2, StageIs DEF ConsoleInv
<1>4. ShowsTheSame(p, h)
  BY <1>3, BecomesTheSame
<1>5. RestTyped'
  BY <1>1, <1>2, <1>3 DEF RestTyped, ConsoleInv, ConsoleTypeOK
<1>6. LocksStay
  BY <1>1, <1>3 DEF LocksStay, Staged
<1>7. CASE cmd' = [cmd EXCEPT ![p][h] = c]
  <2>1. c \in Command /\ c.act = "test" /\ c.step = "sent" /\ CommandFits(page[p], c, h)
    BY <1>2, Names DEF Command, CommandFits
  <2> HIDE DEF c
  <2>2. CommandFits(page[p], cmd[p][h], h)'
    BY ZenonT(40), <1>1, <1>7, <2>1, CommandIs, FitsOn DEF ConsoleInv
  <2> QED BY <1>1, <1>2, <1>4, <1>5, <1>6, <1>7, <2>1, <2>2, RunningInUse, CommandAndPage
<1>8. CASE cmd' = Ended(p, h)
  BY <1>1, <1>4, <1>5, <1>6, <1>8, EndingKeeps
<1> QED BY <1>1, <1>7, <1>8

LEMMA TestReadFailsKeeps ==
    ASSUME ConsoleInv, NEW p \in Pages, NEW h \in Hooks, TestReadFails(p, h)
    PROVE  ConsoleInv' /\ PageMoves(p)
<1>1. /\ cmd[p][h].step = "before" /\ cmd' = Ended(p, h)
      /\ UNCHANGED <<hook, changes, late, doubt, overruled, begun, faults>>
  BY DEF TestReadFails, Server
<1>2. CASE cmd[p][h].current
  <2>1. locks' = locks \ {<<"test", h>>} /\ locks' \in SUBSET Locks
    BY <1>2 DEF TestReadFails, ConsoleInv, ConsoleTypeOK
  <2>2. page[p] \in PageState /\ page \in [Pages -> PageState]
        /\ page' = [page EXCEPT ![p] = [page[p] EXCEPT !.locks = locks', !.ready = TRUE]]
    BY <1>2 DEF TestReadFails, ConsoleInv, ConsoleTypeOK
  <2>3. ShowsTheSame(p, h)
    <3> DEFINE x == [page[p] EXCEPT !.locks = locks', !.ready = TRUE]
    <3>1. /\ x \in PageState /\ x.life = page[p].life /\ x.shown = page[p].shown
          /\ x.latest = page[p].latest
      BY <2>1, <2>2 DEF PageState
    <3> HIDE DEF x
    <3> QED BY <2>2, <3>1 DEF ShowsTheSame, x
  <2>4. LocksStay /\ RestTyped'
    BY <1>1, <2>1, Names DEF LocksStay, RestTyped, ConsoleInv, ConsoleTypeOK
  <2> QED BY <1>1, <2>3, <2>4, EndingKeeps
<1>3. CASE ~cmd[p][h].current
  <2>1. UNCHANGED <<locks, page>>
    BY <1>3 DEF TestReadFails
  <2>2. ShowsTheSame(p, h) /\ LocksStay /\ RestTyped'
    BY <1>1, <2>1 DEF ShowsTheSame, LocksStay, RestTyped, ConsoleInv, ConsoleTypeOK
  <2> QED BY <1>1, <2>2, EndingKeeps
<1> QED BY <1>2, <1>3

(***************************************************************************)
(* The life of a page, and the administrator.                              *)
(***************************************************************************)
LEMMA MountIs ==
    ASSUME ConsoleInv, NEW p \in Pages, Mount(p)
    PROVE  /\ page' \in [Pages -> PageState] /\ \A q \in Pages \ {p} : page'[q] = page[q]
           /\ page'[p].life = "live" /\ page'[p].shown = Null /\ faults' \in 0..MaxFaults
           /\ Quiet(cmd[p]) /\ \A q \in Pages : page[q].life # "live"
           /\ UNCHANGED <<hook, changes, late, locks, cmd, doubt, overruled, begun>>
<1> DEFINE pg == [NoPage EXCEPT !.life = "live"]
<1>1. pg \in PageState /\ pg.life = "live" /\ pg.shown = Null
  BY DEF NoPage, PageState
<1>2. /\ Put(p, pg, locks) \/ (Fault /\ StorageFails(p, pg))
      /\ Quiet(cmd[p]) /\ \A q \in Pages : page[q].life # "live"
      /\ UNCHANGED <<hook, changes, late, cmd, doubt, overruled, begun>>
  BY DEF Mount, Server, Quiet
<1> HIDE DEF pg
<1>3. CASE Put(p, pg, locks)
  <2>1. ConsoleTypeOK /\ locks \in SUBSET Locks
    BY DEF ConsoleInv, ConsoleTypeOK
  <2>2. PageBecomes(p, pg) /\ locks' = locks /\ faults' \in 0..MaxFaults
    BY <1>1, <1>3, <2>1, PutIs
  <2> QED BY <1>1, <1>2, <2>2 DEF PageBecomes
<1>4. CASE Fault /\ StorageFails(p, pg)
  <2>1. PageBecomes(p, pg) /\ locks' = locks /\ faults' \in 0..MaxFaults
    BY <1>1, <1>4, StorageFailsIs, FaultTyped DEF ConsoleInv
  <2> QED BY <1>1, <1>2, <2>1 DEF PageBecomes
<1> QED BY <1>2, <1>3, <1>4

LEMMA MountMoves == ASSUME ConsoleInv, NEW p \in Pages, Mount(p) PROVE PageMoves(p)
<1>1. \A h \in Hooks : cmd'[p][h] = NoCommand /\ CommandFits(page'[p], cmd'[p][h], h)
  BY MountIs, NoCommandFits DEF Quiet
<1>2. PageFits(page[p], cmd[p])'
  BY <1>1, MountIs, NoCommandFits, NothingTyped DEF PageFits, Quiet, CommandFits
<1> QED BY <1>2, MountIs DEF PageMoves, ConsoleInv, ConsoleTypeOK

LEMMA MountKeeps == ASSUME ConsoleInv, NEW p \in Pages, Mount(p) PROVE ConsoleInv' /\ PageMoves(p)
<1>1. RestTyped'
  BY MountIs DEF RestTyped, ConsoleInv, ConsoleTypeOK
<1>2. ConsoleTypeOK' /\ ListsInv'
  BY <1>1, MountMoves, TypesKeep, ListsKeep
<1>3. \A q \in Pages, a \in Staged, h \in Hooks :
        Runs(q, a, h)' => Runs(q, a, h) /\ q # p /\ page'[q] = page[q]
  BY MountIs, Names, NothingTyped DEF Runs, Quiet
<1>4. LocksInv'
  <2> USE MountIs DEF ConsoleInv, LocksInv
  <2>1. OneLivePage'
    BY DEF OneLivePage
  <2>2. RunningIsLocked' /\ RunsOnce'
    BY <1>3 DEF RunningIsLocked, RunsOnce
  <2>3. DoubtIsRespected'
    BY <1>3 DEF DoubtIsRespected
  <2>4. ToggleInDoubtIsLocked' /\ DeleteOrRotateInDoubtIsLocked'
    BY DEF ToggleInDoubtIsLocked, DeleteOrRotateInDoubtIsLocked
  <2> QED BY <2>1, <2>2, <2>3, <2>4
<1> QED BY <1>2, <1>4, MountMoves DEF ConsoleInv

LEMMA LeaveMoves ==
    ASSUME ConsoleInv, NEW p \in Pages, Leave(p)
    PROVE  /\ PageMoves(p) /\ page'[p].life # "live"
           /\ page'[p].life = "gone" \/ \A h \in Hooks : cmd'[p][h].act = Null
<1>1. /\ page[p] \in PageState /\ page \in [Pages -> PageState] /\ PageFits(page[p], cmd[p])
      /\ changes \in Nat
      /\ cmd \in [Pages -> [Hooks -> Command]] /\ UNCHANGED <<changes, cmd>>
  BY DEF Leave, Server, ConsoleInv, ConsoleTypeOK, ListsInv
<1>2. CASE Quiet(cmd[p])
  <2>1. page' = [page EXCEPT ![p] = NoPage]
    BY <1>2 DEF Leave, Quiet
  <2>2. PageFits(page[p], cmd[p])'
    BY <1>1, <1>2, <2>1, NothingTyped, NoCommandFits DEF PageFits, Quiet, CommandFits
  <2> QED BY <1>1, <1>2, <2>1, <2>2, NothingTyped DEF PageMoves, Quiet
<1>3. CASE ~Quiet(cmd[p])
  <2> DEFINE x == [page[p] EXCEPT !.life = "gone", !.shown = Null]
  <2>1. page' = [page EXCEPT ![p] = x]
    BY <1>3 DEF Leave, Quiet
  <2>2. x \in PageState /\ x.life = "gone" /\ x.shown = Null
    BY <1>1 DEF PageState
  <2> HIDE DEF x
  <2>3. page'[p] = x
    BY <1>1, <2>1
  <2>4. PageFits(page[p], cmd[p])'
    BY <1>1, <2>2, <2>3 DEF PageFits, CommandFits
  <2> QED BY <1>1, <2>1, <2>2, <2>3, <2>4 DEF PageMoves
<1> QED BY <1>2, <1>3

LEMMA LeaveKeeps == ASSUME ConsoleInv, NEW p \in Pages, Leave(p) PROVE ConsoleInv' /\ PageMoves(p)
<1>1. UNCHANGED <<hook, late, locks, cmd, doubt, overruled, begun, faults>>
  BY DEF Leave, Server
<1>2. RestTyped' /\ LocksStay
  BY <1>1 DEF RestTyped, LocksStay, ConsoleInv, ConsoleTypeOK
<1>3. ConsoleTypeOK' /\ ListsInv'
  BY <1>2, LeaveMoves, TypesKeep, ListsKeep
<1>4. Subsides
  BY <1>1, LeaveMoves DEF Subsides, PageMoves
<1> QED BY <1>2, <1>3, <1>4, LeaveMoves, SubsidingKeeps DEF ConsoleInv

LEMMA LoadMoves ==
    ASSUME ConsoleInv, NEW p \in Pages, Load(p)
    PROVE  PageMoves(p) /\ page'[p].life = page[p].life
<1> DEFINE x == [page[p] EXCEPT !.shown = List]
<1>1. /\ page[p] \in PageState /\ page \in [Pages -> PageState] /\ PageFits(page[p], cmd[p])
      /\ changes \in Nat /\ page[p].life = "live" /\ page[p].shown = Null
      /\ cmd \in [Pages -> [Hooks -> Command]] /\ UNCHANGED <<changes, cmd>>
      /\ page' = [page EXCEPT ![p] = x]
  BY DEF Load, Server, ConsoleInv, ConsoleTypeOK, ListsInv
<1>2. /\ x \in PageState /\ x.life = "live" /\ x.shown = List /\ List.at = changes
      /\ Quiet(cmd[p])
  BY <1>1, ListTyped DEF PageState, ConsoleInv, PageFits
<1> HIDE DEF x
<1>3. page'[p] = x
  BY <1>1
<1>4. PageFits(page[p], cmd[p])'
  BY <1>1, <1>2, <1>3, NoCommandFits, NothingTyped DEF PageFits, Quiet, CommandFits
<1> QED BY <1>1, <1>2, <1>3, <1>4 DEF PageMoves

LEMMA LoadKeeps == ASSUME ConsoleInv, NEW p \in Pages, Load(p) PROVE ConsoleInv' /\ PageMoves(p)
<1>1. UNCHANGED <<hook, late, locks, cmd, doubt, overruled, begun, faults>>
  BY DEF Load, Server
<1>2. RestTyped' /\ LocksStay /\ Recedes(p)
  BY <1>1, LoadMoves DEF RestTyped, LocksStay, Recedes, ConsoleInv, ConsoleTypeOK
<1> QED BY <1>2, LoadMoves, CommandKeeps

LEMMA ReloadKeeps == ASSUME ConsoleInv, Reload PROVE ConsoleInv'
<1>1. /\ page' = [p \in Pages |-> NoPage] /\ cmd' = [p \in Pages |-> [h \in Hooks |-> NoCommand]]
      /\ UNCHANGED <<hook, changes, locks, doubt, overruled, begun>> /\ faults' \in 0..MaxFaults
  BY FaultTyped DEF Reload, ConsoleInv
<1>2. late' \subseteq Writes
  <2>1. \A x \in Pages \X Hooks : cmd[x[1]][x[2]].step = "sent" => Write(x[1], x[2]) \in Writes
    BY WriteTyped
  <2> QED BY <2>1 DEF Reload, ConsoleInv, ConsoleTypeOK
<1>3. ConsoleTypeOK'
  BY <1>1, <1>2, NothingTyped DEF ConsoleInv, ConsoleTypeOK
<1>4. ListsInv'
  <2> SUFFICES ASSUME NEW p \in Pages PROVE PageFits(page[p], cmd[p])'
    BY DEF ListsInv
  <2>1. page'[p] = NoPage /\ \A h \in Hooks : cmd'[p][h] = NoCommand
    BY <1>1
  <2> QED BY <2>1, NothingTyped, NoCommandFits DEF PageFits, Quiet, CommandFits
<1>5. Subsides /\ LocksStay
  BY <1>1, NothingTyped, Names DEF Subsides, LocksStay
<1> QED BY <1>3, <1>4, <1>5, SubsidingKeeps DEF ConsoleInv

\* The server changes, the console does not.
LEMMA ServerKeeps ==
    ASSUME ConsoleInv, UNCHANGED <<page, cmd, locks, doubt, overruled>>, RestTyped',
           changes' \in Nat, changes <= changes'
    PROVE  ConsoleInv'
<1>1. ConsoleTypeOK'
  BY DEF RestTyped, ConsoleInv, ConsoleTypeOK
<1>2. ListsInv'
  BY FitsStays DEF ListsInv
<1>3. Subsides /\ LocksStay
  BY DEF Subsides, LocksStay
<1> QED BY <1>1, <1>2, <1>3, SubsidingKeeps DEF ConsoleInv

LEMMA DeletedElsewhereKeeps ==
    ASSUME ConsoleInv, NEW h \in Hooks, DeletedElsewhere(h) PROVE ConsoleInv'
<1>1. /\ hook' = [hook EXCEPT ![h] = "gone"] /\ changes' = changes + 1
      /\ UNCHANGED <<locks, page, cmd, late, doubt, overruled, begun>> /\ faults' \in 0..MaxFaults
  BY FaultTyped DEF DeletedElsewhere, ConsoleInv
<1>2. RestTyped' /\ changes' \in Nat /\ changes <= changes'
  BY <1>1 DEF RestTyped, ConsoleInv, ConsoleTypeOK
<1> QED BY <1>1, <1>2, ServerKeeps

LEMMA PerformLateKeeps ==
    ASSUME ConsoleInv, NEW w \in late, PerformLate(w) PROVE ConsoleInv'
<1>1. /\ Performs(w) /\ late' = late \ {w} /\ w \in Writes
      /\ UNCHANGED <<locks, page, cmd, doubt, overruled, begun, faults>>
  BY DEF PerformLate, ConsoleInv, ConsoleTypeOK
<1>2. /\ hook' \in [Hooks -> {"on", "off", "gone"}] /\ changes' \in Nat /\ changes <= changes'
  BY <1>1, PerformsIs DEF ConsoleInv
<1>3. RestTyped'
  BY <1>1, <1>2 DEF RestTyped, ConsoleInv, ConsoleTypeOK
<1> QED BY <1>1, <1>2, <1>3, ServerKeeps

\* The acknowledged lock may go: nothing under it is in doubt any more, and
\* what still runs under it is overruled.
LEMMA AcknowledgingKeeps ==
    ASSUME ConsoleInv, ConsoleTypeOK', NEW a \in Acts, NEW h \in Hooks, Subsides,
           locks' \in {locks, locks \ {<<a, h>>}},
           doubt' = {d \in doubt : LockOf(d) # <<a, h>>},
           overruled' = IF Running(a, h) = {} THEN overruled ELSE overruled \cup {<<a, h>>}
    PROVE  LocksInv'
<1> USE DEF ConsoleInv, LocksInv, Subsides
<1>1. \A p \in Pages, b \in Staged, g \in Hooks : Runs(p, b, g)' => Runs(p, b, g)
  BY Names DEF Runs
<1>2. OneLivePage'
  BY DEF OneLivePage
<1>3. overruled \subseteq overruled'
  OBVIOUS
<1>4. RunningIsLocked'
  <2> SUFFICES ASSUME NEW q \in Pages, NEW b \in Staged, NEW g \in Hooks, Runs(q, b, g)
               PROVE  <<b, g>> \in locks' \cup overruled'
    BY <1>1 DEF RunningIsLocked
  <2>1. CASE b = a /\ g = h
    BY <2>1 DEF Runs, Running
  <2>2. CASE <<b, g>> # <<a, h>>
    BY <1>3, <2>2 DEF RunningIsLocked
  <2> QED BY <2>1, <2>2
<1>5. RunsOnce'
  BY <1>1, <1>3 DEF RunsOnce
<1>6. DoubtIsRespected'
  <2> SUFFICES ASSUME NEW r \in Pages, NEW q \in Pages, NEW b \in Staged, NEW g \in Hooks,
                      Runs(r, b, g)', <<q, b, g>> \in doubt', r # q
               PROVE  <<b, g>> \in overruled' /\ (b = "toggle" => page'[r].life = "gone")
    BY DEF DoubtIsRespected
  <2>1. Runs(r, b, g) /\ <<q, b, g>> \in doubt
    BY <1>1
  <2>2. <<b, g>> \in overruled /\ (b = "toggle" => page[r].life = "gone")
    BY <2>1 DEF DoubtIsRespected
  <2>3. b = "toggle" => page'[r].life = "gone"
    BY <2>2, Names DEF Runs
  <2> QED BY <1>3, <2>2, <2>3
<1>7. ToggleInDoubtIsLocked' /\ DeleteOrRotateInDoubtIsLocked'
  BY <1>3 DEF ToggleInDoubtIsLocked, DeleteOrRotateInDoubtIsLocked
<1> QED BY <1>2, <1>4, <1>5, <1>6, <1>7

LEMMA AcknowledgeMoves ==
    ASSUME ConsoleInv, NEW p \in Pages, NEW a \in Acts, NEW h \in Hooks, Acknowledge(p, a, h)
    PROVE  /\ PageMoves(p) /\ Recedes(p) /\ faults' \in 0..MaxFaults
           /\ locks' \in {locks, locks \ {<<a, h>>}}
<1>1. /\ page[p].life = "live" /\ page[p].shown # Null
      /\ Clear(p, page[p], <<a, h>>) /\ UNCHANGED <<cmd, changes>>
  BY DEF Acknowledge, Server
<1>2. /\ ConsoleTypeOK /\ page[p] \in PageState /\ <<a, h>> \in Locks /\ changes \in Nat
      /\ cmd \in [Pages -> [Hooks -> Command]] /\ PageFits(page[p], cmd[p])
  BY DEF ConsoleInv, ConsoleTypeOK, Locks, ListsInv
<1>3. PageBecomes(p, page[p]) /\ locks' \in {locks, locks \ {<<a, h>>}} /\ faults' \in 0..MaxFaults
  BY <1>1, <1>2, ClearIs
<1>4. ShowsTheSame(p, h) /\ CommandSteps(p, h) /\ InUse(p)
  BY <1>1, <1>2, <1>3, BecomesTheSame DEF CommandSteps, InUse
<1>5. CommandFits(page[p], cmd[p][h], h)'
  BY <1>1, <1>2, <1>3 DEF PageBecomes, PageFits, CommandFits
<1>6. PageMoves(p)
  BY <1>1, <1>2, <1>4, <1>5, CommandMoves
<1> QED BY <1>1, <1>3, <1>6 DEF Recedes, PageBecomes

LEMMA AcknowledgeKeeps ==
    ASSUME ConsoleInv, NEW p \in Pages, NEW a \in Acts, NEW h \in Hooks, Acknowledge(p, a, h)
    PROVE  ConsoleInv' /\ PageMoves(p)
<1>1. /\ doubt' = {d \in doubt : LockOf(d) # <<a, h>>}
      /\ overruled' = IF Running(a, h) = {} THEN overruled ELSE overruled \cup {<<a, h>>}
      /\ UNCHANGED <<hook, late, begun>>
  BY DEF Acknowledge, Server
<1>2. RestTyped'
  BY <1>1, AcknowledgeMoves DEF RestTyped, ConsoleInv, ConsoleTypeOK, Locks
<1>3. ConsoleTypeOK' /\ ListsInv' /\ Subsides
  BY <1>2, AcknowledgeMoves, TypesKeep, ListsKeep, RecedingSubsides
<1> QED BY <1>1, <1>3, AcknowledgeMoves, AcknowledgingKeeps DEF ConsoleInv

(***************************************************************************)
(* The handler goes on.                                                    *)
(***************************************************************************)

\* A command is settled: it is over and in doubt no more, and its lock may be
\* cleared; a toggle is settled by its page alone.
LEMMA SettledKeeps ==
    ASSUME ConsoleInv, NEW p \in Pages, NEW h \in Hooks, NEW a \in Acts, cmd[p][h].act = a,
           PageMoves(p), Recedes(p), RestTyped', cmd'[p][h].act = Null,
           locks' \in {locks, locks \ {<<a, h>>}}, doubt' = doubt \ {<<p, a, h>>},
           UNCHANGED overruled, a = "toggle" => page[p].life # "gone"
    PROVE  ConsoleInv' /\ PageMoves(p)
<1>1. ConsoleTypeOK' /\ ListsInv' /\ Subsides
  BY TypesKeep, ListsKeep, RecedingSubsides
<1>2. CASE locks' = locks \/ a \notin Staged
  <2>1. LocksStay
    BY <1>2 DEF LocksStay
  <2> QED BY <1>1, <2>1, SubsidingKeeps DEF ConsoleInv
<1>3. CASE locks' = locks \ {<<a, h>>} /\ a \in Staged
  <2>1. Runs(p, a, h) /\ ~Runs(p, a, h)'
    BY <1>3, Names DEF Runs
  <2> QED BY <1>1, <1>3, <2>1, SettlingKeeps DEF ConsoleInv
<1> QED BY <1>2, <1>3

\* The page shows what it showed and the command is over.
LEMMA EndMoves ==
    ASSUME ConsoleInv, NEW p \in Pages, NEW h \in Hooks, cmd[p][h].step # "none",
           cmd' = Ended(p, h), ShowsTheSame(p, h), UNCHANGED changes
    PROVE  PageMoves(p) /\ Recedes(p) /\ cmd'[p][h].act = Null
<1>1. CommandSteps(p, h) /\ cmd'[p][h] = NoCommand
  BY CommandIs, NothingTyped DEF Ended, ConsoleInv
<1>2. CommandFits(page[p], cmd[p][h], h)' /\ changes' \in Nat /\ changes <= changes'
  BY <1>1, NoCommandFits, NothingTyped, FitsOn DEF ConsoleInv, ConsoleTypeOK
<1>3. PageMoves(p)
  BY <1>1, <1>2, RunningInUse, CommandMoves
<1> QED BY <1>1, <1>3, NothingTyped, Names DEF Recedes, CommandSteps, ShowsTheSame

\* The lock is left as it is, or staged again.
LEMMA UnsettledKeeps ==
    ASSUME ConsoleInv, NEW p \in Pages, NEW h \in Hooks, cmd[p][h].step # "none",
           cmd' = Ended(p, h), UNCHANGED <<hook, changes, late, overruled, begun>>,
           KeepLock \/ Unsettled(p, page[p], cmd[p][h].act, h)
    PROVE  ConsoleInv' /\ PageMoves(p)
<1>1. ConsoleTypeOK /\ page[p] \in PageState /\ <<cmd[p][h].act, h>> \in Locks
  BY RunningIs DEF ConsoleInv
<1>2. CASE KeepLock
  <2>1. ShowsTheSame(p, h) /\ LocksStay /\ RestTyped'
    BY <1>1, <1>2 DEF KeepLock, ShowsTheSame, LocksStay, RestTyped, ConsoleTypeOK
  <2> QED BY <2>1, EndingKeeps
<1>3. CASE Unsettled(p, page[p], cmd[p][h].act, h)
  <2>1. /\ PageBecomes(p, page[p]) /\ locks \subseteq locks' /\ locks' \subseteq Locks
        /\ faults' \in 0..MaxFaults /\ UNCHANGED doubt
    BY <1>1, <1>3, RecordUnknownIs DEF Unsettled
  <2>2. ShowsTheSame(p, h) /\ LocksStay /\ RestTyped'
    BY <1>1, <2>1, BecomesTheSame DEF LocksStay, RestTyped, ConsoleTypeOK
  <2> QED BY <2>2, EndingKeeps
<1> QED BY <1>2, <1>3

LEMMA SettleIs ==
    ASSUME ConsoleInv, NEW p \in Pages, NEW h \in Hooks, NEW a \in Acts, NEW pg \in PageState,
           Settle(p, pg, a, h), UNCHANGED <<hook, late, overruled, begun>>
    PROVE  /\ PageBecomes(p, pg) /\ locks' \in {locks, locks \ {<<a, h>>}} /\ RestTyped'
           /\ doubt' = doubt \ {<<p, a, h>>}
<1>1. ConsoleTypeOK /\ <<a, h>> \in Locks /\ Clear(p, pg, <<a, h>>) /\ doubt' = doubt \ {<<p, a, h>>}
  BY DEF ConsoleInv, Locks, Settle
<1>2. PageBecomes(p, pg) /\ locks' \in {locks, locks \ {<<a, h>>}} /\ faults' \in 0..MaxFaults
  BY <1>1, ClearIs
<1> QED BY <1>1, <1>2 DEF RestTyped, ConsoleTypeOK

\* The lock of a command that is not a toggle is cleared.
LEMMA SettleKeeps ==
    ASSUME ConsoleInv, NEW p \in Pages, NEW h \in Hooks, cmd[p][h].step # "none",
           cmd[p][h].act # "toggle", Settle(p, page[p], cmd[p][h].act, h), cmd' = Ended(p, h),
           UNCHANGED <<hook, changes, late, overruled, begun>>
    PROVE  ConsoleInv' /\ PageMoves(p)
<1> DEFINE a == cmd[p][h].act
<1>1. a \in Acts /\ page[p] \in PageState
  BY RunningIs
<1>2. /\ PageBecomes(p, page[p]) /\ locks' \in {locks, locks \ {<<a, h>>}} /\ RestTyped'
      /\ doubt' = doubt \ {<<p, a, h>>}
  BY <1>1, SettleIs
<1>3. PageMoves(p) /\ Recedes(p) /\ cmd'[p][h].act = Null
  BY <1>2, BecomesTheSame, EndMoves
<1> QED BY <1>1, <1>2, <1>3, SettledKeeps

LEMMA RefusedAnswerKeeps ==
    ASSUME ConsoleInv, NEW p \in Pages, NEW h \in Hooks, cmd[p][h].step = "answered",
           cmd[p][h].act # "toggle", RefusedAnswer(p, h),
           UNCHANGED <<hook, changes, late, overruled, begun>>
    PROVE  ConsoleInv' /\ PageMoves(p)
<1>1. cmd' = Ended(p, h) /\ (Settle(p, page[p], cmd[p][h].act, h) \/ KeepLock)
  BY DEF RefusedAnswer
<1> QED BY <1>1, SettleKeeps, UnsettledKeeps

\* The list is asked for.
LEMMA ReadingFits ==
    ASSUME ConsoleInv, NEW p \in Pages, NEW h \in Hooks, cmd[p][h].step = "answered",
           cmd[p][h].act # "rotate", cmd' = [cmd EXCEPT ![p][h].step = "reading"], UNCHANGED changes
    PROVE  \E c \in Command :
             /\ cmd' = [cmd EXCEPT ![p][h] = c] /\ c.act = cmd[p][h].act
             /\ CommandFits(page[p], cmd[p][h], h)'
<1> DEFINE c == [cmd[p][h] EXCEPT !.step = "reading"]
<1>1. /\ cmd' = [cmd EXCEPT ![p][h] = c] /\ cmd[p][h] \in Command /\ cmd[p][h].act \in Acts
      /\ CommandFits(page[p], cmd[p][h], h)
  BY RunningIs DEF ConsoleInv, ConsoleTypeOK
<1>2. c \in Command /\ c.act = cmd[p][h].act /\ c.step = "reading" /\ CommandFits(page[p], c, h)
  BY <1>1, Names DEF Command, CommandFits
<1> HIDE DEF c
<1>3. cmd'[p][h] = c
  BY <1>1, <1>2 DEF ConsoleInv, ConsoleTypeOK
<1>4. CommandFits(page[p], cmd[p][h], h)'
  BY <1>2, <1>3, FitsOn
<1> QED BY <1>1, <1>2, <1>4

LEMMA AskListKeeps ==
    ASSUME ConsoleInv, NEW p \in Pages, NEW h \in Hooks, cmd[p][h].step = "answered",
           cmd[p][h].act # "rotate", AskList(p, h),
           UNCHANGED <<hook, changes, late, overruled, begun>>
    PROVE  ConsoleInv' /\ PageMoves(p)
<1> DEFINE x == [page[p] EXCEPT !.latest = h]
<1>1. /\ cmd' = [cmd EXCEPT ![p][h].step = "reading"] /\ page' = [page EXCEPT ![p] = x]
      /\ UNCHANGED <<locks, doubt, faults>> /\ page[p] \in PageState
      /\ page \in [Pages -> PageState] /\ changes \in Nat
  BY DEF AskList, ConsoleInv, ConsoleTypeOK
<1>2. /\ x \in PageState /\ x.life = page[p].life /\ x.shown = page[p].shown /\ x.latest = h
  BY <1>1 DEF PageState
<1> HIDE DEF x
<1>3. ShowsTheSame(p, h)
  BY <1>1, <1>2 DEF ShowsTheSame
<1>4. LocksStay /\ RestTyped' /\ changes' \in Nat /\ changes <= changes'
  BY <1>1 DEF LocksStay, RestTyped, ConsoleInv, ConsoleTypeOK
<1> QED BY ZenonT(40), <1>1, <1>3, <1>4, ReadingFits, RunningInUse, CommandAndPage

LEMMA WithAckIs ==
    ASSUME ConsoleInv, NEW p \in Pages, NEW h \in Hooks, cmd[p][h].step = "answered",
           cmd[p][h].act = "rotate", cmd[p][h].answer = "ok"
    PROVE  /\ WithAck(p, h) \in PageState /\ WithAck(p, h).life = page[p].life
           /\ WithAck(p, h).latest = page[p].latest
           /\ WithAck(p, h).shown = Null <=> page[p].shown = Null
           /\ page[p].shown # Null => WithAck(p, h).shown.at = page[p].shown.at
<1>1. /\ page[p] \in PageState /\ (page[p].life = "live" => page[p].shown \in Lists)
      /\ cmd[p][h].seen \in Lists
  BY RunningIs DEF CommandFits, Command
<1>2. CASE page[p].life = "live"
  <2> DEFINE l == [page[p].shown EXCEPT !.rows[h] = cmd[p][h].seen.rows[h]]
  <2>1. l \in Lists /\ l.at = page[p].shown.at /\ l # Null
    BY <1>1, <1>2, Names DEF Lists
  <2>2. WithAck(p, h) = [page[p] EXCEPT !.shown = l]
    BY <1>1, <1>2 DEF WithAck, PageState
  <2> HIDE DEF l
  <2> QED BY <1>1, <1>2, <2>1, <2>2, Names DEF PageState
<1>3. CASE page[p].life # "live"
  BY <1>1, <1>3 DEF WithAck
<1> QED BY <1>2, <1>3

LEMMA RotateKeeps ==
    ASSUME ConsoleInv, NEW p \in Pages, NEW h \in Hooks, cmd[p][h].step = "answered",
           cmd[p][h].act = "rotate", RotateAnswered(p, h),
           UNCHANGED <<hook, changes, late, overruled, begun>>
    PROVE  ConsoleInv' /\ PageMoves(p)
<1> DEFINE l == <<"rotate", h>>
           pg == WithAck(p, h)
<1>1. CASE RefusedAnswer(p, h)
  BY <1>1, RefusedAnswerKeeps
<1>2. CASE /\ cmd[p][h].answer = "ok"
           /\ Put(p, pg, locks \ {l}) \/ (Fault /\ StorageFails(p, page[p]))
           /\ doubt' = doubt \ {<<p, "rotate", h>>} /\ cmd' = Ended(p, h)
  <2>1. ConsoleTypeOK /\ page[p] \in PageState /\ l \in Locks /\ "rotate" \in Acts
    BY RunningIs DEF ConsoleInv, Acts
  <2>2. ShowsTheSame(p, h) /\ locks' \in {locks, locks \ {l}} /\ faults' \in 0..MaxFaults
    <3>1. CASE Put(p, pg, locks \ {l})
      <4>1. /\ pg \in PageState /\ pg.life = page[p].life /\ pg.latest = page[p].latest
            /\ pg.shown = Null <=> page[p].shown = Null
            /\ page[p].shown # Null => pg.shown.at = page[p].shown.at
        BY <1>2, WithAckIs
      <4> HIDE DEF pg
      <4>2. locks \ {l} \in SUBSET Locks
        BY <2>1 DEF ConsoleTypeOK
      <4>3. PageBecomes(p, pg) /\ locks' = locks \ {l} /\ faults' \in 0..MaxFaults
        BY <2>1, <3>1, <4>1, <4>2, PutIs
      <4> QED BY <4>1, <4>3 DEF PageBecomes, ShowsTheSame
    <3>2. CASE Fault /\ StorageFails(p, page[p])
      BY <2>1, <3>2, StorageFailsIs, BecomesTheSame, FaultTyped
    <3> QED BY <1>2, <3>1, <3>2
  <2>3. PageMoves(p) /\ Recedes(p) /\ cmd'[p][h].act = Null
    BY <1>2, <2>2, EndMoves
  <2>4. RestTyped'
    BY <1>2, <2>1, <2>2 DEF RestTyped, ConsoleTypeOK
  <2>5. cmd[p][h].act = "rotate" /\ doubt' = doubt \ {<<p, "rotate", h>>}
    BY <1>2
  <2> QED BY <2>1, <2>2, <2>3, <2>4, <2>5, SettledKeeps
<1>3. CASE Unsettled(p, page[p], "rotate", h) /\ cmd' = Ended(p, h)
  BY <1>3, UnsettledKeeps
<1> QED BY <1>1, <1>2, <1>3 DEF RotateAnswered

LEMMA ResumeKeeps ==
    ASSUME ConsoleInv, NEW p \in Pages, NEW h \in Hooks, Resume(p, h) PROVE ConsoleInv' /\ PageMoves(p)
<1>1. cmd[p][h].step = "answered" /\ UNCHANGED <<hook, changes, late, overruled, begun>>
  BY DEF Resume, Server
<1>2. CASE cmd[p][h].act = "toggle" /\ ToggleAnswered(p, h)
  BY <1>1, <1>2, AskListKeeps DEF ToggleAnswered
<1>3. CASE cmd[p][h].act = "delete" /\ DeleteAnswered(p, h)
  BY <1>1, <1>3, AskListKeeps, RefusedAnswerKeeps DEF DeleteAnswered
<1>4. CASE cmd[p][h].act = "rotate" /\ RotateAnswered(p, h)
  BY <1>1, <1>4, RotateKeeps
<1>5. CASE cmd[p][h].act = "test" /\ TestAnswered(p, h)
  <2>1. CASE cmd[p][h].answer = "refused"
    BY <1>1, <1>5, <2>1, RefusedAnswerKeeps DEF TestAnswered
  <2>2. CASE cmd[p][h].answer # "refused"
    <3>1. cmd' = [cmd EXCEPT ![p][h].step = "reading"] /\ UNCHANGED <<locks, page, doubt, faults>>
      BY <1>5, <2>2 DEF TestAnswered, KeepLock
    <3>2. /\ ShowsTheSame(p, h) /\ LocksStay /\ RestTyped'
          /\ changes' \in Nat /\ changes <= changes'
      BY <1>1, <3>1 DEF ShowsTheSame, LocksStay, RestTyped, ConsoleInv, ConsoleTypeOK
    <3> QED BY ZenonT(40), <1>1, <1>5, <3>1, <3>2, ReadingFits, RunningInUse, CommandAndPage
  <2> QED BY <2>1, <2>2
<1> QED BY <1>2, <1>3, <1>4, <1>5 DEF Resume

LEMMA TestEndsKeeps ==
    ASSUME ConsoleInv, NEW p \in Pages, NEW h \in Hooks, TestEnds(p, h)
    PROVE  ConsoleInv' /\ PageMoves(p)
<1>1. /\ cmd[p][h].step = "reading" /\ cmd[p][h].act = "test" /\ cmd' = Ended(p, h)
      /\ UNCHANGED <<hook, changes, late, overruled, begun>>
      /\ KeepLock \/ Unsettled(p, page[p], "test", h) \/ Settle(p, page[p], "test", h)
  BY DEF TestEnds, Server
<1> QED BY <1>1, UnsettledKeeps, SettleKeeps

\* The command of p on h has read the list and ends with it.
LEMMA WithListMoves ==
    ASSUME ConsoleInv, NEW p \in Pages, NEW h \in Hooks, cmd[p][h].step = "read",
           page[p].latest = h, cmd[p][h].seen # Null, PageBecomes(p, WithList(p, h)),
           cmd' = EndedWithList(p, h), UNCHANGED changes
    PROVE  PageMoves(p) /\ Recedes(p) /\ cmd'[p][h].act = Null
<1> DEFINE l == cmd[p][h].seen
<1>1. /\ cmd[p][h] \in Command /\ l \in Lists /\ page[p] \in PageState
      /\ page[p].life \in {"live", "gone"} /\ CommandFits(page[p], cmd[p][h], h)
      /\ page[p].life = "live" => page[p].shown \in Lists
      /\ PageFits(page[p], cmd[p]) /\ changes \in Nat /\ cmd \in [Pages -> [Hooks -> Command]]
  BY RunningIs DEF Command, ConsoleInv, ConsoleTypeOK, ListsInv
<1>2. l.at \in Nat /\ l.at <= changes /\ (page[p].shown # Null => page[p].shown.at <= l.at)
  BY <1>1 DEF CommandFits, Lists
<1>3. /\ page' \in [Pages -> PageState] /\ \A q \in Pages \ {p} : page'[q] = page[q]
      /\ page'[p].life = page[p].life /\ page'[p].latest = h
      /\ page'[p].shown = IF page[p].life = "live" THEN l ELSE page[p].shown
  BY <1>1 DEF PageBecomes, WithList, PageState
<1>4. \A g \in Hooks :
        LET c == IF g = h THEN NoCommand ELSE cmd[p][g]
        IN cmd'[p][g] = c \/ (c # NoCommand /\ cmd'[p][g] = [c EXCEPT !.current = FALSE])
  BY <1>1 DEF EndedWithList, Invalidated
<1>5. cmd' \in [Pages -> [Hooks -> Command]] /\ \A q \in Pages \ {p} : cmd'[q] = cmd[q]
  <2> DEFINE row == Invalidated([cmd[p] EXCEPT ![h] = NoCommand], l)
  <2>1. row \in [Hooks -> Command]
    <3>1. \A c \in Command : [c EXCEPT !.current = FALSE] \in Command
      BY DEF Command
    <3> QED BY <1>1, <3>1, NothingTyped DEF Invalidated
  <2>2. cmd' = [cmd EXCEPT ![p] = row]
    BY DEF EndedWithList
  <2> HIDE DEF row
  <2> QED BY <1>1, <2>1, <2>2
<1> HIDE DEF l
<1>6. \A g \in Hooks :
        /\ cmd[p][g] \in Command /\ CommandFits(page[p], cmd[p][g], g)
        /\ g # h =>
             /\ cmd'[p][g].act = cmd[p][g].act /\ cmd'[p][g].step = cmd[p][g].step
             /\ cmd'[p][g].seen = cmd[p][g].seen /\ cmd'[p][g].answer = cmd[p][g].answer
             /\ cmd[p][g] = NoCommand => cmd'[p][g] = NoCommand
        /\ g = h => cmd'[p][g] = NoCommand
  <2> SUFFICES ASSUME NEW g \in Hooks
               PROVE  /\ cmd[p][g] \in Command /\ CommandFits(page[p], cmd[p][g], g)
                      /\ g # h =>
                           /\ cmd'[p][g].act = cmd[p][g].act /\ cmd'[p][g].step = cmd[p][g].step
                           /\ cmd'[p][g].seen = cmd[p][g].seen
                           /\ cmd'[p][g].answer = cmd[p][g].answer
                           /\ cmd[p][g] = NoCommand => cmd'[p][g] = NoCommand
                      /\ g = h => cmd'[p][g] = NoCommand
    OBVIOUS
  <2>1. cmd[p][g] \in Command /\ CommandFits(page[p], cmd[p][g], g)
    BY <1>1 DEF PageFits
  <2> QED BY <1>4, <2>1 DEF Command
<1>7. \A g \in Hooks : CommandFits(page[p], cmd[p][g], g)'
  <2> SUFFICES ASSUME NEW g \in Hooks PROVE CommandFits(page[p], cmd[p][g], g)'
    OBVIOUS
  <2>1. CASE g = h
    BY <1>6, <2>1, NoCommandFits, NothingTyped DEF CommandFits
  <2>2. CASE g # h
    BY <1>3, <1>6, <2>2 DEF CommandFits
  <2> QED BY <2>1, <2>2
<1>8. PageFits(page[p], cmd[p])'
  BY <1>1, <1>2, <1>3, <1>7, Names DEF PageFits
<1>9. PageMoves(p)
  BY <1>1, <1>2, <1>3, <1>5, <1>8 DEF PageMoves, PageState, Lists
<1>10. Recedes(p)
  BY <1>3, <1>6, NothingTyped, Names DEF Recedes
<1> QED BY <1>6, <1>9, <1>10, NothingTyped

LEMMA WithListKeeps ==
    ASSUME ConsoleInv, NEW p \in Pages, NEW h \in Hooks, NEW a \in Acts, cmd[p][h].act = a,
           cmd[p][h].step = "read", page[p].latest = h, cmd[p][h].seen # Null,
           a = "toggle" => page[p].life # "gone", Settle(p, WithList(p, h), a, h),
           cmd' = EndedWithList(p, h), UNCHANGED <<hook, changes, late, overruled, begun>>
    PROVE  ConsoleInv' /\ PageMoves(p)
<1>1. WithList(p, h) \in PageState
  BY ZenonT(40), RunningIs DEF WithList, PageState, Command
<1>2. /\ PageBecomes(p, WithList(p, h)) /\ locks' \in {locks, locks \ {<<a, h>>}} /\ RestTyped'
      /\ doubt' = doubt \ {<<p, a, h>>}
  BY <1>1, SettleIs
<1>3. PageMoves(p) /\ Recedes(p) /\ cmd'[p][h].act = Null
  BY <1>2, WithListMoves
<1> QED BY <1>2, <1>3, SettledKeeps

LEMMA ReadBackKeeps ==
    ASSUME ConsoleInv, NEW p \in Pages, NEW h \in Hooks, ReadBack(p, h)
    PROVE  ConsoleInv' /\ PageMoves(p)
<1>1. cmd[p][h].step = "read" /\ UNCHANGED <<hook, changes, late, overruled, begun>>
  BY DEF ReadBack, Server
<1>2. CASE cmd[p][h].act = "toggle" /\ ToggleEnds(p, h)
  <2>1. CASE KeepLock /\ cmd' = Ended(p, h)
    BY <1>1, <2>1, UnsettledKeeps
  <2>2. CASE Unsettled(p, page[p], "toggle", h) /\ cmd' = Ended(p, h)
    BY <1>1, <1>2, <2>2, UnsettledKeeps
  <2>3. CASE /\ page[p].life # "gone" /\ page[p].latest = h /\ cmd[p][h].seen # Null
             /\ Settle(p, WithList(p, h), "toggle", h) /\ cmd' = EndedWithList(p, h)
    <3>1. "toggle" \in Acts
      BY Names
    <3> QED BY <1>1, <1>2, <2>3, <3>1, WithListKeeps
  <2> QED BY <1>2, <2>1, <2>2, <2>3 DEF ToggleEnds, Applies
<1>3. CASE cmd[p][h].act = "delete" /\ DeleteEnds(p, h)
  <2>1. CASE KeepLock /\ cmd' = Ended(p, h)
    BY <1>1, <2>1, UnsettledKeeps
  <2>2. CASE Unsettled(p, page[p], "delete", h) /\ cmd' = Ended(p, h)
    BY <1>1, <1>3, <2>2, UnsettledKeeps
  <2>3. CASE /\ page[p].latest = h /\ cmd[p][h].seen # Null
             /\ Settle(p, WithList(p, h), "delete", h) /\ cmd' = EndedWithList(p, h)
    <3>1. "delete" \in Acts
      BY Names
    <3> QED BY <1>1, <1>3, <2>3, <3>1, WithListKeeps
  <2> QED BY <1>3, <2>1, <2>2, <2>3 DEF DeleteEnds, Applies
<1> QED BY <1>2, <1>3 DEF ReadBack

(***************************************************************************)
(* Every step.                                                             *)
(***************************************************************************)
PageSteps(p) ==
    \/ Mount(p) \/ Leave(p) \/ Load(p)
    \/ \E h \in Hooks :
        \/ \E a \in Staged : Begin(p, h, a)
        \/ \E a \in Acts : Acknowledge(p, a, h)
        \/ BeginTest(p, h) \/ Goes(p, h)

LEMMA GoesKeeps ==
    ASSUME ConsoleInv, NEW p \in Pages, NEW h \in Hooks, Goes(p, h)
    PROVE  ConsoleInv' /\ PageMoves(p)
BY StageTestKeeps, TestReadFailsKeeps, PerformKeeps, AnswersKeep, SentAgainKeeps, ResumeKeeps,
   ListAnsweredKeeps, ReadBackKeeps, TestEndsKeeps DEF Goes

LEMMA PageStepsKeep ==
    ASSUME ConsoleInv, NEW p \in Pages, PageSteps(p) PROVE ConsoleInv' /\ PageMoves(p)
BY MountKeeps, LeaveKeeps, LoadKeeps, BeginKeeps, AcknowledgeKeeps, BeginTestKeeps, GoesKeeps
   DEF PageSteps

LEMMA ConsoleSteps ==
    ConsoleNext => \/ \E p \in Pages : PageSteps(p)
                   \/ \E h \in Hooks : DeletedElsewhere(h)
                   \/ \E w \in late : PerformLate(w)
                   \/ Reload
BY DEF ConsoleNext, PageSteps

LEMMA ConsoleInvStep == ConsoleInv /\ [ConsoleNext]_consoleVars => ConsoleInv'
<1> SUFFICES ASSUME ConsoleInv, [ConsoleNext]_consoleVars PROVE ConsoleInv'
  OBVIOUS
<1>1. CASE ConsoleNext
  BY <1>1, ConsoleSteps, PageStepsKeep, DeletedElsewhereKeeps, PerformLateKeeps, ReloadKeeps
<1>2. CASE UNCHANGED consoleVars
  <2>1. RestTyped' /\ changes' \in Nat /\ changes <= changes'
    BY <1>2 DEF consoleVars, RestTyped, ConsoleInv, ConsoleTypeOK
  <2>2. UNCHANGED <<page, cmd, locks, doubt, overruled>>
    BY <1>2 DEF consoleVars
  <2> QED BY <2>1, <2>2, ServerKeeps
<1> QED BY <1>1, <1>2

LEMMA ConsoleInvAlways == ConsoleSpec => []ConsoleInv
<1>1. ConsoleInit => ConsoleInv
  BY ConsoleInvInit
<1>2. ConsoleInv /\ [ConsoleNext]_consoleVars => ConsoleInv'
  BY ConsoleInvStep
<1> QED BY <1>1, <1>2, PTL DEF ConsoleSpec

(***************************************************************************)
(* The theorems.                                                           *)
(***************************************************************************)

\* What is in doubt is locked: the lock of a write whose fate is not known
\* stays in localStorage, whatever is refused, lost, left or reloaded, until
\* the list has shown its effect or the administrator has acknowledged it.
THEOREM DoubtIsLocked == ConsoleSpec => []ConsoleInvariant
<1>1. ConsoleInv => ConsoleInvariant
  BY DEF ConsoleInv, LocksInv, ConsoleInvariant
<1> QED BY <1>1, ConsoleInvAlways, PTL

\* Two pages never have the same write under way on one webhook, unless the
\* administrator acknowledged its lock while it ran: Stage finds the lock taken.
THEOREM PagesDoNotRepeat == ConsoleSpec => []OneWriterPerLock
<1>1. ConsoleInv => OneWriterPerLock
  <2> SUFFICES ASSUME ConsoleInv, NEW a \in Staged, NEW h \in Hooks, <<a, h>> \notin overruled
               PROVE  ~(Cardinality(Running(a, h)) > 1)
    BY DEF OneWriterPerLock
  <2>1. \A p, q \in Running(a, h) : p = q
    BY DEF ConsoleInv, LocksInv, RunsOnce, Runs, Running
  <2>2. CASE Running(a, h) = {}
    BY <2>2, FS_EmptySet
  <2>3. CASE Running(a, h) # {}
    <3>1. PICK p : Running(a, h) = {p}
      BY <2>1, <2>3
    <3>2. Cardinality(Running(a, h)) = 1
      BY <3>1, FS_Singleton
    <3> QED BY <3>2
  <2> QED BY <2>2, <2>3
<1> QED BY <1>1, ConsoleInvAlways, PTL

\* The list a page shows never goes back to an older state of the server: a
\* list is shown by its handler only if no newer one was asked for, and what
\* was asked for last is read after what is shown.
THEOREM ListsGoForward == ConsoleSpec => ShownListNeverGoesBack
<1> DEFINE Forward(p) == (page[p].shown # Null /\ page'[p].shown # Null)
                           => page'[p].shown.at >= page[p].shown.at
<1>1. ConsoleInv /\ [ConsoleNext]_consoleVars => [\A p \in Pages : Forward(p)]_consoleVars
  <2> SUFFICES ASSUME ConsoleInv, ConsoleNext, NEW p \in Pages PROVE Forward(p)
    OBVIOUS
  <2>1. page[p].shown # Null => page[p].shown.at \in Nat
    BY DEF ConsoleInv, ConsoleTypeOK, PageState, Lists
  <2>2. ASSUME page'[p] = page[p] PROVE Forward(p)
    BY <2>1, <2>2
  <2>3. CASE \E q \in Pages : PageSteps(q)
    <3>1. PICK q \in Pages : PageMoves(q)
      BY <2>3, PageStepsKeep
    <3> QED BY <2>2, <3>1 DEF PageMoves
  <2>4. CASE \E h \in Hooks : DeletedElsewhere(h)
    BY <2>2, <2>4 DEF DeletedElsewhere
  <2>5. CASE \E w \in late : PerformLate(w)
    BY <2>2, <2>5 DEF PerformLate
  <2>6. CASE Reload
    BY <2>6, NothingTyped DEF Reload
  <2> QED BY <2>3, <2>4, <2>5, <2>6, ConsoleSteps
<1> QED BY <1>1, ConsoleInvAlways, PTL DEF ConsoleSpec, ShownListNeverGoesBack
=============================================================================
