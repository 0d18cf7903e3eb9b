--------------------------- MODULE SessionProofs ---------------------------
(***************************************************************************)
(* Sessions.  First the logins to the administration API, for any number   *)
(* of requests, addresses and policies, and maps of any capacity; then the *)
(* session of a user in the account center, for any number of clicks, base *)
(* URLs, expiries and faults.                                              *)
(***************************************************************************)
EXTENDS AdminLogin, AccountCenter, FiniteSetTheorems, WellFoundedInduction, TLAPS

(***************************************************************************)
(* The bounded map.                                                        *)
(***************************************************************************)

LEMMA LeastOfNaturals ==
    ASSUME NEW S, S \subseteq Nat, S # {}
    PROVE  Min(S) \in S /\ \A y \in S : Min(S) <= y
<1>1. PICK x \in S : \A y \in S : ~ (<<y, x>> \in OpToRel(<, Nat))
  BY NatLessThanWellFounded, WFMin, Zenon
<1>2. \A y \in S : ~ (y < x)
  BY <1>1 DEF OpToRel
<1>3. \A y \in S : x <= y
  BY <1>2
<1> QED BY <1>3 DEF Min

\* nextExpiry comes before no entry expires, so that nothing expired is found
\* as long as it lies ahead.
GoodMap(map, States) ==
    /\ map = [entries |-> map.entries, nextExpiry |-> map.nextExpiry]
    /\ map.entries \in [DOMAIN map.entries -> [state : States, expiresAt : Nat]]
    /\ DOMAIN map.entries \subseteq Keys /\ IsFiniteSet(DOMAIN map.entries)
    /\ Cardinality(DOMAIN map.entries) <= MaxEntries
    /\ map.nextExpiry \in 0..Never
    /\ \A k \in DOMAIN map.entries : map.nextExpiry <= map.entries[k].expiresAt

LEMMA NeverIsNatural == Never \in Nat /\ MaxEntries \in Nat /\ 0 < MaxEntries
BY LoginAssumption

LEMMA EmptyMapIsGood ==
    ASSUME NEW States PROVE GoodMap(EmptyMap, States) /\ DOMAIN EmptyMap.entries = {}
<1>1. DOMAIN EmptyMap.entries = {}
  BY DEF EmptyMap
<1>2. Cardinality({}) = 0 /\ IsFiniteSet({})
  BY FS_EmptySet
<1> QED BY <1>1, <1>2, NeverIsNatural DEF GoodMap, EmptyMap

\* What is left are the entries that have not expired.
LEMMA RemoveExpiredIs ==
    ASSUME NEW States, NEW map, GoodMap(map, States), NEW t \in Nat
    PROVE  /\ GoodMap(RemoveExpired(map, t), States)
           /\ DOMAIN RemoveExpired(map, t).entries = Live(map, t)
           /\ \A k \in Live(map, t) : RemoveExpired(map, t).entries[k] = map.entries[k]
<1> DEFINE m == RemoveExpired(map, t)
           kept == Live(map, t)
<1>1. kept \subseteq DOMAIN map.entries
  BY DEF Live
<1>2. CASE t < map.nextExpiry
  <2>1. m = map
    BY <1>2 DEF RemoveExpired
  <2>2. kept = DOMAIN map.entries
    BY <1>2, NeverIsNatural DEF GoodMap, Live
  <2> QED BY <2>1, <2>2
<1>3. CASE ~(t < map.nextExpiry)
  <2> DEFINE times == {map.entries[k].expiresAt : k \in kept} \cup {Never}
  <2>1. m = [entries |-> [k \in kept |-> map.entries[k]], nextExpiry |-> Min(times)]
    BY <1>3 DEF RemoveExpired, Restrict
  <2>2. times \subseteq Nat /\ times # {} /\ Never \in times
        /\ \A k \in kept : map.entries[k].expiresAt \in times
    BY <1>1, NeverIsNatural DEF GoodMap
  <2> HIDE DEF times, kept
  <2>3. Min(times) \in Nat /\ Min(times) <= Never
        /\ \A k \in kept : Min(times) <= map.entries[k].expiresAt
    BY <2>2, LeastOfNaturals
  <2>4. /\ IsFiniteSet(kept) /\ Cardinality(kept) \in Nat
        /\ Cardinality(kept) <= Cardinality(DOMAIN map.entries)
        /\ Cardinality(DOMAIN map.entries) \in Nat
    BY <1>1, FS_Subset, FS_CardinalityType DEF GoodMap
  <2>5. Cardinality(kept) <= MaxEntries
    BY <2>4, NeverIsNatural DEF GoodMap
  <2>6. kept \subseteq Keys /\ \A k \in kept : map.entries[k] \in [state : States, expiresAt : Nat]
    BY <1>1 DEF GoodMap
  <2>7. m.entries = [k \in kept |-> map.entries[k]] /\ m.nextExpiry = Min(times)
        /\ DOMAIN m.entries = kept
    BY <2>1
  <2>8. Min(times) \in 0..Never
    BY <2>3, NeverIsNatural
  <2> QED BY <2>1, <2>3, <2>4, <2>5, <2>6, <2>7, <2>8 DEF GoodMap, kept
<1> QED BY <1>2, <1>3

LEMMA PutIs ==
    ASSUME NEW States, NEW map, GoodMap(map, States), NEW k \in Keys, HasRoom(map, k),
           NEW state \in States, NEW t \in 0..Never
    PROVE  /\ GoodMap(Put(map, k, state, t), States)
           /\ DOMAIN Put(map, k, state, t).entries = DOMAIN map.entries \cup {k}
           /\ Put(map, k, state, t).entries[k] = [state |-> state, expiresAt |-> t]
           /\ \A j \in DOMAIN map.entries \ {k} :
                Put(map, k, state, t).entries[j] = map.entries[j]
<1> DEFINE m == Put(map, k, state, t)
           e == With(map.entries, k, [state |-> state, expiresAt |-> t])
           next == Min({map.nextExpiry, t})
           keys == DOMAIN map.entries
<1>1. m = [entries |-> e, nextExpiry |-> next]
  BY DEF Put
<1>2. /\ DOMAIN e = keys \cup {k} /\ e[k] = [state |-> state, expiresAt |-> t]
      /\ \A j \in keys \ {k} : e[j] = map.entries[j]
      /\ e = [j \in keys \cup {k} |-> e[j]]
  BY DEF With
<1>3. next \in 0..Never /\ next <= map.nextExpiry /\ next <= t
  <2>1. {map.nextExpiry, t} \subseteq 0..Never
    BY DEF GoodMap
  <2>2. {map.nextExpiry, t} \subseteq Nat /\ {map.nextExpiry, t} # {}
    BY <2>1, NeverIsNatural
  <2>3. next \in {map.nextExpiry, t} /\ \A y \in {map.nextExpiry, t} : next <= y
    BY <2>2, LeastOfNaturals
  <2> HIDE DEF next
  <2> QED BY <2>1, <2>3
<1> HIDE DEF e, next
<1>4. e \in [DOMAIN e -> [state : States, expiresAt : Nat]] /\ DOMAIN e \subseteq Keys
  BY <1>2, NeverIsNatural DEF GoodMap
<1>5. IsFiniteSet(DOMAIN e) /\ Cardinality(DOMAIN e) <= MaxEntries
  <2>1. IsFiniteSet(keys) /\ Cardinality(keys) \in Nat /\ Cardinality(keys) <= MaxEntries
    BY FS_CardinalityType DEF GoodMap
  <2>2. /\ IsFiniteSet(keys \cup {k})
        /\ Cardinality(keys \cup {k}) = IF k \in keys THEN Cardinality(keys) ELSE Cardinality(keys) + 1
    BY <2>1, FS_AddElement
  <2>3. k \in keys \/ Cardinality(keys) < MaxEntries
    BY DEF HasRoom
  <2> HIDE DEF keys
  <2> QED BY <1>2, <2>1, <2>2, <2>3, NeverIsNatural
<1>6. \A j \in DOMAIN e : next <= e[j].expiresAt
  <2>1. \A j \in keys : map.nextExpiry <= map.entries[j].expiresAt
           /\ map.entries[j].expiresAt \in Nat /\ map.nextExpiry \in Nat
    BY NeverIsNatural DEF GoodMap
  <2>2. next \in Nat /\ t \in Nat
    BY <1>3, NeverIsNatural
  <2>3. \A j \in keys \ {k} : next <= e[j].expiresAt
    BY <1>2, <1>3, <2>1, <2>2
  <2>4. next <= e[k].expiresAt
    BY <1>2, <1>3
  <2> QED BY <1>2, <2>3, <2>4
<1>7. m.entries = e /\ m.nextExpiry = next
  BY <1>1
<1> QED BY <1>1, <1>2, <1>3, <1>4, <1>5, <1>6, <1>7 DEF GoodMap

\* A limit counts in place.
LEMMA CountUpIs ==
    ASSUME NEW map, GoodMap(map, Nat), NEW k \in DOMAIN map.entries
    PROVE  /\ GoodMap(CountUp(map, k), Nat)
           /\ DOMAIN CountUp(map, k).entries = DOMAIN map.entries
           /\ CountUp(map, k).entries[k].state = map.entries[k].state + 1
           /\ CountUp(map, k).entries[k].expiresAt = map.entries[k].expiresAt
           /\ \A j \in DOMAIN map.entries \ {k} : CountUp(map, k).entries[j] = map.entries[j]
<1> DEFINE e == [map.entries EXCEPT ![k].state = @ + 1]
           m == CountUp(map, k)
<1>1. m = [entries |-> e, nextExpiry |-> map.nextExpiry]
  BY DEF GoodMap, CountUp
<1>2. /\ e \in [DOMAIN map.entries -> [state : Nat, expiresAt : Nat]]
      /\ e[k].state = map.entries[k].state + 1 /\ e[k].expiresAt = map.entries[k].expiresAt
      /\ \A j \in DOMAIN map.entries \ {k} : e[j] = map.entries[j]
  BY DEF GoodMap
<1> HIDE DEF e, m
<1>3. m.entries = e /\ m.nextExpiry = map.nextExpiry /\ DOMAIN e = DOMAIN map.entries
  BY ONLY <1>1, <1>2
<1>4. GoodMap(m, Nat)
  BY <1>1, <1>2, <1>3 DEF GoodMap
<1> QED BY <1>2, <1>3, <1>4 DEF m

LEMMA DeleteIs ==
    ASSUME NEW States, NEW map, GoodMap(map, States), NEW k
    PROVE  /\ GoodMap(Delete(map, k), States)
           /\ DOMAIN Delete(map, k).entries = DOMAIN map.entries \ {k}
           /\ \A j \in DOMAIN map.entries \ {k} : Delete(map, k).entries[j] = map.entries[j]
<1> DEFINE keys == DOMAIN map.entries
           m == Delete(map, k)
<1>1. m = [entries |-> [j \in keys \ {k} |-> map.entries[j]], nextExpiry |-> map.nextExpiry]
  BY DEF Delete, Restrict, GoodMap
<1>2. /\ m.entries = [j \in keys \ {k} |-> map.entries[j]] /\ m.nextExpiry = map.nextExpiry
      /\ DOMAIN m.entries = keys \ {k}
  BY <1>1
<1>3. /\ IsFiniteSet(keys \ {k}) /\ Cardinality(keys \ {k}) <= MaxEntries
  <2>1. IsFiniteSet(keys) /\ keys \ {k} \subseteq keys /\ Cardinality(keys) <= MaxEntries
    BY DEF GoodMap
  <2>2. IsFiniteSet(keys \ {k}) /\ Cardinality(keys \ {k}) <= Cardinality(keys)
        /\ Cardinality(keys \ {k}) \in Nat /\ Cardinality(keys) \in Nat
    BY <2>1, FS_Subset, FS_CardinalityType
  <2> HIDE DEF keys
  <2> QED BY <2>1, <2>2, NeverIsNatural
<1> HIDE DEF m
<1>4. m.entries \in [keys \ {k} -> [state : States, expiresAt : Nat]]
  BY <1>2 DEF GoodMap
<1>5. \A j \in keys \ {k} : m.entries[j] = map.entries[j]
  BY <1>2
<1>6. GoodMap(m, States)
  BY <1>1, <1>2, <1>3, <1>4, <1>5 DEF GoodMap
<1> QED BY <1>2, <1>5, <1>6 DEF m

LEMMA StillLive ==
    ASSUME NEW States, NEW map, GoodMap(map, States), NEW t \in Nat
    PROVE  /\ Live(RemoveExpired(map, t), t) = Live(map, t)
           /\ \A k : k \in Live(map, t) => k \in DOMAIN map.entries /\ map.entries[k].expiresAt > t
BY RemoveExpiredIs DEF Live

(***************************************************************************)
(* The inductive invariant.                                                *)
(***************************************************************************)

\* The open window of an address is its live entry in the limiter.
WindowFits(k) ==
    /\ window[k] # Closed <=> k \in Live(rates, now)
    /\ k \in Live(rates, now) =>
         /\ rates.entries[k].state = window[k].count
         /\ rates.entries[k].expiresAt = window[k].from + Window

\* A lockout that is not over has its entry, and no entry goes before it.
LockoutFits(k) ==
    /\ lockout[k] > now => k \in DOMAIN attempts.entries
    /\ k \in DOMAIN attempts.entries =>
         /\ attempts.entries[k].state.until = lockout[k]
         /\ lockout[k] <= attempts.entries[k].expiresAt

RatesInv ==
    /\ GoodMap(rates, Nat) /\ window \in [Keys -> [from : Nat, count : Nat]]
    /\ \A k \in Keys : WindowFits(k)

AttemptsInv ==
    /\ GoodMap(attempts, Failures) /\ lockout \in [Keys -> Nat]
    /\ \A k \in Keys : LockoutFits(k)

TimeOK == now \in Nat /\ 0 < now /\ now <= MaxTime

RequestState ==
    [pc : {"policy", "reading", "refused", "done"},
     step : Steps \cup {Null}, key : Keys \cup {Null}, asked : Nat, row : Policies \cup {Null}]

\* What is still to be done for a request has an address, but for the first.
RequestFits(q) ==
    q.pc \in {"policy", "reading"} =>
        q.step = "limit" \/ (q.step \in {"check", "token", "record"} /\ q.key \in Keys)

RequestsInv ==
    /\ req \in [Requests -> RequestState]
    /\ \A r \in Requests : RequestFits(req[r])

\* A row that was read was the one stored when the read began, and the one
\* stored is so now.
PolicyInv ==
    /\ db \in Policies /\ cfg \in [row : Policies \cup {Null}, expires : Nat]
    /\ held \in [Policies \cup {Null} -> Nat] /\ failedAt \in Nat
    /\ held[db] = now /\ \A p \in Policies \cup {Null} : held[p] <= now
    /\ \A r \in Requests : req[r].pc = "reading" => held[req[r].row] >= req[r].asked
    /\ PolicyIsFresh

LoginInv ==
    /\ TimeOK /\ RatesInv /\ AttemptsInv /\ RequestsInv /\ PolicyInv
    /\ events \in 0..MaxEvents

(***************************************************************************)
(* The four steps of a login.                                              *)
(***************************************************************************)

LEMMA EffectiveIs ==
    ASSUME NEW row \in Policies \cup {Null}
    PROVE  /\ Effective(row) \in Policy
           /\ MaxTime + Window + Effective(row).lockout < Never
BY LoginAssumption DEF Effective

LEMMA Numbers ==
    /\ Window \in Nat /\ 0 < Window /\ CacheTime \in Nat /\ MaxTime \in Nat /\ MaxEvents \in Nat
    /\ Null \notin Nat /\ Null \notin Failures
BY LoginAssumption

LEMMA StateOfIs ==
    ASSUME NEW map, NEW States, GoodMap(map, States), NEW k, Null \notin States
    PROVE  /\ StateOf(map, k) # Null <=> k \in DOMAIN map.entries
           /\ k \in DOMAIN map.entries =>
                StateOf(map, k) = map.entries[k].state /\ map.entries[k].state \in States
BY DEF StateOf, GoodMap

\* The limiter as the next request finds it.
LEMMA LimiterIs ==
    ASSUME RatesInv, TimeOK, NEW map, map = RemoveExpired(rates, now)
    PROVE  /\ GoodMap(map, Nat) /\ DOMAIN map.entries = {k \in Keys : window[k] # Closed}
           /\ \A k \in Keys : k \in DOMAIN map.entries =>
                /\ map.entries[k].state = window[k].count
                /\ map.entries[k].expiresAt = window[k].from + Window
                /\ map.entries[k].expiresAt > now
<1>1. /\ GoodMap(map, Nat) /\ DOMAIN map.entries = Live(rates, now)
      /\ \A k \in Live(rates, now) : map.entries[k] = rates.entries[k]
  BY RemoveExpiredIs DEF RatesInv, TimeOK
<1>2. \A k \in Live(rates, now) : rates.entries[k].expiresAt > now
  BY DEF Live
<1>3. Live(rates, now) \subseteq Keys
  BY DEF Live, RatesInv, GoodMap
<1> QED BY <1>1, <1>2, <1>3 DEF RatesInv, WindowFits

\* Conversely, a map that holds exactly the open windows will do.
LEMMA LimiterFits ==
    ASSUME TimeOK', GoodMap(rates, Nat)', (window \in [Keys -> [from : Nat, count : Nat]])',
           DOMAIN rates'.entries = {k \in Keys : window'[k] # Closed},
           \A k \in DOMAIN rates'.entries :
               /\ rates'.entries[k].state = window'[k].count
               /\ rates'.entries[k].expiresAt = window'[k].from + Window
               /\ rates'.entries[k].expiresAt > now'
    PROVE  RatesInv'
<1>1. Live(rates, now)' = DOMAIN rates'.entries
  BY DEF Live
<1> QED BY <1>1 DEF RatesInv, WindowFits

Admitted(rpm) ==
    \A k \in Keys : window'[k].count > window[k].count => window'[k].count <= rpm

LimitRefusesDuly(k, rpm) ==
    IF window[k] # Closed
    THEN window[k].count >= rpm
    ELSE Cardinality({j \in Keys : window[j] # Closed}) >= MaxEntries

LEMMA LimitKeeps ==
    ASSUME RatesInv, TimeOK, now' = now, NEW r \in Requests, NEW row \in Policies \cup {Null},
           NEW k \in Keys, Limit(r, row, k)
    PROVE  /\ RatesInv' /\ Admitted(Effective(row).rpm)
           /\ \/ GoTo(r, "check", k) \/ End(r)
              \/ Refuse(r, k) /\ LimitRefusesDuly(k, Effective(row).rpm)
<1> DEFINE map == RemoveExpired(rates, now)
           rpm == Effective(row).rpm
           open == {j \in Keys : window[j] # Closed}
           counted == Counted(map, k, rpm)
<1>1. /\ GoodMap(map, Nat) /\ DOMAIN map.entries = open
      /\ \A j \in open :
           /\ map.entries[j].state = window[j].count
           /\ map.entries[j].expiresAt = window[j].from + Window
           /\ map.entries[j].expiresAt > now
  BY LimiterIs
<1>2. /\ rpm \in Nat /\ 1 <= rpm /\ now \in Nat /\ 0 < now /\ now + Window \in 0..Never
      /\ now + Window > now
  BY EffectiveIs, Numbers, NeverIsNatural DEF Policy, TimeOK
<1>3. window \in [Keys -> [from : Nat, count : Nat]] /\ TimeOK'
  BY DEF RatesInv, TimeOK
<1>4. /\ StateOf(map, k) # Null <=> k \in open
      /\ k \in open => StateOf(map, k) = window[k].count
  BY <1>1, StateOfIs, Numbers
<1>5. /\ counted = {} => rates' = map /\ Refuse(r, k) /\ window' = window
      /\ counted # {} =>
           /\ rates' \in counted
           /\ window' = [window EXCEPT ![k] =
                IF @ = Closed THEN [from |-> now, count |-> 1]
                ELSE [from |-> @.from, count |-> @.count + 1]]
           /\ GoTo(r, "check", k) \/ End(r)
  <2>1. CASE counted = {}
    BY <2>1, Zenon DEF Limit
  <2>2. CASE counted # {}
    BY <2>2, Zenon DEF Limit
  <2> QED BY <2>1, <2>2
<1> HIDE DEF map, rpm
<1>6. CASE counted = {}
  <2>1. LimitRefusesDuly(k, rpm)
    <3>1. CASE k \in open
      BY <1>2, <1>3, <1>4, <1>6, <3>1 DEF Counted, LimitRefusesDuly
    <3>2. CASE k \notin open
      <4>1. ~HasRoom(map, k)
        BY <1>4, <1>6, <3>2 DEF Counted
      <4>2. ~(Cardinality(open) < MaxEntries)
        BY <1>1, <4>1 DEF HasRoom
      <4>3. Cardinality(open) \in Nat
        BY <1>1, FS_CardinalityType DEF GoodMap
      <4> QED BY <3>2, <4>2, <4>3, NeverIsNatural DEF LimitRefusesDuly
    <3> QED BY <3>1, <3>2
  <2>2. RatesInv'
    BY <1>1, <1>3, <1>5, <1>6, LimiterFits
  <2>3. Admitted(rpm)
    BY <1>3, <1>5, <1>6 DEF Admitted
  <2> QED BY <1>5, <1>6, <2>1, <2>2, <2>3 DEF rpm
<1>7. CASE counted # {} /\ k \in open
  <2>1. rates' = CountUp(map, k) /\ window[k].count < rpm
    BY <1>2, <1>3, <1>4, <1>5, <1>7 DEF Counted
  <2>2. /\ GoodMap(rates', Nat) /\ DOMAIN rates'.entries = open
        /\ rates'.entries[k].state = map.entries[k].state + 1
        /\ rates'.entries[k].expiresAt = map.entries[k].expiresAt
        /\ \A j \in open \ {k} : rates'.entries[j] = map.entries[j]
    BY <1>1, <1>7, <2>1, CountUpIs
  <2>3. /\ window'[k] = [from |-> window[k].from, count |-> window[k].count + 1]
        /\ \A j \in Keys \ {k} : window'[j] = window[j]
        /\ window' \in [Keys -> [from : Nat, count : Nat]]
    <3>1. window' = [window EXCEPT ![k] = [from |-> window[k].from, count |-> window[k].count + 1]]
      BY <1>5, <1>7
    <3> QED BY <1>3, <3>1
  <2>4. window'[k] # Closed
    BY <1>3, <2>3 DEF Closed
  <2>5. DOMAIN rates'.entries = {j \in Keys : window'[j] # Closed}
    BY <1>7, <2>2, <2>3, <2>4
  <2>6. \A j \in open :
           /\ rates'.entries[j].state = window'[j].count
           /\ rates'.entries[j].expiresAt = window'[j].from + Window
           /\ rates'.entries[j].expiresAt > now'
    BY <1>1, <1>7, <2>2, <2>3
  <2>7. GoodMap(rates, Nat)'
    BY <2>2 DEF GoodMap
  <2>8. RatesInv'
    BY <1>3, <2>2, <2>3, <2>5, <2>6, <2>7, LimiterFits
  <2>9. Admitted(rpm)
    BY <1>2, <1>3, <2>1, <2>3 DEF Admitted
  <2> QED BY <1>5, <1>7, <2>8, <2>9 DEF rpm
<1>8. CASE counted # {} /\ k \notin open
  <2>1. rates' = Put(map, k, 1, now + Window) /\ HasRoom(map, k)
    BY <1>4, <1>5, <1>8 DEF Counted
  <2>2. /\ GoodMap(rates', Nat) /\ DOMAIN rates'.entries = open \cup {k}
        /\ rates'.entries[k] = [state |-> 1, expiresAt |-> now + Window]
        /\ \A j \in open \ {k} : rates'.entries[j] = map.entries[j]
    BY <1>1, <1>2, <2>1, PutIs
  <2>3. /\ window'[k] = [from |-> now, count |-> 1]
        /\ \A j \in Keys \ {k} : window'[j] = window[j]
        /\ window' \in [Keys -> [from : Nat, count : Nat]]
    BY <1>2, <1>3, <1>5, <1>8
  <2>4. window'[k] # Closed
    BY <2>3 DEF Closed
  <2>5. DOMAIN rates'.entries = {j \in Keys : window'[j] # Closed}
    BY <1>8, <2>2, <2>3, <2>4
  <2>6. \A j \in open \cup {k} :
           /\ rates'.entries[j].state = window'[j].count
           /\ rates'.entries[j].expiresAt = window'[j].from + Window
           /\ rates'.entries[j].expiresAt > now'
    BY <1>1, <1>2, <1>8, <2>2, <2>3
  <2>7. GoodMap(rates, Nat)'
    BY <2>2 DEF GoodMap
  <2>8. RatesInv'
    BY <1>3, <2>2, <2>3, <2>5, <2>6, <2>7, LimiterFits
  <2>9. Admitted(rpm)
    BY <1>2, <1>3, <2>3 DEF Admitted
  <2> QED BY <1>5, <1>8, <2>8, <2>9 DEF rpm
<1> QED BY <1>6, <1>7, <1>8

\* The failures as the next request finds them.
LEMMA FailuresAre ==
    ASSUME AttemptsInv, TimeOK, NEW map, map = RemoveExpired(attempts, now)
    PROVE  /\ GoodMap(map, Failures) /\ DOMAIN map.entries = Live(attempts, now)
           /\ \A k \in Keys :
                /\ lockout[k] \in Nat
                /\ lockout[k] > now => k \in DOMAIN map.entries
                /\ k \in DOMAIN map.entries =>
                     /\ map.entries[k].state.until = lockout[k]
                     /\ lockout[k] <= map.entries[k].expiresAt
<1>1. /\ GoodMap(map, Failures) /\ DOMAIN map.entries = Live(attempts, now)
      /\ \A k \in Live(attempts, now) : map.entries[k] = attempts.entries[k]
  BY RemoveExpiredIs DEF AttemptsInv, TimeOK
<1>2. ASSUME NEW k \in Keys
      PROVE  /\ lockout[k] \in Nat
             /\ lockout[k] > now => k \in Live(attempts, now)
             /\ k \in DOMAIN map.entries =>
                  /\ map.entries[k].state.until = lockout[k]
                  /\ lockout[k] <= map.entries[k].expiresAt
  <2>1. lockout[k] \in Nat /\ now \in Nat /\ LockoutFits(k)
    BY DEF AttemptsInv, TimeOK
  <2>2. k \in DOMAIN attempts.entries => attempts.entries[k].expiresAt \in Nat
    BY DEF AttemptsInv, GoodMap
  <2>3. lockout[k] > now => k \in Live(attempts, now)
    BY <2>1, <2>2 DEF LockoutFits, Live
  <2>4. k \in Live(attempts, now) => k \in DOMAIN attempts.entries
    BY DEF Live
  <2> QED BY <1>1, <2>1, <2>3, <2>4 DEF LockoutFits
<1> QED BY <1>1, <1>2

\* Conversely.
LEMMA FailuresFit ==
    ASSUME GoodMap(attempts, Failures)', (lockout \in [Keys -> Nat])',
           \A k \in Keys :
                /\ lockout'[k] > now' => k \in DOMAIN attempts'.entries
                /\ k \in DOMAIN attempts'.entries =>
                     /\ attempts'.entries[k].state.until = lockout'[k]
                     /\ lockout'[k] <= attempts'.entries[k].expiresAt
    PROVE  AttemptsInv'
BY DEF AttemptsInv, LockoutFits

LEMMA CheckKeeps ==
    ASSUME AttemptsInv, TimeOK, now' = now, NEW r \in Requests, NEW row \in Policies \cup {Null},
           NEW k \in Keys, Check(r, row, k)
    PROVE  /\ AttemptsInv'
           /\ \/ GoTo(r, "token", k) /\ (Effective(row).protect => lockout[k] <= now)
              \/ Refuse(r, k) /\ lockout[k] > now
<1> DEFINE map == RemoveExpired(attempts, now)
           state == StateOf(map, k)
<1>1. /\ GoodMap(map, Failures) /\ DOMAIN map.entries = Live(attempts, now)
      /\ \A j \in Keys :
           /\ lockout[j] \in Nat
           /\ lockout[j] > now => j \in DOMAIN map.entries
           /\ j \in DOMAIN map.entries =>
                /\ map.entries[j].state.until = lockout[j]
                /\ lockout[j] <= map.entries[j].expiresAt
  BY FailuresAre
<1>2. /\ state # Null <=> k \in DOMAIN map.entries
      /\ k \in DOMAIN map.entries => state = map.entries[k].state
  BY <1>1, StateOfIs, Numbers
<1>3. /\ lockout' = lockout
      /\ \/ /\ ~Effective(row).protect /\ attempts' = attempts /\ GoTo(r, "token", k)
         \/ /\ attempts' = map
            /\ \/ state # Null /\ state.until > now /\ Refuse(r, k)
               \/ ~(state # Null /\ state.until > now) /\ GoTo(r, "token", k)
  BY DEF Check
<1> HIDE DEF map, state
<1>4. lockout \in [Keys -> Nat]
  BY DEF AttemptsInv
<1>5. attempts' = map => AttemptsInv'
  BY <1>1, <1>3, <1>4, FailuresFit
<1>6. attempts' = attempts => AttemptsInv'
  BY <1>3 DEF AttemptsInv, LockoutFits
<1>7. state # Null /\ state.until > now <=> lockout[k] > now
  BY <1>1, <1>2
<1>8. now \in Nat /\ lockout[k] \in Nat
  BY <1>1 DEF TimeOK
<1> QED BY <1>3, <1>5, <1>6, <1>7, <1>8

LEMMA TokenKeeps ==
    ASSUME AttemptsInv, TimeOK, now' = now, NEW r \in Requests, NEW row, NEW k \in Keys,
           Token(r, row, k)
    PROVE  AttemptsInv' /\ (GoTo(r, "record", k) \/ End(r))
<1>1. CASE attempts' = attempts /\ lockout' = lockout /\ GoTo(r, "record", k)
  BY <1>1 DEF AttemptsInv, LockoutFits
<1>2. CASE attempts' = Delete(attempts, k) /\ lockout' = [lockout EXCEPT ![k] = 0] /\ End(r)
  <2>1. /\ GoodMap(attempts', Failures) /\ DOMAIN attempts'.entries = DOMAIN attempts.entries \ {k}
        /\ \A j \in DOMAIN attempts.entries \ {k} : attempts'.entries[j] = attempts.entries[j]
    BY <1>2, DeleteIs DEF AttemptsInv
  <2>2. GoodMap(attempts, Failures)'
    BY <2>1 DEF GoodMap
  <2>3. lockout' \in [Keys -> Nat] /\ lockout'[k] = 0 /\ \A j \in Keys \ {k} : lockout'[j] = lockout[j]
    BY <1>2 DEF AttemptsInv
  <2>4. ASSUME NEW j \in Keys
        PROVE  /\ lockout'[j] > now' => j \in DOMAIN attempts'.entries
               /\ j \in DOMAIN attempts'.entries =>
                    /\ attempts'.entries[j].state.until = lockout'[j]
                    /\ lockout'[j] <= attempts'.entries[j].expiresAt
    <3>1. CASE j = k
      BY <2>1, <2>3, <3>1 DEF TimeOK
    <3>2. CASE j # k
      BY <2>1, <2>3, <3>2 DEF AttemptsInv, LockoutFits
    <3> QED BY <3>1, <3>2
  <2> QED BY <1>2, <2>2, <2>3, <2>4, FailuresFit
<1> QED BY <1>1, <1>2 DEF Token

LEMMA RecordKeeps ==
    ASSUME AttemptsInv, TimeOK, now' = now, NEW r \in Requests, NEW row \in Policies \cup {Null},
           NEW k \in Keys, Record(r, row, k)
    PROVE  /\ AttemptsInv'
           /\ \/ End(r)
              \/ Refuse(r, k) /\ Cardinality(Live(attempts, now) \ {k}) >= MaxEntries
<1> DEFINE map == RemoveExpired(attempts, now)
           policy == Effective(row)
           state == StateOf(map, k)
           current == IF state = Null THEN [count |-> 0, until |-> 0] ELSE state
           count == IF current.until > now THEN current.count ELSE current.count + 1
           until == IF count >= policy.max THEN now + policy.lockout ELSE 0
           failure == [count |-> count, until |-> until]
           expires == now + Retention(policy)
<1>1. /\ GoodMap(map, Failures) /\ DOMAIN map.entries = Live(attempts, now)
      /\ \A j \in Keys :
           /\ lockout[j] \in Nat
           /\ lockout[j] > now => j \in DOMAIN map.entries
           /\ j \in DOMAIN map.entries =>
                /\ map.entries[j].state.until = lockout[j]
                /\ lockout[j] <= map.entries[j].expiresAt
  BY FailuresAre
<1>2. \/ /\ HasRoom(map, k) /\ attempts' = Put(map, k, failure, expires)
         /\ lockout' = [lockout EXCEPT ![k] = until] /\ End(r)
      \/ ~HasRoom(map, k) /\ attempts' = map /\ lockout' = lockout /\ Refuse(r, k)
  BY DEF Record
<1>3. lockout \in [Keys -> Nat]
  BY DEF AttemptsInv
<1>4. CASE ~HasRoom(map, k) /\ attempts' = map /\ lockout' = lockout /\ Refuse(r, k)
  <2> HIDE DEF map
  <2>1. k \notin Live(attempts, now) /\ ~(Cardinality(Live(attempts, now)) < MaxEntries)
    BY <1>1, <1>4 DEF HasRoom
  <2>2. Live(attempts, now) \ {k} = Live(attempts, now)
    BY <2>1
  <2>3. Cardinality(Live(attempts, now)) \in Nat
    BY <1>1, FS_CardinalityType DEF GoodMap
  <2>4. Cardinality(Live(attempts, now) \ {k}) >= MaxEntries
    BY <2>1, <2>2, <2>3, NeverIsNatural
  <2>5. AttemptsInv'
    BY <1>1, <1>3, <1>4, FailuresFit
  <2> QED BY <1>4, <2>4, <2>5
<1>5. CASE /\ HasRoom(map, k) /\ attempts' = Put(map, k, failure, expires)
           /\ lockout' = [lockout EXCEPT ![k] = until] /\ End(r)
  <2>1. /\ policy.max \in Nat /\ policy.lockout \in Nat /\ Window \in Nat /\ now \in Nat
        /\ MaxTime \in Nat /\ now <= MaxTime /\ MaxTime + Window + policy.lockout < Never
    BY EffectiveIs, Numbers DEF Policy, TimeOK
  <2>2. Retention(policy) \in Nat /\ policy.lockout <= Retention(policy)
        /\ Retention(policy) <= Window + policy.lockout
    BY <2>1 DEF Retention
  <2>3. current.count \in Nat /\ current.until \in Nat
    <3>1. state # Null => state \in Failures
      BY <1>1, StateOfIs, Numbers
    <3> HIDE DEF state
    <3> QED BY <3>1 DEF Failures
  <2> HIDE DEF policy, current, map, state
  <2>4. count \in Nat
    BY <2>3
  <2> HIDE DEF count
  <2>5. until \in Nat /\ until <= expires /\ expires \in 0..Never
    BY <2>1, <2>2, <2>4, NeverIsNatural
  <2> HIDE DEF until, expires
  <2>6. failure \in Failures /\ failure.until = until
    BY <2>4, <2>5 DEF Failures
  <2> HIDE DEF failure
  <2>7. /\ GoodMap(attempts', Failures) /\ DOMAIN attempts'.entries = DOMAIN map.entries \cup {k}
        /\ attempts'.entries[k] = [state |-> failure, expiresAt |-> expires]
        /\ \A j \in DOMAIN map.entries \ {k} : attempts'.entries[j] = map.entries[j]
    BY <1>1, <1>5, <2>5, <2>6, PutIs
  <2>8. GoodMap(attempts, Failures)'
    BY <2>7 DEF GoodMap
  <2>9. lockout' \in [Keys -> Nat] /\ lockout'[k] = until
        /\ \A j \in Keys \ {k} : lockout'[j] = lockout[j]
    BY <1>3, <1>5, <2>5
  <2>10. ASSUME NEW j \in Keys
        PROVE  /\ lockout'[j] > now' => j \in DOMAIN attempts'.entries
               /\ j \in DOMAIN attempts'.entries =>
                    /\ attempts'.entries[j].state.until = lockout'[j]
                    /\ lockout'[j] <= attempts'.entries[j].expiresAt
    <3>1. CASE j = k
      BY <2>5, <2>6, <2>7, <2>9, <3>1
    <3>2. CASE j # k
      BY <1>1, <2>7, <2>9, <3>2
    <3> QED BY <3>1, <3>2
  <2>11. AttemptsInv'
    BY <2>8, <2>9, <2>10, FailuresFit
  <2> QED BY <1>5, <2>11
<1> QED BY <1>2, <1>4, <1>5

(***************************************************************************)
(* What a step makes of its request.                                       *)
(***************************************************************************)

OthersStay(r) == \A s \in Requests \ {r} : req'[s] = req[s]

LEMMA Moved ==
    ASSUME RequestsInv, NEW r \in Requests, NEW q \in RequestState, RequestFits(q),
           req' = [req EXCEPT ![r] = q]
    PROVE  RequestsInv' /\ req'[r] = q /\ OthersStay(r)
<1>1. /\ req' \in [Requests -> RequestState] /\ req'[r] = q
      /\ \A s \in Requests \ {r} : req'[s] = req[s]
  BY DEF RequestsInv
<1>2. \A s \in Requests : RequestFits(req'[s])
  BY <1>1 DEF RequestsInv
<1> QED BY <1>1, <1>2 DEF RequestsInv, OthersStay, RequestFits

LEMMA AtIs ==
    ASSUME NEW pc \in {"policy", "refused", "done"}, NEW step \in Steps \cup {Null},
           NEW k \in Keys \cup {Null}
    PROVE  At(pc, step, k) \in RequestState
<1>1. 0 \in Nat /\ Null \in Policies \cup {Null}
  OBVIOUS
<1> QED BY <1>1 DEF At, RequestState

LEMMA OthersAreNotRefused ==
    ASSUME NEW r, OthersStay(r), NEW s \in Requests \ {r}, NEW step
    PROVE  ~Refused(s, step)
BY DEF OthersStay, Refused, At

LEMMA GoesOn ==
    ASSUME RequestsInv, NEW r \in Requests, NEW k \in Keys,
           NEW step \in {"check", "token", "record"}, GoTo(r, step, k)
    PROVE  /\ RequestsInv' /\ OthersStay(r) /\ req'[r].pc = "policy" /\ req'[r].step = step
           /\ \A st : \A s \in Requests : ~Refused(s, st)
<1>1. At("policy", step, k) \in RequestState
  BY AtIs DEF Steps
<1>2. RequestFits(At("policy", step, k))
  BY DEF RequestFits, At
<1>3. RequestsInv' /\ req'[r] = At("policy", step, k) /\ OthersStay(r)
  BY <1>1, <1>2, Moved DEF GoTo
<1>4. req'[r].pc = "policy" /\ req'[r].step = step
  BY <1>3 DEF At
<1>5. \A st : ~Refused(r, st)
  BY <1>4 DEF Refused, At
<1> QED BY <1>3, <1>4, <1>5, OthersAreNotRefused

LEMMA Ends ==
    ASSUME RequestsInv, NEW r \in Requests, End(r)
    PROVE  /\ RequestsInv' /\ OthersStay(r) /\ req'[r].pc = "done" /\ req'[r].step = Null
           /\ \A st : \A s \in Requests : ~Refused(s, st)
<1>1. At("done", Null, Null) \in RequestState
  BY AtIs
<1>2. RequestFits(At("done", Null, Null))
  BY DEF RequestFits, At
<1>3. RequestsInv' /\ req'[r] = At("done", Null, Null) /\ OthersStay(r)
  BY <1>1, <1>2, Moved DEF End
<1>4. req'[r].pc = "done" /\ req'[r].step = Null
  BY <1>3 DEF At
<1>5. \A st : ~Refused(r, st)
  BY <1>4 DEF Refused, At
<1> QED BY <1>3, <1>4, <1>5, OthersAreNotRefused

LEMMA Refuses ==
    ASSUME RequestsInv, NEW r \in Requests, NEW k \in Keys, Refuse(r, k)
    PROVE  /\ RequestsInv' /\ OthersStay(r)
           /\ req'[r].pc = "refused" /\ req'[r].key = k /\ req'[r].step = req[r].step
           /\ \A st : \A s \in Requests : Refused(s, st) => s = r /\ st = req[r].step
<1> DEFINE q == At("refused", req[r].step, k)
<1>1. q \in RequestState
  <2>1. req[r].step \in Steps \cup {Null}
    BY DEF RequestsInv, RequestState
  <2> QED BY <2>1, AtIs
<1>2. RequestFits(q)
  BY DEF RequestFits, At
<1>3. RequestsInv' /\ req'[r] = q /\ OthersStay(r)
  BY <1>1, <1>2, Moved DEF Refuse
<1>4. req'[r].pc = "refused" /\ req'[r].key = k /\ req'[r].step = req[r].step
  BY <1>3 DEF At
<1>5. \A st : Refused(r, st) => st = req[r].step
  BY <1>4 DEF Refused, At
<1> QED BY <1>3, <1>4, <1>5, OthersAreNotRefused

\* All that a step of a login does, under the row that is then cached.
LEMMA HandleKeeps ==
    ASSUME TimeOK, RatesInv, AttemptsInv, RequestsInv, now' = now, NEW r \in Requests,
           req[r].pc \in {"policy", "reading"}, NEW row \in Policies \cup {Null},
           cfg'.row = row, Handle(r, row)
    PROVE  /\ RatesInv' /\ AttemptsInv' /\ RequestsInv'
           /\ OthersStay(r) /\ req'[r].pc # "reading"
           /\ \A s \in Requests : RefusalIsDue(s) /\ PassIsDue(s)
           /\ \A k \in Keys : CountIsDue(k)
<1> DEFINE rpm == Effective(row).rpm
<1>1. req[r].step = "limit" \/ (req[r].step \in {"check", "token", "record"} /\ req[r].key \in Keys)
  BY DEF RequestsInv, RequestFits
<1>2. rates' = rates /\ window' = window => RatesInv' /\ \A k \in Keys : CountIsDue(k)
  <2>1. ASSUME rates' = rates, window' = window PROVE \A k \in Keys : CountIsDue(k)
    <3>1. \A k \in Keys : window[k].count \in Nat
      BY DEF RatesInv
    <3> QED BY <2>1, <3>1 DEF CountIsDue
  <2>2. ASSUME rates' = rates, window' = window PROVE RatesInv'
    BY <2>2 DEF RatesInv, WindowFits, Live
  <2> QED BY <2>1, <2>2
<1>3. attempts' = attempts /\ lockout' = lockout => AttemptsInv'
  BY DEF AttemptsInv, LockoutFits
<1>4. ASSUME OthersStay(r), \A st : \A s \in Requests : ~Refused(s, st),
             req[r].step # "check" \/ req'[r].step # "token"
      PROVE  \A s \in Requests : RefusalIsDue(s) /\ PassIsDue(s)
  BY <1>4 DEF RefusalIsDue, PassIsDue, OthersStay
<1>5. CASE req[r].step = "limit"
  <2>1. PICK k \in Keys : Limit(r, row, k)
    BY <1>5 DEF Handle
  <2>2. /\ RatesInv' /\ Admitted(rpm)
        /\ \/ GoTo(r, "check", k) \/ End(r)
           \/ Refuse(r, k) /\ LimitRefusesDuly(k, rpm)
    BY <2>1, LimitKeeps
  <2>3. AttemptsInv'
    BY <1>3, <2>1 DEF Limit
  <2>4. \A j \in Keys : CountIsDue(j)
    BY <2>2 DEF CountIsDue, Admitted
  <2>5. CASE GoTo(r, "check", k)
    BY <1>4, <1>5, <2>2, <2>3, <2>4, <2>5, GoesOn
  <2>6. CASE End(r)
    BY <1>4, <1>5, <2>2, <2>3, <2>4, <2>6, Ends
  <2>7. CASE Refuse(r, k) /\ LimitRefusesDuly(k, rpm)
    <3>1. /\ RequestsInv' /\ OthersStay(r)
          /\ req'[r].pc = "refused" /\ req'[r].key = k /\ req'[r].step = "limit"
          /\ \A st : \A s \in Requests : Refused(s, st) => s = r /\ st = "limit"
      BY <1>5, <2>7, Refuses
    <3>2. \A s \in Requests : RefusalIsDue(s)
      BY <2>7, <3>1 DEF RefusalIsDue, LimitRefusesDuly
    <3>3. \A s \in Requests : PassIsDue(s)
      BY <1>5, <3>1 DEF PassIsDue, OthersStay
    <3> QED BY <2>2, <2>3, <2>4, <3>1, <3>2, <3>3
  <2> QED BY <2>2, <2>5, <2>6, <2>7
<1>6. CASE req[r].step = "check" /\ req[r].key \in Keys
  <2> DEFINE k == req[r].key
  <2>1. Check(r, row, k)
    BY <1>6 DEF Handle
  <2>2. /\ AttemptsInv'
        /\ \/ GoTo(r, "token", k) /\ (Effective(row).protect => lockout[k] <= now)
           \/ Refuse(r, k) /\ lockout[k] > now
    BY <1>6, <2>1, CheckKeeps
  <2>3. RatesInv' /\ \A j \in Keys : CountIsDue(j)
    BY <1>2, <2>1 DEF Check
  <2>4. CASE GoTo(r, "token", k) /\ (Effective(row).protect => lockout[k] <= now)
    <3>1. /\ RequestsInv' /\ OthersStay(r) /\ req'[r].pc = "policy"
          /\ \A st : \A s \in Requests : ~Refused(s, st)
      BY <1>6, <2>4, GoesOn
    <3>2. \A s \in Requests : RefusalIsDue(s)
      BY <3>1 DEF RefusalIsDue
    <3>3. \A s \in Requests : PassIsDue(s)
      BY <2>4, <3>1 DEF PassIsDue, OthersStay
    <3> QED BY <2>2, <2>3, <3>1, <3>2, <3>3
  <2>5. CASE Refuse(r, k) /\ lockout[k] > now
    <3>1. /\ RequestsInv' /\ OthersStay(r)
          /\ req'[r].pc = "refused" /\ req'[r].key = k /\ req'[r].step = "check"
          /\ \A st : \A s \in Requests : Refused(s, st) => s = r /\ st = "check"
      BY <1>6, <2>5, Refuses
    <3>2. \A s \in Requests : RefusalIsDue(s)
      BY <2>5, <3>1 DEF RefusalIsDue
    <3>3. \A s \in Requests : PassIsDue(s)
      BY <3>1 DEF PassIsDue, OthersStay
    <3> QED BY <2>2, <2>3, <3>1, <3>2, <3>3
  <2> QED BY <2>2, <2>4, <2>5
<1>7. CASE req[r].step = "token" /\ req[r].key \in Keys
  <2> DEFINE k == req[r].key
  <2>1. Token(r, row, k)
    BY <1>7 DEF Handle
  <2>2. AttemptsInv' /\ (GoTo(r, "record", k) \/ End(r))
    BY <1>7, <2>1, TokenKeeps
  <2>3. RatesInv' /\ \A j \in Keys : CountIsDue(j)
    BY <1>2, <2>1 DEF Token
  <2>4. CASE GoTo(r, "record", k)
    BY <1>4, <1>7, <2>2, <2>3, <2>4, GoesOn
  <2>5. CASE End(r)
    BY <1>4, <1>7, <2>2, <2>3, <2>5, Ends
  <2> QED BY <2>2, <2>4, <2>5
<1>8. CASE req[r].step = "record" /\ req[r].key \in Keys
  <2> DEFINE k == req[r].key
  <2>1. Record(r, row, k)
    BY <1>8 DEF Handle
  <2>2. /\ AttemptsInv'
        /\ \/ End(r)
           \/ Refuse(r, k) /\ Cardinality(Live(attempts, now) \ {k}) >= MaxEntries
    BY <1>8, <2>1, RecordKeeps
  <2>3. RatesInv' /\ \A j \in Keys : CountIsDue(j)
    BY <1>2, <2>1 DEF Record
  <2>4. CASE End(r)
    BY <1>4, <1>8, <2>2, <2>3, <2>4, Ends
  <2>5. CASE Refuse(r, k) /\ Cardinality(Live(attempts, now) \ {k}) >= MaxEntries
    <3>1. /\ RequestsInv' /\ OthersStay(r)
          /\ req'[r].pc = "refused" /\ req'[r].key = k /\ req'[r].step = "record"
          /\ \A st : \A s \in Requests : Refused(s, st) => s = r /\ st = "record"
      BY <1>8, <2>5, Refuses
    <3>2. \A s \in Requests : RefusalIsDue(s)
      BY <2>5, <3>1 DEF RefusalIsDue
    <3>3. \A s \in Requests : PassIsDue(s)
      BY <1>8, <3>1 DEF PassIsDue, OthersStay
    <3> QED BY <2>2, <2>3, <3>1, <3>2, <3>3
  <2> QED BY <2>2, <2>4, <2>5
<1> QED BY <1>1, <1>5, <1>6, <1>7, <1>8

(***************************************************************************)
(* The steps of the system: each keeps the invariant and does only what    *)
(* is due.                                                                 *)
(***************************************************************************)

AllIsDue ==
    /\ \A r \in Requests : RefusalIsDue(r) /\ PassIsDue(r)
    /\ \A k \in Keys : CountIsDue(k)

LEMMA IdleRequests ==
    ASSUME req' = req PROVE \A r \in Requests : RefusalIsDue(r) /\ PassIsDue(r)
BY DEF RefusalIsDue, PassIsDue, Refused, At

LEMMA IdleWindows ==
    ASSUME RatesInv, window' = window PROVE \A k \in Keys : CountIsDue(k)
<1>1. \A k \in Keys : window[k].count \in Nat
  BY DEF RatesInv
<1> QED BY <1>1 DEF CountIsDue

LEMMA IdleMaps ==
    ASSUME RatesInv, AttemptsInv, now' = now, UNCHANGED <<rates, window, attempts, lockout>>
    PROVE  RatesInv' /\ AttemptsInv'
BY DEF RatesInv, AttemptsInv, WindowFits, LockoutFits, Live

\* The policies are as they were, and r reads none any more.
LEMMA SamePolicies ==
    ASSUME PolicyInv, NEW r \in Requests, OthersStay(r), req'[r].pc # "reading",
           UNCHANGED <<now, db, cfg, held, failedAt>>
    PROVE  PolicyInv'
<1>1. \A s \in Requests : req'[s].pc = "reading" => req'[s] = req[s]
  BY DEF OthersStay
<1> QED BY <1>1 DEF PolicyInv, PolicyIsFresh

LEMMA UseCachedKeeps ==
    ASSUME LoginInv, NEW r \in Requests, UseCached(r)
    PROVE  LoginInv' /\ AllIsDue
<1>1. /\ TimeOK /\ RatesInv /\ AttemptsInv /\ RequestsInv /\ PolicyInv /\ events \in 0..MaxEvents
      /\ req[r].pc = "policy" /\ Handle(r, cfg.row)
      /\ now' = now /\ db' = db /\ cfg' = cfg /\ events' = events /\ held' = held
      /\ failedAt' = failedAt
  BY DEF LoginInv, UseCached
<1>2. cfg.row \in Policies \cup {Null} /\ cfg'.row = cfg.row
  BY <1>1 DEF PolicyInv
<1>3. /\ RatesInv' /\ AttemptsInv' /\ RequestsInv'
      /\ OthersStay(r) /\ req'[r].pc # "reading"
      /\ \A s \in Requests : RefusalIsDue(s) /\ PassIsDue(s)
      /\ \A k \in Keys : CountIsDue(k)
  BY <1>1, <1>2, HandleKeeps
<1>4. TimeOK'
  BY <1>1 DEF TimeOK
<1>5. PolicyInv'
  BY <1>1, <1>3, SamePolicies
<1> QED BY <1>1, <1>3, <1>4, <1>5 DEF LoginInv, AllIsDue

LEMMA StartReadKeeps ==
    ASSUME LoginInv, NEW r \in Requests, StartRead(r)
    PROVE  LoginInv' /\ AllIsDue
<1> DEFINE q == [req[r] EXCEPT !.pc = "reading", !.asked = now, !.row = db]
<1>1. /\ TimeOK /\ RatesInv /\ AttemptsInv /\ RequestsInv /\ PolicyInv /\ events \in 0..MaxEvents
      /\ req[r].pc = "policy" /\ req' = [req EXCEPT ![r] = q]
      /\ UNCHANGED <<now, db, cfg, attempts, rates, events, held, failedAt, lockout, window>>
  BY DEF LoginInv, StartRead, history
<1>2. req[r] \in RequestState /\ RequestFits(req[r])
  BY <1>1 DEF RequestsInv
<1>3. /\ q \in RequestState
      /\ q.pc = "reading" /\ q.asked = now /\ q.row = db /\ q.step = req[r].step /\ q.key = req[r].key
  BY <1>1, <1>2 DEF RequestState, TimeOK, PolicyInv
<1> HIDE DEF q
<1>4. RequestFits(q)
  BY <1>1, <1>2, <1>3 DEF RequestFits
<1>5. RequestsInv' /\ req'[r] = q /\ OthersStay(r)
  BY <1>1, <1>3, <1>4, Moved
<1>6. RatesInv' /\ AttemptsInv' /\ TimeOK'
  BY <1>1, IdleMaps DEF TimeOK
<1>7. PolicyInv'
  <2>1. held[db] >= now
    BY <1>1 DEF PolicyInv, TimeOK
  <2>2. \A s \in Requests : req'[s].pc = "reading" => held'[req'[s].row] >= req'[s].asked
    BY <1>1, <1>3, <1>5, <2>1 DEF OthersStay, PolicyInv
  <2> QED BY <1>1, <2>2 DEF PolicyInv, PolicyIsFresh
<1>8. \A s \in Requests : RefusalIsDue(s) /\ PassIsDue(s)
  <2>1. \A s \in Requests, st \in Steps : ~Refused(s, st)
    BY <1>3, <1>5 DEF Refused, At, OthersStay
  <2>2. \A s \in Requests : req'[s].step = req[s].step
    BY <1>3, <1>5 DEF OthersStay
  <2> QED BY <2>1, <2>2 DEF RefusalIsDue, PassIsDue, Steps
<1> QED BY <1>1, <1>5, <1>6, <1>7, <1>8, IdleWindows DEF LoginInv, AllIsDue

LEMMA ReadReturnsKeeps ==
    ASSUME LoginInv, NEW r \in Requests, ReadReturns(r)
    PROVE  LoginInv' /\ AllIsDue
<1>1. /\ TimeOK /\ RatesInv /\ AttemptsInv /\ RequestsInv /\ PolicyInv /\ events \in 0..MaxEvents
      /\ req[r].pc = "reading" /\ Handle(r, req[r].row)
      /\ cfg' = [row |-> req[r].row, expires |-> req[r].asked + CacheTime]
      /\ now' = now /\ db' = db /\ events' = events /\ held' = held /\ failedAt' = failedAt
  BY DEF LoginInv, ReadReturns, FreshUntil
<1>2. req[r].row \in Policies \cup {Null} /\ req[r].asked \in Nat
  BY <1>1 DEF RequestsInv, RequestState
<1>3. cfg'.row = req[r].row /\ cfg'.expires = req[r].asked + CacheTime
  BY <1>1
<1>4. /\ RatesInv' /\ AttemptsInv' /\ RequestsInv'
      /\ OthersStay(r) /\ req'[r].pc # "reading"
      /\ \A s \in Requests : RefusalIsDue(s) /\ PassIsDue(s)
      /\ \A k \in Keys : CountIsDue(k)
  BY <1>1, <1>2, <1>3, HandleKeeps
<1>5. TimeOK'
  BY <1>1 DEF TimeOK
<1>6. PolicyInv'
  <2>1. req[r].asked + CacheTime \in Nat /\ CacheTime \in Nat
    BY <1>2, Numbers
  <2>2. cfg' \in [row : Policies \cup {Null}, expires : Nat]
    BY <1>1, <1>2, <2>1
  <2>3. held[req[r].row] \in Nat /\ held[req[r].row] >= req[r].asked
    BY <1>1, <1>2 DEF PolicyInv
  <2>4. held'[cfg'.row] + CacheTime >= cfg'.expires
    BY <1>1, <1>2, <1>3, <2>1, <2>3
  <2>5. \A s \in Requests : req'[s].pc = "reading" => req'[s] = req[s]
    BY <1>4 DEF OthersStay
  <2> QED BY <1>1, <2>2, <2>4, <2>5 DEF PolicyInv, PolicyIsFresh
<1> QED BY <1>1, <1>4, <1>5, <1>6 DEF LoginInv, AllIsDue

LEMMA ReadFailsKeeps ==
    ASSUME LoginInv, NEW r \in Requests, ReadFails(r)
    PROVE  LoginInv' /\ AllIsDue
<1>1. /\ TimeOK /\ RatesInv /\ AttemptsInv /\ RequestsInv /\ PolicyInv /\ events \in 0..MaxEvents
      /\ req[r].pc = "reading" /\ Handle(r, cfg.row) /\ events < MaxEvents /\ events' = events + 1
      /\ cfg' = [cfg EXCEPT !.expires = req[r].asked + CacheTime]
      /\ failedAt' = IF failedAt > req[r].asked THEN failedAt ELSE req[r].asked
      /\ now' = now /\ db' = db /\ held' = held
  BY DEF LoginInv, ReadFails, FreshUntil
<1>2. req[r].asked \in Nat
  BY <1>1 DEF RequestsInv, RequestState
<1>3. /\ cfg'.row = cfg.row /\ cfg'.expires = req[r].asked + CacheTime
      /\ cfg.row \in Policies \cup {Null}
  BY <1>1 DEF PolicyInv
<1>4. /\ RatesInv' /\ AttemptsInv' /\ RequestsInv'
      /\ OthersStay(r) /\ req'[r].pc # "reading"
      /\ \A s \in Requests : RefusalIsDue(s) /\ PassIsDue(s)
      /\ \A k \in Keys : CountIsDue(k)
  BY <1>1, <1>3, HandleKeeps
<1>5. TimeOK' /\ events' \in 0..MaxEvents
  BY <1>1, Numbers DEF TimeOK
<1>6. PolicyInv'
  <2>1. req[r].asked + CacheTime \in Nat /\ CacheTime \in Nat
    BY <1>2, Numbers
  <2>2. cfg' \in [row : Policies \cup {Null}, expires : Nat]
    BY <1>1, <2>1 DEF PolicyInv
  <2>3. failedAt' \in Nat /\ failedAt' >= req[r].asked
    BY <1>1, <1>2 DEF PolicyInv
  <2>4. failedAt' + CacheTime >= cfg'.expires
    BY <1>2, <1>3, <2>1, <2>3
  <2>5. \A s \in Requests : req'[s].pc = "reading" => req'[s] = req[s]
    BY <1>4 DEF OthersStay
  <2> QED BY <1>1, <2>2, <2>3, <2>4, <2>5 DEF PolicyInv, PolicyIsFresh
<1> QED BY <1>4, <1>5, <1>6 DEF LoginInv, AllIsDue

LEMMA ChangePolicyKeeps ==
    ASSUME LoginInv, NEW p \in Policies, ChangePolicy(p)
    PROVE  LoginInv' /\ AllIsDue
<1>1. /\ TimeOK /\ RatesInv /\ AttemptsInv /\ RequestsInv /\ PolicyInv /\ events \in 0..MaxEvents
      /\ events < MaxEvents /\ events' = events + 1 /\ db' = p
      /\ held' = [held EXCEPT ![p] = now]
      /\ UNCHANGED <<now, cfg, attempts, rates, req, failedAt, lockout, window>>
  BY DEF LoginInv, ChangePolicy
<1>2. TimeOK' /\ events' \in 0..MaxEvents
  BY <1>1, Numbers DEF TimeOK
<1>3. RatesInv' /\ AttemptsInv'
  BY <1>1, IdleMaps
<1>4. RequestsInv'
  BY <1>1 DEF RequestsInv, RequestFits
<1>5. PolicyInv'
  <2>1. /\ now \in Nat /\ held \in [Policies \cup {Null} -> Nat]
        /\ \A x \in Policies \cup {Null} : held[x] <= now
    BY <1>1 DEF PolicyInv, TimeOK
  <2>2. /\ held' \in [Policies \cup {Null} -> Nat] /\ held'[p] = now
        /\ \A x \in Policies \cup {Null} : held'[x] <= now /\ held[x] <= held'[x]
    BY <1>1, <2>1
  <2>3. \A s \in Requests : req[s].row \in Policies \cup {Null} /\ req[s].asked \in Nat
    BY <1>1 DEF RequestsInv, RequestState
  <2>4. \A s \in Requests : req'[s].pc = "reading" => held'[req'[s].row] >= req'[s].asked
    <3>1. ASSUME NEW s \in Requests, req'[s].pc = "reading"
          PROVE  held'[req'[s].row] >= req'[s].asked
      <4>1. held[req[s].row] >= req[s].asked /\ req'[s] = req[s]
        BY <1>1, <3>1 DEF PolicyInv
      <4>2. held[req[s].row] \in Nat /\ held'[req[s].row] \in Nat
            /\ held[req[s].row] <= held'[req[s].row]
        BY <2>1, <2>2, <2>3
      <4> QED BY <2>3, <4>1, <4>2
    <3> QED BY <3>1
  <2>5. PolicyIsFresh'
    <3>1. cfg.row \in Policies \cup {Null} /\ cfg.expires \in Nat /\ failedAt \in Nat /\ PolicyIsFresh
      BY <1>1 DEF PolicyInv
    <3>2. held[cfg.row] \in Nat /\ held'[cfg.row] \in Nat /\ held[cfg.row] <= held'[cfg.row]
      BY <2>1, <2>2, <3>1
    <3> QED BY <1>1, <3>1, <3>2, Numbers DEF PolicyIsFresh
  <2> QED BY <1>1, <2>2, <2>4, <2>5 DEF PolicyInv
<1> QED BY <1>1, <1>2, <1>3, <1>4, <1>5, IdleRequests, IdleWindows DEF LoginInv, AllIsDue

LEMMA TickKeeps ==
    ASSUME LoginInv, Tick
    PROVE  LoginInv' /\ AllIsDue
<1>1. /\ TimeOK /\ RatesInv /\ AttemptsInv /\ RequestsInv /\ PolicyInv /\ events \in 0..MaxEvents
      /\ now < MaxTime /\ now' = now + 1
      /\ held' = [held EXCEPT ![db] = now']
      /\ window' = [k \in Keys |->
                      IF window[k].from + Window <= now' THEN Closed ELSE window[k]]
      /\ UNCHANGED <<db, cfg, attempts, rates, req, events, failedAt, lockout>>
  BY DEF LoginInv, Tick
<1>2. TimeOK' /\ now' \in Nat /\ now < now'
  BY <1>1, Numbers DEF TimeOK
<1>3. /\ now \in Nat /\ Window \in Nat
      /\ window \in [Keys -> [from : Nat, count : Nat]]
      /\ \A k \in DOMAIN rates.entries : rates.entries[k].expiresAt \in Nat
  BY <1>1, Numbers DEF TimeOK, RatesInv, GoodMap
<1>4. window' \in [Keys -> [from : Nat, count : Nat]]
  BY <1>1, <1>3 DEF Closed
<1>5. RatesInv'
  <2>1. ASSUME NEW k \in Keys PROVE WindowFits(k)'
    <3>1. WindowFits(k)
      BY <1>1 DEF RatesInv
    <3>2. window'[k] = IF window[k].from + Window <= now' THEN Closed ELSE window[k]
      BY <1>1
    <3>3. window[k].from \in Nat
      BY <1>3
    <3>4. CASE k \in Live(rates, now)
      <4>1. /\ k \in DOMAIN rates.entries
            /\ rates.entries[k].expiresAt = window[k].from + Window
        BY <3>1, <3>4 DEF WindowFits, Live
      <4>2. k \in Live(rates, now)' <=> ~(window[k].from + Window <= now')
        BY <1>1, <1>2, <1>3, <3>3, <4>1 DEF Live
      <4> QED BY <1>1, <3>1, <3>2, <3>4, <4>2 DEF WindowFits
    <3>5. CASE k \notin Live(rates, now)
      <4>1. window[k] = Closed /\ window'[k] = Closed
        BY <3>1, <3>2, <3>5 DEF WindowFits
      <4>2. k \notin Live(rates, now)'
        BY <1>1, <1>2, <1>3, <3>5 DEF Live
      <4> QED BY <4>1, <4>2 DEF WindowFits
    <3> QED BY <3>4, <3>5
  <2>2. GoodMap(rates, Nat)'
    BY <1>1 DEF RatesInv, GoodMap
  <2> QED BY <1>4, <2>1, <2>2 DEF RatesInv
<1>6. AttemptsInv'
  <2>1. \A k \in Keys : lockout[k] \in Nat /\ (lockout[k] > now' => lockout[k] > now)
    BY <1>1, <1>2, <1>3 DEF AttemptsInv
  <2>2. GoodMap(attempts, Failures)'
    BY <1>1 DEF AttemptsInv, GoodMap
  <2> QED BY <1>1, <2>1, <2>2 DEF AttemptsInv, LockoutFits
<1>7. RequestsInv'
  BY <1>1 DEF RequestsInv, RequestFits
<1>8. PolicyInv'
  <2>1. /\ held \in [Policies \cup {Null} -> Nat] /\ db \in Policies
        /\ \A x \in Policies \cup {Null} : held[x] <= now
    BY <1>1 DEF PolicyInv
  <2>2. /\ held' \in [Policies \cup {Null} -> Nat] /\ held'[db] = now'
        /\ \A x \in Policies \cup {Null} : held'[x] <= now' /\ held[x] <= held'[x]
    BY <1>1, <1>2, <1>3, <2>1
  <2>3. \A s \in Requests : req[s].row \in Policies \cup {Null} /\ req[s].asked \in Nat
    BY <1>1 DEF RequestsInv, RequestState
  <2>4. \A s \in Requests : req'[s].pc = "reading" => held'[req'[s].row] >= req'[s].asked
    <3>1. ASSUME NEW s \in Requests, req'[s].pc = "reading"
          PROVE  held'[req'[s].row] >= req'[s].asked
      <4>1. held[req[s].row] >= req[s].asked /\ req'[s] = req[s]
        BY <1>1, <3>1 DEF PolicyInv
      <4>2. held[req[s].row] \in Nat /\ held'[req[s].row] \in Nat
            /\ held[req[s].row] <= held'[req[s].row]
        BY <2>1, <2>2, <2>3
      <4> QED BY <2>3, <4>1, <4>2
    <3> QED BY <3>1
  <2>5. PolicyIsFresh'
    <3>1. cfg.row \in Policies \cup {Null} /\ cfg.expires \in Nat /\ failedAt \in Nat /\ PolicyIsFresh
      BY <1>1 DEF PolicyInv
    <3>2. held[cfg.row] \in Nat /\ held'[cfg.row] \in Nat /\ held[cfg.row] <= held'[cfg.row]
      BY <2>1, <2>2, <3>1
    <3> QED BY <1>1, <1>2, <1>3, <3>1, <3>2, Numbers DEF PolicyIsFresh
  <2>6. db' = db /\ cfg' = cfg /\ failedAt' = failedAt
        /\ cfg \in [row : Policies \cup {Null}, expires : Nat] /\ failedAt \in Nat
    BY <1>1 DEF PolicyInv
  <2> QED BY <2>1, <2>2, <2>4, <2>5, <2>6 DEF PolicyInv
<1>9. \A k \in Keys : CountIsDue(k)
  BY <1>1, <1>3 DEF CountIsDue, Closed
<1> QED BY <1>1, <1>2, <1>5, <1>6, <1>7, <1>8, <1>9, IdleRequests DEF LoginInv, AllIsDue

LEMMA StepKeeps ==
    ASSUME LoginInv, LoginNext PROVE LoginInv' /\ AllIsDue
BY UseCachedKeeps, StartReadKeeps, ReadReturnsKeeps, ReadFailsKeeps, ChangePolicyKeeps, TickKeeps
   DEF LoginNext

LEMMA StutterKeeps ==
    ASSUME LoginInv, UNCHANGED loginVars PROVE LoginInv'
<1>1. /\ TimeOK /\ RatesInv /\ AttemptsInv /\ RequestsInv /\ PolicyInv /\ events \in 0..MaxEvents
      /\ UNCHANGED <<now, db, cfg, attempts, rates, req, events, held, failedAt, lockout, window>>
  BY DEF LoginInv, loginVars, history
<1>2. RatesInv' /\ AttemptsInv'
  BY <1>1, IdleMaps
<1>3. TimeOK' /\ RequestsInv' /\ PolicyInv' /\ events' \in 0..MaxEvents
  BY <1>1 DEF TimeOK, RequestsInv, RequestFits, PolicyInv, PolicyIsFresh
<1> QED BY <1>2, <1>3 DEF LoginInv

LEMMA LoginStarts == LoginInit => LoginInv
<1> SUFFICES ASSUME LoginInit PROVE LoginInv
  OBVIOUS
<1>1. TimeOK /\ events \in 0..MaxEvents
  BY LoginAssumption DEF LoginInit, TimeOK
<1>2. Live(EmptyMap, now) = {} /\ DOMAIN EmptyMap.entries = {}
  BY EmptyMapIsGood DEF Live
<1>3. RatesInv
  <2>1. GoodMap(rates, Nat) /\ Live(rates, now) = {}
    BY <1>2, EmptyMapIsGood DEF LoginInit
  <2>2. window \in [Keys -> [from : Nat, count : Nat]] /\ \A k \in Keys : window[k] = Closed
    BY DEF LoginInit, Closed
  <2> QED BY <2>1, <2>2 DEF RatesInv, WindowFits
<1>4. AttemptsInv
  <2>1. GoodMap(attempts, Failures) /\ DOMAIN attempts.entries = {}
    BY <1>2, EmptyMapIsGood DEF LoginInit
  <2>2. lockout \in [Keys -> Nat] /\ \A k \in Keys : ~(lockout[k] > now)
    BY <1>1 DEF LoginInit, TimeOK
  <2> QED BY <2>1, <2>2 DEF AttemptsInv, LockoutFits
<1>5. Arrived \in RequestState /\ RequestFits(Arrived) /\ Arrived.pc = "policy"
  <2>1. 0 \in Nat /\ Null \in Policies \cup {Null}
    OBVIOUS
  <2> QED BY <2>1 DEF Arrived, RequestState, RequestFits, Steps
<1>6. RequestsInv /\ \A r \in Requests : req[r].pc = "policy"
  BY <1>5 DEF LoginInit, RequestsInv
<1>7. PolicyInv
  <2>1. /\ held \in [Policies \cup {Null} -> Nat] /\ held[db] = now
        /\ \A p \in Policies \cup {Null} : held[p] <= now
    BY <1>1 DEF LoginInit, TimeOK
  <2>2. cfg \in [row : Policies \cup {Null}, expires : Nat] /\ cfg.expires = 0
    BY DEF LoginInit
  <2> QED BY <1>1, <1>6, <2>1, <2>2 DEF LoginInit, PolicyInv, PolicyIsFresh, TimeOK
<1> QED BY <1>1, <1>3, <1>4, <1>6, <1>7 DEF LoginInv

LEMMA LoginInvHolds == LoginSpec => []LoginInv
<1>1. LoginInv /\ [LoginNext]_loginVars => LoginInv'
  BY StepKeeps, StutterKeeps
<1> QED BY <1>1, LoginStarts, PTL DEF LoginSpec

(***************************************************************************)
(* The theorems.                                                           *)
(***************************************************************************)

\* The two maps stay within their capacity, every variable has its type, and
\* the policy served from the cache was in force, or failed to be read, less
\* than the cache time ago, however the reads of it overlap
\* (BoundedExpiringMap, getActiveSecurityConfig).
THEOREM MemoryIsBoundedAndFresh == LoginSpec => []LoginInvariant
<1>1. LoginInv => LoginInvariant
  <2> SUFFICES ASSUME LoginInv PROVE LoginInvariant
    OBVIOUS
  <2>1. BoundedMap(rates, Nat) /\ BoundedMap(attempts, Failures)
    BY DEF LoginInv, RatesInv, AttemptsInv, GoodMap, BoundedMap
  <2> QED BY <2>1 DEF LoginInv, LoginInvariant, LoginTypeOK, TimeOK, RatesInv, AttemptsInv,
                      RequestsInv, RequestState, PolicyInv
<1> QED BY <1>1, LoginInvHolds, PTL

\* Every reply 429 of the administration API has its reason in what happened:
\* the window used up, the lockout not over, or a map full of entries none of
\* which is over (consumeRateLimit, loginLocked, recordLoginFailure).
THEOREM EveryRefusalIsDue == LoginSpec => RefusalsAreDue
<1>1. LoginInv /\ [LoginNext]_loginVars => [\A r \in Requests : RefusalIsDue(r)]_loginVars
  BY StepKeeps DEF AllIsDue
<1> QED BY <1>1, LoginInvHolds, PTL DEF LoginSpec, RefusalsAreDue

\* Nobody gets past the limit of a window, nor past a lockout that is not over
\* while the policy protects (consumeRateLimit, loginLocked).
THEOREM EveryAdmissionIsDue == LoginSpec => AdmissionsAreDue
<1>1. LoginInv /\ [LoginNext]_loginVars =>
        [(\A k \in Keys : CountIsDue(k)) /\ (\A r \in Requests : PassIsDue(r))]_loginVars
  BY StepKeeps DEF AllIsDue
<1> QED BY <1>1, LoginInvHolds, PTL DEF LoginSpec, AdmissionsAreDue

(***************************************************************************)
(* The account center: its inductive invariant.                            *)
(***************************************************************************)

OnItsWay(q) == q.pc \notin {"idle", "done", "failed"}

\* The change may be performed, once more if a reply or an answer was wrong.
MayPerform(q) ==
    \/ q.pc = "idle"
    \/ /\ q.step = "change"
       /\ \/ q.pc \in {"account", "challenge", "change", "delete", "refreshing"}
          \/ q.pc = "replied" /\ q.reply = "401"

IsPerformed(r) == done[r] >= 1 \/ click[r].change = "remove"

\* What holds of a request wherever it is: the list is read only after the
\* change, a second attempt had a reason, and an upgrade is an excuse.
Standing(r) ==
    LET q == click[r]
    IN  /\ OnItsWay(q) => q.token # 0
        /\ q.step = "list" => audited[r] >= 1 /\ IsPerformed(r) /\ q.change # "delete"
        /\ OnItsWay(q) /\ q.retried =>
             revoked \/ excuse \/ misled[r] > 0 \/ \E t \in Expired : t # q.token
        /\ q.upgrade # 0 => excuse
        /\ done[r] <= 1 + lost[r] + misled[r]

\* What a request that was refused can say for it.
RefusalFits(r) ==
    LET q == click[r]
    IN  /\ q.pc = "refreshing" \/ (q.pc = "replied" /\ q.reply = "401") =>
             misled[r] > 0 \/ q.token \notin live
        /\ q.pc = "replied" /\ q.reply = "401" /\ q.retried => revoked \/ excuse \/ TwoMishaps
        /\ q.pc = "replied" /\ q.reply = "banned" => revoked

\* What has happened when a request is where it is.
Place(r) ==
    LET q == click[r]
    IN  /\ q.pc \in {"challenge", "change", "delete", "audit"} => q.step = "change"
        /\ q.pc \in {"challenge", "change"} => q.change # "delete"
        /\ q.pc = "items" \/ (q.pc = "replied" /\ q.reply = "listed") => q.step = "list"
        /\ MayPerform(q) => done[r] <= lost[r] + misled[r]
        /\ q.pc = "audit" => IsPerformed(r) /\ (q.change = "delete" => revoked)
        /\ q.pc = "replied" /\ q.reply = "ok" =>
             /\ audited[r] >= 1 /\ IsPerformed(r)
             /\ q.change = "delete" => revoked
             /\ q.step = "list" => ~item
        /\ q.pc = "done" =>
             audited[r] >= 1 /\ (IF q.change = "remove" THEN ~item ELSE done[r] >= 1)

WayFits(r) == Standing(r) /\ RefusalFits(r) /\ Place(r)

\* As long as GoTrue has not rotated the token behind the browser, the browser
\* has the last one, or a refresh is about to bring it.
TokensFit ==
    ~excuse =>
        /\ session # 0 => session = issued \/ refresh.answer = issued
        /\ refresh # NoRefresh /\ refresh.answer = None => refresh.token = issued
        /\ refresh.answer \notin {None, 0} =>
             /\ refresh.answer = issued /\ session # issued
             /\ \A r \in Clicks : click[r].token # issued

SessionInv ==
    /\ TokensFit /\ SessionSurvives
    /\ refresh.answer = 0 => revoked \/ excuse
    /\ revoked => live = {}

CenterInv == CenterTypeOK /\ SessionInv /\ \A r \in Clicks : WayFits(r)

(***************************************************************************)
(* What is never taken back, and what another request's step leaves true.  *)
(***************************************************************************)

Onward ==
    /\ issued <= issued' /\ Expired \subseteq Expired' /\ Misled \subseteq Misled'
    /\ \A t \in 0..issued : t \in live' => t \in live
    /\ (revoked => revoked') /\ (excuse => excuse') /\ (~item => ~item')
    /\ \A r \in Clicks :
         misled[r] <= misled'[r] /\ done[r] <= done'[r] /\ audited[r] <= audited'[r]

\* All but r.
Rest(r) ==
    \A s \in Clicks \ {r} :
        /\ click'[s] = click[s] /\ done'[s] = done[s] /\ lost'[s] = lost[s]
        /\ misled'[s] = misled[s] /\ audited'[s] = audited[s]

LEMMA GhostTypes ==
    ASSUME CenterTypeOK, NEW r \in Clicks
    PROVE  done[r] \in Nat /\ lost[r] \in Nat /\ misled[r] \in Nat /\ audited[r] \in Nat
BY DEF CenterTypeOK

LEMMA ClickType ==
    ASSUME CenterTypeOK, NEW r \in Clicks
    PROVE  /\ click[r] \in Way /\ issued \in Nat
           /\ click[r].token \in 0..issued /\ click[r].upgrade \in 0..issued
           /\ click[r].retried \in BOOLEAN
BY DEF CenterTypeOK, Way

LEMMA MishapsStay ==
    ASSUME CenterTypeOK, CenterTypeOK', Onward, TwoMishaps PROVE TwoMishaps'
<1>1. Expired \subseteq Expired' /\ Misled \subseteq Misled' /\ Misled' \subseteq Clicks
      /\ Misled \subseteq Clicks
  BY DEF Onward, Misled
<1>2. \A r \in Misled : misled[r] > 1 => misled'[r] > 1
  <2>1. \A r \in Clicks : misled[r] \in Nat /\ misled'[r] \in Nat /\ misled[r] <= misled'[r]
    BY DEF CenterTypeOK, Onward
  <2> QED BY <1>1, <2>1
<1> QED BY <1>1, <1>2, Zenon DEF TwoMishaps

LEMMA OthersFit ==
    ASSUME CenterTypeOK, CenterTypeOK', Onward, NEW s \in Clicks, WayFits(s),
           click'[s] = click[s], done'[s] = done[s], lost'[s] = lost[s],
           misled'[s] = misled[s], audited'[s] = audited[s]
    PROVE  WayFits(s)'
<1>1. /\ (revoked => revoked') /\ (excuse => excuse') /\ (~item => ~item')
      /\ Expired \subseteq Expired'
  BY DEF Onward
<1>2. TwoMishaps => TwoMishaps'
  BY MishapsStay
<1>3. click[s].token \notin live => click[s].token \notin live'
  BY ClickType DEF Onward
<1>4. Standing(s)'
  BY <1>1 DEF WayFits, Standing, IsPerformed
<1>5. RefusalFits(s)'
  BY <1>1, <1>2, <1>3 DEF WayFits, RefusalFits
<1>6. Place(s)'
  BY <1>1 DEF WayFits, Place, IsPerformed
<1> QED BY <1>4, <1>5, <1>6 DEF WayFits

\* One request moves.
LEMMA OneMoves ==
    ASSUME CenterInv, CenterTypeOK', Onward, NEW r \in Clicks, Rest(r), SessionInv', WayFits(r)'
    PROVE  CenterInv'
<1>1. \A s \in Clicks \ {r} : WayFits(s)'
  BY OthersFit DEF CenterInv, Rest
<1> QED BY <1>1 DEF CenterInv

\* A step that starts and ends no refresh.
LEMMA SessionStays ==
    ASSUME CenterTypeOK, CenterTypeOK', SessionInv, Onward, refresh' = refresh,
           session' = session \/ excuse' \/ (session' = 0 /\ (revoked' \/ TwoMishaps')),
           issued' = issued \/ excuse',
           revoked' => live' = {},
           excuse' \/ \A s \in Clicks : click'[s].token \in {click[s].token, session, 0}
    PROVE  SessionInv'
<1>1. (excuse => excuse') /\ (revoked => revoked') /\ (TwoMishaps => TwoMishaps')
  BY MishapsStay DEF Onward
<1>2. TokensFit'
  BY DEF SessionInv, TokensFit, Onward
<1>3. SessionSurvives'
  BY <1>1 DEF SessionInv, SessionSurvives, Onward
<1> QED BY <1>2, <1>3 DEF SessionInv, Onward

(***************************************************************************)
(* What the page and the routes make of a request.                         *)
(***************************************************************************)

LEMMA IdleIs ==
    ASSUME CenterTypeOK
    PROVE  /\ Idle \in Way /\ Idle.step = "change" /\ Idle.token = 0 /\ ~Idle.retried
           /\ Idle.upgrade = 0 /\ Idle.change = None /\ Idle.pc = "idle"
<1>1. 0 \in 0..issued /\ 0 \in 0..Bases
  BY CenterAssumption DEF CenterTypeOK
<1> QED BY <1>1 DEF Way, Idle

LEMMA FailedIs ==
    ASSUME CenterTypeOK
    PROVE  /\ Failed \in Way /\ Failed.pc = "failed" /\ Failed.step = "change"
           /\ Failed.token = 0 /\ ~Failed.retried /\ Failed.upgrade = 0
BY IdleIs DEF Way, Failed

LEMMA ReportedIs ==
    ASSUME CenterTypeOK, NEW q \in Way
    PROVE  /\ Reported(q) \in Way /\ Reported(q).pc = "done" /\ Reported(q).step = "change"
           /\ Reported(q).change = q.change
           /\ Reported(q).token = 0 /\ ~Reported(q).retried /\ Reported(q).upgrade = 0
<1>1. q.change \in Changes \cup {None}
  BY DEF Way
<1> QED BY <1>1, IdleIs DEF Way, Reported

LEMMA SentIs ==
    ASSUME CenterTypeOK, NEW q \in Way, NEW token \in 0..issued
    PROVE  /\ Sent(q, token) \in Way /\ Sent(q, token).pc = "account"
           /\ Sent(q, token).step = q.step /\ Sent(q, token).change = q.change
           /\ Sent(q, token).token = token /\ Sent(q, token).retried = q.retried
           /\ Sent(q, token).upgrade = q.upgrade
<1>1. 1 \in 0..Bases
  BY CenterAssumption
<1> QED BY <1>1 DEF Way, Sent, AtGoTrue

LEMMA StartedIs ==
    ASSUME CenterTypeOK, NEW q \in Way, NEW step \in {"change", "list"},
           NEW stored \in 0..issued, stored # 0
    PROVE  /\ Started(q, step, stored) \in Way
           /\ Started(q, step, stored).pc = "account" /\ Started(q, step, stored).step = step
           /\ Started(q, step, stored).change = q.change
           /\ Started(q, step, stored).token = stored
           /\ ~Started(q, step, stored).retried
           /\ Started(q, step, stored).upgrade = q.upgrade
<1> DEFINE p == [q EXCEPT !.step = step, !.retried = FALSE]
<1>1. /\ p \in Way /\ p.step = step /\ ~p.retried /\ p.change = q.change
      /\ p.upgrade = q.upgrade
  BY DEF Way
<1>2. Started(q, step, stored) = Sent(p, stored)
  BY DEF Started
<1> HIDE DEF p
<1> QED BY <1>1, <1>2, SentIs

LEMMA RepliedIs ==
    ASSUME CenterTypeOK, NEW q \in Way, NEW reply \in {"ok", "listed", "401", "banned", "failed"}
    PROVE  /\ Replied(q, reply) \in Way /\ Replied(q, reply).pc = "replied"
           /\ Replied(q, reply).reply = reply
           /\ Replied(q, reply).step = q.step /\ Replied(q, reply).change = q.change
           /\ Replied(q, reply).token = q.token /\ Replied(q, reply).retried = q.retried
           /\ Replied(q, reply).upgrade = q.upgrade
<1>1. 0 \in 0..Bases
  BY CenterAssumption
<1> QED BY <1>1 DEF Way, Replied

LEMMA FaultTyped ==
    ASSUME CenterTypeOK, Fault PROVE faults' \in 0..MaxFaults
BY CenterAssumption DEF CenterTypeOK, Fault

(***************************************************************************)
(* Steps that change nothing but one request.                              *)
(***************************************************************************)

Calm == UNCHANGED <<session, refresh, gotrue, ghosts, excuse>>

LEMMA CalmIs ==
    ASSUME CenterInv, Calm, NEW r \in Clicks, NEW q \in Way, click' = [click EXCEPT ![r] = q],
           faults' \in 0..MaxFaults
    PROVE  /\ CenterTypeOK' /\ Onward /\ Rest(r) /\ click'[r] = q
           /\ done'[r] = done[r] /\ lost'[r] = lost[r] /\ misled'[r] = misled[r]
           /\ audited'[r] = audited[r]
           /\ TwoMishaps' = TwoMishaps /\ Expired' = Expired /\ live' = live /\ item' = item
           /\ revoked' = revoked /\ excuse' = excuse /\ session' = session
<1>1. /\ UNCHANGED <<session, refresh, item, deleted, live, issued, revoked, done, lost, misled,
                     audited, excuse>>
      /\ CenterTypeOK
  BY DEF Calm, gotrue, ghosts, CenterInv
<1>2. click' \in [Clicks -> Way] /\ click'[r] = q /\ \A s \in Clicks \ {r} : click'[s] = click[s]
  BY <1>1 DEF CenterTypeOK
<1>3. Way' = Way
  BY <1>1 DEF Way
<1>4. CenterTypeOK'
  BY <1>1, <1>2, <1>3 DEF CenterTypeOK
<1>5. Expired' = Expired /\ Misled' = Misled /\ TwoMishaps' = TwoMishaps
  BY <1>1 DEF Expired, Misled, TwoMishaps
<1>6. Onward
  <2>1. \A s \in Clicks : misled[s] <= misled[s] /\ done[s] <= done[s] /\ audited[s] <= audited[s]
    BY <1>1, GhostTypes
  <2>2. issued <= issued
    BY <1>1 DEF CenterTypeOK
  <2> QED BY <1>1, <1>5, <2>1, <2>2 DEF Onward
<1> QED BY <1>1, <1>2, <1>4, <1>5, <1>6 DEF Rest

LEMMA CalmMove ==
    ASSUME CenterInv, Calm, NEW r \in Clicks, NEW q \in Way, click' = [click EXCEPT ![r] = q],
           faults' \in 0..MaxFaults, q.token \in {click[r].token, session, 0}, WayFits(r)'
    PROVE  CenterInv'
<1>1. CenterTypeOK' /\ Onward /\ Rest(r) /\ click'[r] = q
  BY CalmIs
<1>2. refresh' = refresh /\ session' = session /\ issued' = issued /\ (revoked' => live' = {})
  BY DEF Calm, gotrue, CenterInv, SessionInv
<1>3. \A s \in Clicks : click'[s].token \in {click[s].token, session, 0}
  BY <1>1 DEF Rest
<1>4. SessionInv'
  BY <1>1, <1>2, <1>3, SessionStays DEF CenterInv
<1> QED BY <1>1, <1>4, OneMoves

LEMMA FailedFits ==
    ASSUME CenterTypeOK, NEW r \in Clicks, click'[r] = Failed,
           done'[r] <= 1 + lost'[r] + misled'[r]
    PROVE  WayFits(r)'
<1>1. /\ click'[r].pc = "failed" /\ click'[r].step = "change" /\ click'[r].upgrade = 0
  BY FailedIs
<1> QED BY <1>1 DEF WayFits, Standing, RefusalFits, Place, OnItsWay, MayPerform

\* The request stays the same request.
LEMMA StandingStays ==
    ASSUME CenterTypeOK, Onward, NEW r \in Clicks, Standing(r), OnItsWay(click[r]),
           click'[r].step = click[r].step, click'[r].change = click[r].change,
           click'[r].token = click[r].token, click'[r].retried = click[r].retried,
           click'[r].upgrade = click[r].upgrade \/ excuse',
           done'[r] <= 1 + lost'[r] + misled'[r], misled'[r] \in Nat, done'[r] \in Nat,
           audited'[r] \in Nat
    PROVE  Standing(r)'
<1>1. /\ misled[r] > 0 => misled'[r] > 0
      /\ done[r] >= 1 => done'[r] >= 1
      /\ audited[r] >= 1 => audited'[r] >= 1
  BY GhostTypes DEF Onward
<1> QED BY <1>1 DEF Standing, IsPerformed, Onward

LEMMA RepliedFailed ==
    ASSUME CenterTypeOK, Onward, NEW r \in Clicks, WayFits(r), OnItsWay(click[r]),
           click'[r] = Replied(click[r], "failed"), CenterTypeOK',
           done'[r] <= 1 + lost'[r] + misled'[r]
    PROVE  WayFits(r)'
<1>1. /\ click'[r].pc = "replied" /\ click'[r].reply = "failed"
      /\ click'[r].step = click[r].step /\ click'[r].change = click[r].change
      /\ click'[r].token = click[r].token /\ click'[r].retried = click[r].retried
      /\ click'[r].upgrade = click[r].upgrade
  BY RepliedIs, ClickType
<1>2. misled'[r] \in Nat /\ done'[r] \in Nat /\ audited'[r] \in Nat
  BY DEF CenterTypeOK
<1>3. Standing(r)'
  BY <1>1, <1>2, StandingStays DEF WayFits
<1> QED BY <1>1, <1>3 DEF WayFits, RefusalFits, Place, MayPerform

LEMMA BoundStays ==
    ASSUME CenterInv, NEW r \in Clicks
    PROVE  done[r] <= 1 + lost[r] + misled[r]
BY DEF CenterInv, WayFits, Standing

LEMMA ToFailed ==
    ASSUME CenterInv, Calm, NEW r \in Clicks, click' = [click EXCEPT ![r] = Failed],
           faults' \in 0..MaxFaults
    PROVE  CenterInv'
<1>1. CenterTypeOK /\ Failed \in Way /\ Failed.token = 0
  BY FailedIs DEF CenterInv
<1>2. /\ click'[r] = Failed /\ done'[r] = done[r] /\ lost'[r] = lost[r] /\ misled'[r] = misled[r]
  BY <1>1, CalmIs
<1>3. WayFits(r)'
  BY <1>1, <1>2, FailedFits, BoundStays
<1> QED BY <1>1, <1>3, CalmMove

LEMMA ToRepliedFailed ==
    ASSUME CenterInv, Calm, NEW r \in Clicks, OnItsWay(click[r]),
           click' = [click EXCEPT ![r] = Replied(click[r], "failed")], faults' \in 0..MaxFaults
    PROVE  CenterInv'
<1> DEFINE q == Replied(click[r], "failed")
<1>1. CenterTypeOK /\ WayFits(r) /\ click[r] \in Way
  BY ClickType DEF CenterInv
<1>2. q \in Way /\ q.token = click[r].token
  BY <1>1, RepliedIs
<1> HIDE DEF q
<1>3. /\ CenterTypeOK' /\ Onward /\ click'[r] = q
      /\ done'[r] = done[r] /\ lost'[r] = lost[r] /\ misled'[r] = misled[r]
  BY <1>2, CalmIs DEF q
<1>4. WayFits(r)'
  BY <1>1, <1>3, RepliedFailed, BoundStays DEF q
<1> QED BY <1>2, <1>4, CalmMove DEF q

LEMMA StartKeeps ==
    ASSUME CenterInv, NEW r \in Clicks, NEW change \in Changes, Start(r, change)
    PROVE  CenterInv'
<1> DEFINE p == [Idle EXCEPT !.change = change]
           q == Started(p, "change", session)
<1>1. /\ click[r].pc = "idle" /\ click' = [click EXCEPT ![r] = q]
      /\ Calm /\ faults' = faults
  BY DEF Start, Calm
<1>2. CenterTypeOK /\ session \in 0..issued /\ faults' \in 0..MaxFaults
  BY <1>1 DEF CenterInv, CenterTypeOK
<1>3. p \in Way /\ p.upgrade = 0
  BY <1>2, IdleIs DEF Way
<1> HIDE DEF p
<1>4. CASE session = 0
  <2>1. q = Failed
    BY <1>4 DEF Started
  <2> QED BY <1>1, <1>2, <2>1, ToFailed
<1>5. CASE session # 0
  <2>1. /\ q \in Way /\ q.pc = "account" /\ q.step = "change" /\ q.token = session
        /\ ~q.retried /\ q.upgrade = 0
    <3>1. "change" \in {"change", "list"}
      OBVIOUS
    <3> HIDE DEF q
    <3>2. q = Started(p, "change", session)
      BY DEF q
    <3> QED BY <1>2, <1>3, <1>5, <3>1, <3>2, StartedIs
  <2> HIDE DEF q
  <2>2. /\ click'[r] = q
        /\ done'[r] = done[r] /\ lost'[r] = lost[r] /\ misled'[r] = misled[r]
    BY <1>1, <1>2, <2>1, CalmIs
  <2>3. done[r] <= lost[r] + misled[r]
    BY <1>1 DEF CenterInv, WayFits, Place, MayPerform
  <2>4. WayFits(r)'
    BY <1>5, <2>1, <2>2, <2>3, BoundStays DEF WayFits, Standing, RefusalFits, Place
  <2> QED BY <1>1, <1>2, <2>1, <2>4, CalmMove
<1> QED BY <1>4, <1>5

\* The second attempt, with the token stored meanwhile.
LEMMA RetryWithStoredToken ==
    ASSUME CenterInv, NEW r \in Clicks, Calm, faults' = faults,
           click[r].pc = "replied", click[r].reply = "401",
           session # 0, session # click[r].token,
           click' = [click EXCEPT ![r] = Sent([click[r] EXCEPT !.retried = TRUE], session)]
    PROVE  CenterInv'
<1> DEFINE p == [click[r] EXCEPT !.retried = TRUE]
           q == Sent(p, session)
<1>1. /\ CenterTypeOK /\ WayFits(r) /\ click[r] \in Way /\ session \in 0..issued
      /\ faults' \in 0..MaxFaults
  BY ClickType DEF CenterInv, CenterTypeOK
<1>2. /\ p \in Way /\ p.retried /\ p.step = click[r].step /\ p.change = click[r].change
      /\ p.upgrade = click[r].upgrade
  BY <1>1 DEF Way
<1> HIDE DEF p
<1>3. /\ q \in Way /\ q.pc = "account" /\ q.step = click[r].step /\ q.change = click[r].change
      /\ q.token = session /\ q.upgrade = click[r].upgrade
  BY <1>1, <1>2, SentIs
<1>4. click' = [click EXCEPT ![r] = q]
  BY DEF p
<1> HIDE DEF q
<1>5. /\ click'[r] = q
      /\ done'[r] = done[r] /\ lost'[r] = lost[r] /\ misled'[r] = misled[r]
      /\ audited'[r] = audited[r] /\ revoked' = revoked /\ excuse' = excuse /\ Expired' = Expired
  BY <1>1, <1>3, <1>4, CalmIs
<1>6. misled[r] > 0 \/ \E t \in Expired : t # session
  <2>1. misled[r] > 0 \/ click[r].token \notin live
    BY <1>1 DEF WayFits, RefusalFits
  <2>2. click[r].token \in 1..issued
    BY <1>1, ClickType DEF WayFits, Standing, OnItsWay
  <2> QED BY <2>1, <2>2 DEF Expired
<1>7. Standing(r)'
  BY <1>1, <1>3, <1>5, <1>6 DEF WayFits, Standing, IsPerformed, OnItsWay
<1>8. Place(r)'
  BY <1>1, <1>3, <1>5 DEF WayFits, Place, MayPerform
<1>9. RefusalFits(r)'
  BY <1>3, <1>5 DEF RefusalFits
<1> QED BY <1>1, <1>3, <1>4, <1>7, <1>8, <1>9, CalmMove DEF WayFits

\* A request moves on without a reply.
LEMMA MovesOn ==
    ASSUME CenterInv, NEW r \in Clicks, Calm, faults' \in 0..MaxFaults, OnItsWay(click[r]),
           NEW q \in Way, click' = [click EXCEPT ![r] = q],
           q.step = click[r].step, q.change = click[r].change, q.token = click[r].token,
           q.retried = click[r].retried, q.upgrade = click[r].upgrade,
           OnItsWay(q), q.pc \notin {"replied", "refreshing"},
           Place(r)'
    PROVE  CenterInv'
<1>1. CenterTypeOK /\ WayFits(r)
  BY DEF CenterInv
<1>2. /\ CenterTypeOK' /\ Onward /\ click'[r] = q
      /\ done'[r] = done[r] /\ lost'[r] = lost[r] /\ misled'[r] = misled[r]
  BY CalmIs
<1>3. misled'[r] \in Nat /\ done'[r] \in Nat /\ audited'[r] \in Nat
  BY <1>2 DEF CenterTypeOK
<1>4. Standing(r)'
  BY <1>1, <1>2, <1>3, StandingStays, BoundStays DEF WayFits
<1>5. RefusalFits(r)'
  BY <1>2 DEF RefusalFits
<1> QED BY <1>4, <1>5, CalmMove DEF WayFits

\* A request is answered, and neither refused nor failed.
LEMMA Answered ==
    ASSUME CenterInv, NEW r \in Clicks, Calm, faults' \in 0..MaxFaults, OnItsWay(click[r]),
           NEW reply \in {"ok", "listed", "401", "banned", "failed"},
           click' = [click EXCEPT ![r] = Replied(click[r], reply)],
           Place(r)', RefusalFits(r)'
    PROVE  CenterInv'
<1> DEFINE q == Replied(click[r], reply)
<1>1. CenterTypeOK /\ WayFits(r)
  BY DEF CenterInv
<1>2. /\ q \in Way /\ q.step = click[r].step /\ q.change = click[r].change
      /\ q.token = click[r].token /\ q.retried = click[r].retried /\ q.upgrade = click[r].upgrade
  BY <1>1, ClickType, RepliedIs
<1>3. click' = [click EXCEPT ![r] = q]
  OBVIOUS
<1> HIDE DEF q
<1>4. /\ CenterTypeOK' /\ Onward /\ click'[r] = q
      /\ done'[r] = done[r] /\ lost'[r] = lost[r] /\ misled'[r] = misled[r]
  BY <1>2, <1>3, CalmIs
<1>5. misled'[r] \in Nat /\ done'[r] \in Nat /\ audited'[r] \in Nat
  BY <1>4 DEF CenterTypeOK
<1>6. Standing(r)'
  BY <1>1, <1>2, <1>4, <1>5, StandingStays, BoundStays DEF WayFits
<1> QED BY <1>2, <1>3, <1>6, CalmMove DEF WayFits

LEMMA ListAnswered ==
    ASSUME CenterInv, NEW r \in Clicks, Calm, faults' = faults, OnItsWay(click[r]),
           click[r].step = "list", click' = [click EXCEPT ![r] = Listed(click[r])]
    PROVE  CenterInv'
<1>1. /\ CenterTypeOK /\ WayFits(r) /\ click[r] \in Way /\ faults' \in 0..MaxFaults
      /\ item \in BOOLEAN
  BY ClickType DEF CenterInv, CenterTypeOK
<1>2. PICK reply \in {"ok", "listed"} :
         Listed(click[r]) = Replied(click[r], reply) /\ (reply = "ok" => ~item)
  BY <1>1 DEF Listed
<1> DEFINE q == Replied(click[r], reply)
<1>3. /\ q \in Way /\ q.pc = "replied" /\ q.reply = reply /\ q.step = "list"
      /\ q.change = click[r].change
  BY <1>1, RepliedIs
<1>4. click' = [click EXCEPT ![r] = q]
  BY <1>2
<1> HIDE DEF q
<1>5. /\ click'[r] = q
      /\ done'[r] = done[r] /\ audited'[r] = audited[r] /\ item' = item
  BY <1>1, <1>3, <1>4, CalmIs
<1>6. audited[r] >= 1 /\ IsPerformed(r) /\ click[r].change # "delete"
  BY <1>1 DEF WayFits, Standing
<1>7. Place(r)'
  BY <1>2, <1>3, <1>5, <1>6 DEF Place, MayPerform, IsPerformed
<1>8. RefusalFits(r)'
  BY <1>3, <1>5 DEF RefusalFits
<1> QED BY <1>1, <1>4, <1>7, <1>8, Answered DEF q

\* A request at another place, for another base.
Going(q, pc, base) == [q EXCEPT !.pc = pc, !.base = base]

Places == {"items", "challenge", "delete", "change", "audit"}

LEMMA GoingHow ==
    ASSUME CenterTypeOK, NEW r \in Clicks, NEW base, NEW pc
    PROVE  [click EXCEPT ![r].pc = pc, ![r].base = base]
             = [click EXCEPT ![r] = Going(click[r], pc, base)]
<1>1. click[r] \in Way /\ click \in [Clicks -> Way]
  BY DEF CenterTypeOK
<1> QED BY <1>1 DEF Way, Going

LEMMA GoingIs ==
    ASSUME NEW q \in Way, NEW pc \in Places, NEW base \in 0..Bases
    PROVE  /\ Going(q, pc, base) \in Way /\ Going(q, pc, base).pc = pc
           /\ Going(q, pc, base).step = q.step /\ Going(q, pc, base).change = q.change
           /\ Going(q, pc, base).token = q.token /\ Going(q, pc, base).retried = q.retried
           /\ Going(q, pc, base).upgrade = q.upgrade
<1>1. pc \in {"idle", "replied", "refreshing", "delete", "audit", "done", "failed"} \cup AtGoTrue
  BY DEF Places, AtGoTrue
<1> QED BY <1>1 DEF Way, Going

LEMMA AccountFoundKeeps ==
    ASSUME CenterInv, NEW r \in Clicks, AccountFound(r) PROVE CenterInv'
<1>1. /\ CenterTypeOK /\ WayFits(r) /\ click[r] \in Way /\ faults \in 0..MaxFaults
      /\ click[r].pc = "account" /\ OnItsWay(click[r])
      /\ Calm /\ faults' = faults
  BY ClickType DEF CenterInv, CenterTypeOK, AccountFound, Calm, OnItsWay
<1>2. CASE click[r].step = "list" /\ click' = [click EXCEPT ![r] = Listed(click[r])]
  BY <1>1, <1>2, ListAnswered
<1>3. ASSUME NEW pc \in {"items", "challenge", "delete", "change"},
             pc = "items" <=> click[r].step = "list",
             pc \in {"challenge", "change"} => click[r].change # "delete",
             click' = [click EXCEPT ![r] = Going(click[r], pc, 1)]
      PROVE  CenterInv'
  <2> DEFINE q == Going(click[r], pc, 1)
  <2>1. 1 \in 0..Bases /\ pc \in Places
    BY CenterAssumption DEF Places
  <2>2. /\ q \in Way /\ q.pc = pc /\ q.step = click[r].step /\ q.change = click[r].change
        /\ q.token = click[r].token /\ q.retried = click[r].retried /\ q.upgrade = click[r].upgrade
    BY <1>1, <2>1, GoingIs
  <2>3. click' = [click EXCEPT ![r] = q]
    BY <1>3
  <2> HIDE DEF q
  <2>4. /\ click'[r] = q
        /\ done'[r] = done[r] /\ lost'[r] = lost[r] /\ misled'[r] = misled[r]
    BY <1>1, <2>2, <2>3, CalmIs
  <2>5. click[r].step \in {"change", "list"}
    BY <1>1 DEF Way
  <2>6. Place(r)'
    BY <1>1, <1>3, <2>2, <2>4, <2>5 DEF WayFits, Place, MayPerform
  <2> QED BY <1>1, <1>3, <2>2, <2>3, <2>6, MovesOn DEF OnItsWay
<1>4. \/ click[r].step = "list" /\ click' = [click EXCEPT ![r] = Listed(click[r])]
      \/ \E pc \in {"items", "challenge", "delete", "change"} :
           /\ pc = "items" <=> click[r].step = "list"
           /\ pc \in {"challenge", "change"} => click[r].change # "delete"
           /\ click' = [click EXCEPT ![r] = Going(click[r], pc, 1)]
  <2> DEFINE next == CASE click[r].step = "list" -> "items"
                       [] click[r].step = "change" /\ click[r].change = "verify" -> "challenge"
                       [] click[r].step = "change" /\ click[r].change = "delete" -> "delete"
                       [] OTHER -> "change"
  <2>1. \/ click[r].step = "list" /\ click' = [click EXCEPT ![r] = Listed(click[r])]
        \/ click' = [click EXCEPT ![r].pc = next, ![r].base = 1]
    BY DEF AccountFound
  <2>2. next \in {"items", "challenge", "delete", "change"}
        /\ (next = "items" <=> click[r].step = "list")
        /\ (next \in {"challenge", "change"} => click[r].change # "delete")
    <3>1. click[r].step \in {"list", "change"}
      BY <1>1 DEF Way
    <3>2. CASE click[r].step = "list"
      BY <3>2
    <3>3. CASE click[r].step = "change" /\ click[r].change = "verify"
      BY <3>3
    <3>4. CASE click[r].step = "change" /\ click[r].change = "delete"
      BY <3>4
    <3>5. CASE click[r].step = "change" /\ click[r].change \notin {"verify", "delete"}
      BY <3>5
    <3> QED BY <3>1, <3>2, <3>3, <3>4, <3>5
  <2> HIDE DEF next
  <2>3. [click EXCEPT ![r].pc = next, ![r].base = 1]
          = [click EXCEPT ![r] = Going(click[r], next, 1)]
    BY <1>1, GoingHow
  <2> QED BY <2>1, <2>2, <2>3
<1> QED BY <1>2, <1>3, <1>4

LEMMA ItemsFoundKeeps ==
    ASSUME CenterInv, NEW r \in Clicks, ItemsFound(r) PROVE CenterInv'
<1>1. /\ click[r].pc = "items" /\ OnItsWay(click[r]) /\ Calm /\ faults' = faults
      /\ click' = [click EXCEPT ![r] = Listed(click[r])]
  BY DEF ItemsFound, Calm, OnItsWay
<1>2. click[r].step = "list"
  BY <1>1 DEF CenterInv, WayFits, Place
<1> QED BY <1>1, <1>2, ListAnswered

LEMMA ChallengedKeeps ==
    ASSUME CenterInv, NEW r \in Clicks, Challenged(r) PROVE CenterInv'
<1> DEFINE q == Going(click[r], "change", 1)
<1>1. /\ CenterTypeOK /\ WayFits(r) /\ click[r].pc = "challenge" /\ OnItsWay(click[r])
      /\ click' = [click EXCEPT ![r].pc = "change", ![r].base = 1]
      /\ Calm /\ faults' = faults /\ faults \in 0..MaxFaults
  BY DEF CenterInv, CenterTypeOK, Challenged, Calm, OnItsWay
<1>2. 1 \in 0..Bases /\ "change" \in Places
  BY CenterAssumption DEF Places
<1>3. /\ click' = [click EXCEPT ![r] = q] /\ q \in Way /\ q.pc = "change"
      /\ q.step = click[r].step /\ q.change = click[r].change /\ q.token = click[r].token
      /\ q.retried = click[r].retried /\ q.upgrade = click[r].upgrade
  <2>1. click' = [click EXCEPT ![r] = q]
    BY <1>1, GoingHow, Zenon
  <2>2. click[r] \in Way
    BY <1>1, <1>2, ClickType
  <2> QED BY <1>2, <2>1, <2>2, GoingIs
<1> HIDE DEF q
<1>4. /\ click'[r] = q
      /\ done'[r] = done[r] /\ lost'[r] = lost[r] /\ misled'[r] = misled[r]
  BY <1>1, <1>3, CalmIs
<1>5. Place(r)'
  BY <1>1, <1>3, <1>4 DEF WayFits, Place, MayPerform
<1> QED BY <1>1, <1>3, <1>5, MovesOn DEF OnItsWay

LEMMA RemovalPretendedKeeps ==
    ASSUME CenterInv, NEW r \in Clicks, RemovalPretended(r) PROVE CenterInv'
<1> DEFINE q == Going(click[r], "audit", 0)
<1>1. /\ CenterTypeOK /\ WayFits(r) /\ click[r].pc = "change" /\ OnItsWay(click[r])
      /\ click[r].change = "remove"
      /\ click' = [click EXCEPT ![r].pc = "audit", ![r].base = 0]
      /\ Calm /\ faults' \in 0..MaxFaults
  BY FaultTyped DEF CenterInv, RemovalPretended, Calm, OnItsWay
<1>2. 0 \in 0..Bases /\ "audit" \in Places
  BY CenterAssumption DEF Places
<1>3. /\ click' = [click EXCEPT ![r] = q] /\ q \in Way /\ q.pc = "audit"
      /\ q.step = click[r].step /\ q.change = click[r].change /\ q.token = click[r].token
      /\ q.retried = click[r].retried /\ q.upgrade = click[r].upgrade
  <2>1. click' = [click EXCEPT ![r] = q]
    BY <1>1, GoingHow, Zenon
  <2>2. click[r] \in Way
    BY <1>1, <1>2, ClickType
  <2> QED BY <1>2, <2>1, <2>2, GoingIs
<1> HIDE DEF q
<1>4. /\ click'[r] = q
      /\ done'[r] = done[r] /\ lost'[r] = lost[r] /\ misled'[r] = misled[r]
  BY <1>1, <1>3, CalmIs
<1>5. Place(r)'
  BY <1>1, <1>3, <1>4 DEF WayFits, Place, MayPerform, IsPerformed
<1> QED BY <1>1, <1>3, <1>5, MovesOn DEF OnItsWay

\* The second refusal: another token expired before, or a reply misled.
LEMMA UnauthorizedKeeps ==
    ASSUME CenterInv, NEW r \in Clicks, Unauthorized(r) PROVE CenterInv'
<1>1. /\ CenterTypeOK /\ WayFits(r) /\ click[r].pc \in AtGoTrue /\ OnItsWay(click[r])
      /\ click[r].token \notin live /\ Calm /\ faults' = faults /\ faults' \in 0..MaxFaults
  BY DEF CenterInv, CenterTypeOK, Unauthorized, Authorized, Calm, OnItsWay, AtGoTrue
<1>2. PICK reply \in {"401", "banned", "failed"} :
         /\ click' = [click EXCEPT ![r] = Replied(click[r], reply)]
         /\ reply \in {"banned", "failed"} => revoked
  BY DEF Unauthorized
<1>3. CASE reply = "failed"
  BY <1>1, <1>2, <1>3, ToRepliedFailed
<1>4. CASE reply # "failed"
  <2> DEFINE q == Replied(click[r], reply)
  <2>1. /\ q \in Way /\ q.pc = "replied" /\ q.reply = reply /\ q.step = click[r].step
        /\ q.token = click[r].token /\ q.retried = click[r].retried
    BY <1>1, ClickType, RepliedIs
  <2>2. click' = [click EXCEPT ![r] = q]
    BY <1>2
  <2> HIDE DEF q
  <2>3. /\ click'[r] = q
        /\ done'[r] = done[r] /\ lost'[r] = lost[r] /\ misled'[r] = misled[r]
        /\ live' = live /\ revoked' = revoked /\ excuse' = excuse
        /\ TwoMishaps' = TwoMishaps
    BY <1>1, <2>1, <2>2, CalmIs
  <2>4. MayPerform(click[r]) \/ click[r].step = "list"
    BY <1>1, ClickType DEF WayFits, Place, MayPerform, AtGoTrue, Way
  <2>5. Place(r)'
    BY <1>1, <1>4, <2>1, <2>3, <2>4 DEF WayFits, Place, MayPerform
  <2>6. click[r].token \in Expired
    BY <1>1, ClickType DEF WayFits, Standing, Expired
  <2>7. click[r].retried => revoked \/ excuse \/ TwoMishaps
    BY <1>1, <2>6 DEF WayFits, Standing, TwoMishaps, Misled
  <2>8. RefusalFits(r)'
    BY <1>1, <1>2, <2>1, <2>3, <2>7 DEF RefusalFits
  <2> QED BY <1>1, <1>2, <2>5, <2>8, Answered
<1> QED BY <1>3, <1>4

LEMMA DeclineKeeps ==
    ASSUME CenterInv, NEW r \in Clicks, Decline(r) PROVE CenterInv'
<1>1. /\ OnItsWay(click[r]) /\ Calm /\ faults' = faults /\ faults \in 0..MaxFaults
      /\ click' = [click EXCEPT ![r] = Replied(click[r], "failed")]
  BY DEF CenterInv, CenterTypeOK, Decline, Calm, OnItsWay, AtGoTrue
<1> QED BY <1>1, ToRepliedFailed

LEMMA UserNotFoundKeeps ==
    ASSUME CenterInv, NEW r \in Clicks, UserNotFound(r) PROVE CenterInv'
<1>1. /\ OnItsWay(click[r]) /\ Calm /\ faults' = faults /\ faults \in 0..MaxFaults
      /\ click' = [click EXCEPT ![r] = Replied(click[r], "failed")]
  BY DEF CenterInv, CenterTypeOK, UserNotFound, Calm, OnItsWay
<1> QED BY <1>1, ToRepliedFailed

LEMMA NoAnswerKeeps ==
    ASSUME CenterInv, NEW r \in Clicks, NoAnswer(r) PROVE CenterInv'
<1>1. /\ CenterTypeOK /\ WayFits(r) /\ OnItsWay(click[r]) /\ click[r].pc \in AtGoTrue
      /\ Calm /\ faults' \in 0..MaxFaults /\ click' = [click EXCEPT ![r] = NextBase(click[r])]
  BY FaultTyped DEF CenterInv, NoAnswer, Calm, OnItsWay, AtGoTrue
<1>2. CASE ~(click[r].base < Bases)
  BY <1>1, <1>2, ToRepliedFailed DEF NextBase
<1>3. CASE click[r].base < Bases
  <2> DEFINE q == [click[r] EXCEPT !.base = @ + 1]
  <2>1. click[r] \in Way /\ click[r].base \in 0..Bases /\ click[r].base + 1 \in 0..Bases
    BY <1>1, <1>3, ClickType, CenterAssumption DEF Way
  <2>2. /\ q \in Way /\ q.pc = click[r].pc /\ q.reply = click[r].reply
        /\ q.step = click[r].step /\ q.change = click[r].change
        /\ q.token = click[r].token /\ q.retried = click[r].retried
        /\ q.upgrade = click[r].upgrade
    BY <2>1 DEF Way
  <2>3. click' = [click EXCEPT ![r] = q]
    BY <1>1, <1>3 DEF NextBase
  <2> HIDE DEF q
  <2>4. /\ click'[r] = q
        /\ done'[r] = done[r] /\ lost'[r] = lost[r] /\ misled'[r] = misled[r]
    BY <1>1, <2>2, <2>3, CalmIs
  <2>5. Place(r)'
    BY <1>1, <2>2, <2>4 DEF WayFits, Place, MayPerform, AtGoTrue
  <2> QED BY <1>1, <2>2, <2>3, <2>5, MovesOn DEF OnItsWay, AtGoTrue
<1> QED BY <1>2, <1>3

LEMMA UpgradeNotStoredKeeps ==
    ASSUME CenterInv, NEW r \in Clicks, UpgradeNotStored(r) PROVE CenterInv'
BY ToFailed, FaultTyped DEF CenterInv, UpgradeNotStored, Calm

LEMMA ReplyLostKeeps ==
    ASSUME CenterInv, NEW r \in Clicks, ReplyLost(r) PROVE CenterInv'
BY ToFailed, FaultTyped DEF CenterInv, ReplyLost, Calm

(***************************************************************************)
(* Steps that change the session or the refresh.                           *)
(***************************************************************************)

LEMMA WayGrows ==
    ASSUME issued \in Nat, issued' \in Nat, issued <= issued' PROVE Way \subseteq Way'
<1>1. 0..issued \subseteq 0..issued'
  OBVIOUS
<1> QED BY <1>1 DEF Way

\* Nothing at GoTrue and nothing of the history changes.
Quiet == UNCHANGED <<gotrue, ghosts>>

LEMMA QuietIs ==
    ASSUME CenterInv, Quiet, session' \in 0..issued,
           refresh' \in [token : 0..issued, answer : {None} \cup 0..issued],
           click' \in [Clicks -> Way], faults' \in 0..MaxFaults,
           excuse' \in BOOLEAN, excuse => excuse'
    PROVE  /\ CenterTypeOK' /\ Onward
           /\ done' = done /\ lost' = lost /\ misled' = misled /\ audited' = audited
           /\ TwoMishaps' = TwoMishaps /\ Expired' = Expired /\ live' = live /\ item' = item
           /\ revoked' = revoked /\ issued' = issued /\ (revoked' => live' = {})
<1>1. /\ UNCHANGED <<item, deleted, live, issued, revoked, done, lost, misled, audited>>
      /\ CenterTypeOK
  BY DEF Quiet, gotrue, ghosts, CenterInv
<1>2. Way' = Way
  BY <1>1 DEF Way
<1>3. CenterTypeOK'
  BY <1>1, <1>2 DEF CenterTypeOK
<1>4. Expired' = Expired /\ Misled' = Misled /\ TwoMishaps' = TwoMishaps
  BY <1>1 DEF Expired, Misled, TwoMishaps
<1>5. Onward
  <2>1. \A s \in Clicks : misled[s] <= misled[s] /\ done[s] <= done[s] /\ audited[s] <= audited[s]
    BY <1>1, GhostTypes
  <2>2. issued <= issued
    BY <1>1 DEF CenterTypeOK
  <2> QED BY <1>1, <1>4, <2>1, <2>2 DEF Onward
<1>6. revoked' => live' = {}
  BY <1>1 DEF CenterInv, SessionInv
<1> QED BY <1>1, <1>3, <1>4, <1>5, <1>6

\* The request of r moves, and the session is r's doing.
LEMMA QuietMove ==
    ASSUME CenterInv, Quiet, refresh' = refresh, excuse' = excuse, faults' \in 0..MaxFaults,
           NEW r \in Clicks, NEW q, q \in Way, click' = [click EXCEPT ![r] = q],
           session' \in 0..issued,
           session' = session \/ excuse \/ (session' = 0 /\ (revoked \/ TwoMishaps)),
           excuse \/ q.token \in {click[r].token, session, 0},
           WayFits(r)'
    PROVE  CenterInv'
<1>1. CenterTypeOK /\ SessionInv /\ excuse \in BOOLEAN /\ click \in [Clicks -> Way]
      /\ refresh \in [token : 0..issued, answer : {None} \cup 0..issued]
  BY DEF CenterInv, CenterTypeOK
<1>2. click' \in [Clicks -> Way] /\ click'[r] = q /\ \A s \in Clicks \ {r} : click'[s] = click[s]
  BY <1>1
<1>3. /\ CenterTypeOK' /\ Onward
      /\ done' = done /\ lost' = lost /\ misled' = misled /\ audited' = audited
      /\ TwoMishaps' = TwoMishaps /\ revoked' = revoked /\ issued' = issued
      /\ (revoked' => live' = {})
  BY <1>1, <1>2, QuietIs
<1>4. Rest(r)
  BY <1>2, <1>3 DEF Rest
<1>5. excuse' \/ \A s \in Clicks : click'[s].token \in {click[s].token, session, 0}
  BY <1>2
<1>6. SessionInv'
  BY <1>1, <1>3, <1>5, SessionStays
<1> QED BY <1>3, <1>4, <1>6, OneMoves

LEMMA SignOutKeeps ==
    ASSUME CenterInv, NEW r \in Clicks, SignOut(r) PROVE CenterInv'
<1>1. /\ CenterTypeOK /\ WayFits(r) /\ Quiet /\ refresh' = refresh /\ excuse' = excuse
      /\ faults' \in 0..MaxFaults /\ session' = 0 /\ 0 \in 0..issued
      /\ click' = [click EXCEPT ![r] = Failed]
  BY DEF CenterInv, CenterTypeOK, SignOut, Quiet
<1>2. revoked \/ excuse \/ TwoMishaps
  BY <1>1 DEF SignOut, WayFits, RefusalFits
<1>3. Failed \in Way /\ Failed.token = 0
  BY <1>1, FailedIs
<1>4. click'[r] = Failed /\ done' = done /\ lost' = lost /\ misled' = misled
  BY <1>1, <1>3 DEF CenterTypeOK, Quiet, ghosts
<1>5. WayFits(r)'
  BY <1>1, <1>4, FailedFits, BoundStays
<1> QED BY <1>1, <1>2, <1>3, <1>5, QuietMove

LEMMA LeaveAccountKeeps ==
    ASSUME CenterInv, NEW r \in Clicks, LeaveAccount(r) PROVE CenterInv'
<1> DEFINE q == Reported(click[r])
<1>1. /\ CenterTypeOK /\ WayFits(r) /\ Quiet /\ refresh' = refresh /\ excuse' = excuse
      /\ faults' \in 0..MaxFaults /\ session' = 0 /\ 0 \in 0..issued
      /\ click' = [click EXCEPT ![r] = q]
      /\ click[r].pc = "replied" /\ click[r].reply = "ok" /\ click[r].change = "delete"
  BY DEF CenterInv, CenterTypeOK, LeaveAccount, Quiet
<1>2. revoked /\ audited[r] >= 1 /\ done[r] >= 1
  BY <1>1 DEF WayFits, Place, IsPerformed
<1>3. /\ q \in Way /\ q.token = 0 /\ q.pc = "done" /\ q.step = "change" /\ q.change = "delete"
      /\ q.upgrade = 0
  BY <1>1, ClickType, ReportedIs
<1> HIDE DEF q
<1>4. click'[r] = q /\ done' = done /\ lost' = lost /\ misled' = misled /\ audited' = audited
  BY <1>1, <1>3 DEF CenterTypeOK, Quiet, ghosts
<1>5. WayFits(r)'
  BY <1>1, <1>2, <1>3, <1>4, BoundStays
  DEF WayFits, Standing, RefusalFits, Place, OnItsWay, MayPerform
<1> QED BY <1>1, <1>2, <1>3, <1>5, QuietMove

LEMMA ConcludeKeeps ==
    ASSUME CenterInv, NEW r \in Clicks, Conclude(r) PROVE CenterInv'
<1> DEFINE stored == IF click[r].upgrade = 0 THEN session ELSE click[r].upgrade
           p == [click[r] EXCEPT !.upgrade = 0]
           q == Concluded(p, stored)
<1>1. /\ CenterTypeOK /\ WayFits(r) /\ Quiet /\ refresh' = refresh /\ excuse' = excuse
      /\ faults' \in 0..MaxFaults /\ session' = stored
      /\ click' = [click EXCEPT ![r] = q] /\ click[r] \in Way
      /\ click[r].pc = "replied" /\ (click[r].reply = "ok" => click[r].change # "delete")
  BY ClickType DEF CenterInv, CenterTypeOK, Conclude, Quiet
<1>2. stored \in 0..issued /\ (stored = session \/ excuse)
  BY <1>1, ClickType DEF CenterTypeOK, WayFits, Standing
<1>3. /\ p \in Way /\ p.upgrade = 0 /\ p.change = click[r].change /\ p.reply = click[r].reply
      /\ p.step = click[r].step
  <2>1. 0 \in 0..issued
    BY <1>1 DEF CenterTypeOK
  <2> QED BY <1>1, <2>1 DEF Way
<1>4. ASSUME q \in Way, q.token \in {0, stored}, (click'[r] = q) => WayFits(r)'
      PROVE  CenterInv'
  <2> HIDE DEF q, stored
  <2>1. click'[r] = q
    BY <1>1 DEF CenterTypeOK
  <2> QED BY <1>1, <1>2, <1>4, <2>1, QuietMove
<1>5. /\ done' = done /\ lost' = lost /\ misled' = misled /\ audited' = audited /\ item' = item
  BY <1>1 DEF Quiet, gotrue, ghosts
<1> HIDE DEF p
<1>6. CASE /\ p.reply = "ok" /\ p.change \in {"verify", "remove"} /\ p.step = "change"
           /\ stored # 0
  <2>1. q = Started(p, "list", stored) /\ "list" \in {"change", "list"}
    BY <1>6 DEF Concluded
  <2>2. /\ q \in Way /\ q.pc = "account" /\ q.step = "list" /\ q.change = click[r].change
        /\ q.token = stored /\ ~q.retried /\ q.upgrade = 0
    <3> HIDE DEF q, stored
    <3> QED BY <1>1, <1>2, <1>3, <1>6, <2>1, StartedIs
  <2> HIDE DEF q, stored
  <2>3. ASSUME click'[r] = q PROVE WayFits(r)'
    <3>1. audited[r] >= 1 /\ IsPerformed(r)
      BY <1>1, <1>3, <1>6 DEF WayFits, Place
    <3> QED BY <1>1, <1>3, <1>5, <1>6, <2>2, <2>3, <3>1, BoundStays
        DEF WayFits, Standing, RefusalFits, Place, MayPerform, IsPerformed
  <2> QED BY <1>4, <2>2, <2>3
<1>7. CASE q = Failed
  <2>1. Failed \in Way /\ Failed.token = 0
    BY <1>1, FailedIs
  <2>2. ASSUME click'[r] = q PROVE WayFits(r)'
    BY <1>1, <1>5, <1>7, <2>2, FailedFits, BoundStays
  <2> QED BY <1>4, <1>7, <2>1, <2>2
<1>8. CASE /\ q = Reported(p)
           /\ \/ p.reply = "ok" /\ ~(p.change \in {"verify", "remove"} /\ p.step = "change")
              \/ p.reply = "listed" /\ p.change # "remove"
  <2>1. /\ q \in Way /\ q.token = 0 /\ q.pc = "done" /\ q.step = "change"
        /\ q.change = click[r].change /\ q.upgrade = 0
    BY <1>1, <1>3, <1>8, ReportedIs
  <2> HIDE DEF q
  <2>2. audited[r] >= 1 /\ (IF click[r].change = "remove" THEN ~item ELSE done[r] >= 1)
    <3>1. CASE click[r].reply = "ok"
      BY <1>1, <1>3, <1>8, <3>1 DEF WayFits, Place, IsPerformed, Way
    <3>2. CASE click[r].reply = "listed"
      BY <1>1, <1>3, <1>8, <3>2 DEF WayFits, Standing, Place, IsPerformed
    <3> QED BY <1>3, <1>8, <3>1, <3>2
  <2>3. ASSUME click'[r] = q PROVE WayFits(r)'
    BY <1>1, <1>5, <2>1, <2>2, <2>3, BoundStays
    DEF WayFits, Standing, RefusalFits, Place, OnItsWay, MayPerform
  <2> QED BY <1>4, <2>1, <2>3
<1> QED BY <1>6, <1>7, <1>8 DEF Concluded, Started

LEMMA RetryWithTokenKeeps ==
    ASSUME CenterInv, NEW r \in Clicks, RetryWithToken(r) PROVE CenterInv'
<1>1. /\ CenterTypeOK /\ WayFits(r) /\ click[r] \in Way /\ Quiet /\ excuse' = excuse
      /\ session' = session /\ session \in 0..issued /\ faults' = faults
      /\ faults \in 0..MaxFaults /\ click \in [Clicks -> Way]
      /\ click[r].pc = "replied" /\ click[r].reply = "401" /\ ~click[r].retried
  BY ClickType DEF CenterInv, CenterTypeOK, RetryWithToken, Retry, Quiet
<1>2. CASE session = 0
  <2>1. click' = [click EXCEPT ![r] = Failed] /\ Calm
    BY <1>1, <1>2 DEF RetryWithToken, Calm, Quiet
  <2> QED BY <1>1, <2>1, ToFailed
<1>3. CASE session # 0 /\ session # click[r].token
  <2>1. /\ click' = [click EXCEPT ![r] = Sent([click[r] EXCEPT !.retried = TRUE], session)]
        /\ Calm
    BY <1>1, <1>3 DEF RetryWithToken, RefreshDue, Calm, Quiet
  <2> QED BY <1>1, <1>3, <2>1, RetryWithStoredToken
<1>4. CASE session # 0 /\ session = click[r].token
  <2> DEFINE q == [click[r] EXCEPT !.pc = "refreshing"]
  <2>1. /\ click' = [click EXCEPT ![r] = q]
        /\ refresh' = IF refresh = NoRefresh THEN [NoRefresh EXCEPT !.token = session] ELSE refresh
    BY <1>4 DEF RetryWithToken, RefreshDue
  <2>2. /\ q \in Way /\ q.pc = "refreshing" /\ q.step = click[r].step
        /\ q.change = click[r].change /\ q.token = click[r].token
        /\ q.retried = click[r].retried /\ q.upgrade = click[r].upgrade
    BY <1>1 DEF Way
  <2> HIDE DEF q
  <2>3. refresh \in [token : 0..issued, answer : {None} \cup 0..issued]
    BY <1>1 DEF CenterTypeOK
  <2>4. /\ refresh' \in [token : 0..issued, answer : {None} \cup 0..issued]
        /\ refresh'.answer = refresh.answer
        /\ refresh' = refresh \/ (refresh.answer = None /\ refresh'.token = session)
    BY <1>1, <2>1, <2>3 DEF NoRefresh
  <2>5. /\ click' \in [Clicks -> Way] /\ click'[r] = q
        /\ \A s \in Clicks \ {r} : click'[s] = click[s]
    BY <1>1, <2>1, <2>2
  <2>6. /\ CenterTypeOK' /\ Onward
        /\ done' = done /\ lost' = lost /\ misled' = misled /\ audited' = audited
        /\ TwoMishaps' = TwoMishaps /\ Expired' = Expired /\ live' = live
        /\ revoked' = revoked /\ issued' = issued /\ (revoked' => live' = {})
    BY <1>1, <2>4, <2>5, QuietIs DEF CenterTypeOK
  <2>7. Rest(r)
    BY <2>5, <2>6 DEF Rest
  <2>8. Standing(r)'
    BY <1>1, <2>2, <2>5, <2>6 DEF WayFits, Standing, IsPerformed, OnItsWay
  <2>9. RefusalFits(r)'
    BY <1>1, <2>2, <2>5, <2>6 DEF WayFits, RefusalFits
  <2>10. Place(r)'
    BY <1>1, <2>2, <2>5, <2>6 DEF WayFits, Place, MayPerform
  <2>11. TokensFit'
    <3>1. \A s \in Clicks : click'[s].token = click[s].token
      BY <2>2, <2>5
    <3>2. issued \in Nat /\ issued # None
      BY <1>1, CenterAssumption DEF CenterTypeOK
    <3> QED BY <1>1, <1>4, <2>4, <2>6, <3>1, <3>2 DEF CenterInv, SessionInv, TokensFit
  <2>12. SessionInv'
    BY <1>1, <2>4, <2>6, <2>11 DEF CenterInv, SessionInv, SessionSurvives
  <2> QED BY <2>6, <2>7, <2>8, <2>9, <2>10, <2>12, OneMoves DEF WayFits
<1> QED BY <1>2, <1>3, <1>4

\* All that wait for the refresh fail.
LEMMA AllFailed ==
    ASSUME CenterInv, Quiet, click' = AllFail, refresh' = NoRefresh, faults' \in 0..MaxFaults,
           session' \in 0..issued, excuse' \in BOOLEAN, excuse => excuse',
           session' = 0 => revoked \/ excuse' \/ TwoMishaps,
           excuse' \/ session' = 0 \/ session' = issued
    PROVE  CenterInv'
<1>1. CenterTypeOK /\ click \in [Clicks -> Way] /\ Failed \in Way
  BY FailedIs DEF CenterInv, CenterTypeOK
<1>2. /\ click' \in [Clicks -> Way]
      /\ \A s \in Clicks : click'[s] = Failed \/ click'[s] = click[s]
  BY <1>1 DEF AllFail
<1>3. /\ NoRefresh \in [token : 0..issued, answer : {None} \cup 0..issued]
      /\ NoRefresh.answer = None
  BY <1>1 DEF CenterTypeOK, NoRefresh
<1>4. /\ CenterTypeOK' /\ Onward
      /\ done' = done /\ lost' = lost /\ misled' = misled /\ audited' = audited
      /\ TwoMishaps' = TwoMishaps /\ revoked' = revoked /\ issued' = issued
      /\ (revoked' => live' = {})
  BY <1>2, <1>3, QuietIs
<1>5. ASSUME NEW s \in Clicks PROVE WayFits(s)'
  <2>1. WayFits(s) /\ done[s] <= 1 + lost[s] + misled[s]
    BY BoundStays DEF CenterInv
  <2> QED BY <1>1, <1>2, <1>4, <2>1, OthersFit, FailedFits
<1>6. SessionInv'
  <2>1. None # 0
    BY CenterAssumption
  <2> QED BY <1>3, <1>4, <2>1 DEF SessionInv, TokensFit, SessionSurvives
<1> QED BY <1>4, <1>5, <1>6 DEF CenterInv

LEMMA RefreshRefusedKeeps ==
    ASSUME CenterInv, RefreshRefused PROVE CenterInv'
<1>1. /\ Quiet /\ click' = AllFail /\ refresh' = NoRefresh /\ session' = 0 /\ excuse' = excuse
      /\ faults' \in 0..MaxFaults /\ excuse \in BOOLEAN /\ 0 \in 0..issued
  BY DEF CenterInv, CenterTypeOK, RefreshRefused, Quiet
<1>2. revoked \/ excuse
  BY DEF CenterInv, SessionInv, RefreshRefused
<1> QED BY <1>1, <1>2, AllFailed

LEMMA RefreshFailsKeeps ==
    ASSUME CenterInv, RefreshFails PROVE CenterInv'
<1>1. /\ Quiet /\ click' = AllFail /\ refresh' = NoRefresh /\ session' = session
      /\ excuse' = (excuse \/ refresh.answer # None) /\ refresh.answer # 0
      /\ faults' \in 0..MaxFaults /\ excuse \in BOOLEAN /\ session \in 0..issued
      /\ issued # None
  BY FaultTyped, CenterAssumption
  DEF CenterInv, CenterTypeOK, RefreshFails, StoredAfterFailure, Quiet
<1>2. /\ session = 0 => revoked \/ excuse \/ TwoMishaps
      /\ excuse' \/ session = 0 \/ session = issued
  BY <1>1 DEF CenterInv, SessionInv, SessionSurvives, TokensFit
<1> QED BY <1>1, <1>2, AllFailed

LEMMA RefreshDoneKeeps ==
    ASSUME CenterInv, RefreshDone PROVE CenterInv'
<1> DEFINE answer == refresh.answer
<1>1. /\ CenterTypeOK /\ Quiet /\ refresh' = NoRefresh /\ excuse' = excuse
      /\ session' = answer /\ answer \notin {None, 0} /\ answer \in 0..issued
      /\ faults' = faults /\ faults \in 0..MaxFaults /\ excuse \in BOOLEAN
      /\ click \in [Clicks -> Way]
  BY DEF CenterInv, CenterTypeOK, RefreshDone, Quiet
<1>2. excuse \/ (answer = issued /\ \A r \in Clicks : click[r].token # issued)
  BY <1>1 DEF CenterInv, SessionInv, TokensFit
<1> HIDE DEF answer
<1>3. /\ NoRefresh \in [token : 0..issued, answer : {None} \cup 0..issued]
      /\ NoRefresh.answer = None
  BY <1>1 DEF CenterTypeOK, NoRefresh
<1>4. ASSUME NEW r \in Clicks
      PROVE  [click[r] EXCEPT !.retried = TRUE] \in Way
             /\ Sent([click[r] EXCEPT !.retried = TRUE], answer) \in Way
  <2>1. [click[r] EXCEPT !.retried = TRUE] \in Way
    BY <1>1, ClickType DEF Way
  <2>2. CenterTypeOK /\ answer \in 0..issued
    BY <1>1
  <2> QED BY <2>1, <2>2, SentIs
<1>5. click' = [r \in Clicks |->
                 IF click[r].pc = "refreshing"
                 THEN Sent([click[r] EXCEPT !.retried = TRUE], answer) ELSE click[r]]
  BY DEF RefreshDone, Waiting, answer
<1>6. click' \in [Clicks -> Way]
  BY <1>1, <1>4, <1>5
<1>7. /\ CenterTypeOK' /\ Onward
      /\ done' = done /\ lost' = lost /\ misled' = misled /\ audited' = audited
      /\ TwoMishaps' = TwoMishaps /\ Expired' = Expired /\ live' = live
      /\ revoked' = revoked /\ issued' = issued /\ (revoked' => live' = {})
  BY <1>1, <1>3, <1>6, QuietIs
<1>8. ASSUME NEW r \in Clicks, click[r].pc = "refreshing" PROVE WayFits(r)'
  <2> DEFINE p == [click[r] EXCEPT !.retried = TRUE]
             q == Sent(p, answer)
  <2>1. /\ p \in Way /\ p.retried /\ p.step = click[r].step /\ p.change = click[r].change
        /\ p.upgrade = click[r].upgrade
    BY <1>1, ClickType DEF Way
  <2>2. click'[r] = q
    BY <1>5, <1>8
  <2> HIDE DEF p
  <2>3. /\ q \in Way /\ q.pc = "account" /\ q.step = click[r].step
        /\ q.change = click[r].change /\ q.token = answer /\ q.upgrade = click[r].upgrade
    BY <1>1, <2>1, SentIs
  <2> HIDE DEF q
  <2>4. WayFits(r)
    BY DEF CenterInv
  <2>5. excuse \/ misled[r] > 0 \/ \E t \in Expired : t # answer
    <3>1. click[r].token \in 1..issued
      BY <1>1, <1>8, <2>4, ClickType DEF WayFits, Standing, OnItsWay
    <3>2. misled[r] > 0 \/ click[r].token \in Expired
      BY <1>8, <2>4, <3>1 DEF WayFits, RefusalFits, Expired
    <3> QED BY <1>2, <3>2
  <2>6. Standing(r)'
    BY <1>1, <1>7, <1>8, <2>2, <2>3, <2>4, <2>5 DEF WayFits, Standing, IsPerformed, OnItsWay
  <2>7. Place(r)'
    BY <1>7, <1>8, <2>2, <2>3, <2>4 DEF WayFits, Place, MayPerform
  <2>8. RefusalFits(r)'
    BY <2>2, <2>3 DEF RefusalFits
  <2> QED BY <2>6, <2>7, <2>8 DEF WayFits
<1>9. ASSUME NEW r \in Clicks, click[r].pc # "refreshing" PROVE WayFits(r)'
  <2>1. click'[r] = click[r] /\ WayFits(r)
    BY <1>5, <1>9 DEF CenterInv
  <2> QED BY <1>1, <1>7, <2>1, OthersFit
<1>10. SessionInv'
  <2>1. None # 0
    BY CenterAssumption
  <2> QED BY <1>1, <1>2, <1>3, <1>7, <2>1 DEF SessionInv, TokensFit, SessionSurvives
<1> QED BY <1>7, <1>8, <1>9, <1>10 DEF CenterInv

(***************************************************************************)
(* Steps that GoTrue or the history keeps.                                 *)
(***************************************************************************)

\* The history of r only grows, and that of the others stays.
Counts(r) ==
    /\ {done', lost', misled', audited'} \subseteq [Clicks -> Nat]
    /\ done[r] <= done'[r] /\ misled[r] <= misled'[r] /\ audited[r] <= audited'[r]
    /\ \A s \in Clicks \ {r} :
         /\ done'[s] = done[s] /\ lost'[s] = lost[s]
         /\ misled'[s] = misled[s] /\ audited'[s] = audited[s]

\* No token, removal, revocation or excuse is taken back.
GoTrueGrows ==
    /\ issued' \in Nat /\ issued <= issued' /\ live' \subseteq 1..issued'
    /\ \A t \in 0..issued : t \in live' => t \in live
    /\ item' \in BOOLEAN /\ deleted' \in BOOLEAN /\ revoked' \in BOOLEAN /\ excuse' \in BOOLEAN
    /\ (~item => ~item') /\ (revoked => revoked') /\ (excuse => excuse')

LEMMA GrowsIs ==
    ASSUME CenterTypeOK, NEW r \in Clicks, Counts(r), GoTrueGrows, faults' \in 0..MaxFaults,
           UNCHANGED <<session, refresh>>,
           NEW q, q \in Way', click' = [click EXCEPT ![r] = q]
    PROVE  CenterTypeOK' /\ Onward /\ Rest(r) /\ click'[r] = q
<1>1. issued \in Nat /\ issued' \in Nat /\ issued <= issued'
  BY DEF CenterTypeOK, GoTrueGrows
<1>2. Way \subseteq Way'
  BY <1>1, WayGrows
<1>3. /\ click' \in [Clicks -> Way'] /\ click'[r] = q
      /\ \A s \in Clicks \ {r} : click'[s] = click[s]
  BY <1>2 DEF CenterTypeOK
<1>4. session' \in 0..issued' /\ refresh' \in [token : 0..issued', answer : {None} \cup 0..issued']
  <2>1. 0..issued \subseteq 0..issued'
    BY <1>1
  <2> QED BY <2>1 DEF CenterTypeOK
<1>5. CenterTypeOK'
  BY <1>3, <1>4 DEF CenterTypeOK, Counts, GoTrueGrows
<1>6. \A s \in Clicks :
         misled[s] <= misled'[s] /\ done[s] <= done'[s] /\ audited[s] <= audited'[s]
  <2>1. ASSUME NEW s \in Clicks \ {r}
        PROVE  misled[s] <= misled'[s] /\ done[s] <= done'[s] /\ audited[s] <= audited'[s]
    BY GhostTypes DEF Counts
  <2> QED BY <2>1 DEF Counts
<1>7. Expired \subseteq Expired'
  BY <1>1 DEF Expired, GoTrueGrows
<1>8. Misled \subseteq Misled'
  <2>1. \A s \in Clicks : misled[s] \in Nat /\ misled'[s] \in Nat
    BY <1>5 DEF CenterTypeOK
  <2> QED BY <1>6, <2>1 DEF Misled
<1>9. Onward
  BY <1>6, <1>7, <1>8 DEF Onward, GoTrueGrows
<1> QED BY <1>3, <1>5, <1>9 DEF Rest, Counts

LEMMA GrowsMove ==
    ASSUME CenterInv, NEW r \in Clicks, Counts(r), GoTrueGrows, faults' \in 0..MaxFaults,
           UNCHANGED <<session, refresh>>,
           NEW q, q \in Way', click' = [click EXCEPT ![r] = q], q.token = click[r].token,
           issued' = issued \/ excuse', revoked' => live' = {}, WayFits(r)'
    PROVE  CenterInv'
<1>1. CenterTypeOK /\ CenterTypeOK' /\ SessionInv /\ Onward /\ Rest(r) /\ click'[r] = q
  BY GrowsIs DEF CenterInv
<1>2. \A s \in Clicks : click'[s].token \in {click[s].token, session, 0}
  BY <1>1 DEF Rest
<1>3. SessionInv'
  BY <1>1, <1>2, SessionStays
<1> QED BY <1>1, <1>3, OneMoves

\* The reply that a request failed, whatever else the step does.
LEMMA GrowsFailing ==
    ASSUME CenterInv, NEW r \in Clicks, Counts(r), GoTrueGrows, faults' \in 0..MaxFaults,
           UNCHANGED <<session, refresh>>, OnItsWay(click[r]),
           click' = [click EXCEPT ![r] = Replied(click[r], "failed")],
           issued' = issued \/ excuse', revoked' => live' = {},
           done'[r] <= 1 + lost'[r] + misled'[r]
    PROVE  CenterInv'
<1> DEFINE q == Replied(click[r], "failed")
<1>1. CenterTypeOK /\ WayFits(r) /\ Way \subseteq Way'
  BY WayGrows DEF CenterInv, CenterTypeOK, GoTrueGrows
<1>2. q \in Way' /\ q.token = click[r].token
  BY <1>1, ClickType, RepliedIs
<1> HIDE DEF q
<1>3. CenterTypeOK' /\ Onward /\ click'[r] = q
  BY <1>1, <1>2, GrowsIs DEF q
<1>4. WayFits(r)'
  BY <1>1, <1>3, RepliedFailed DEF q
<1> QED BY <1>2, <1>4, GrowsMove DEF q

LEMMA PerformIs ==
    ASSUME CenterInv, NEW r \in Clicks, Perform(r)
    PROVE  /\ GoTrueGrows /\ (issued' = issued \/ excuse') /\ (revoked' => live' = {})
           /\ done' = [done EXCEPT ![r] = done[r] + 1] /\ done[r] <= lost[r] + misled[r]
           /\ issued' # issued => excuse'
           /\ OnItsWay(click[r]) /\ click[r].pc = "change" /\ click[r].step = "change"
           /\ click[r].change # "delete"
<1>1. /\ CenterTypeOK /\ WayFits(r) /\ issued \in Nat /\ live \subseteq 1..issued
      /\ item \in BOOLEAN /\ deleted \in BOOLEAN /\ revoked \in BOOLEAN /\ excuse \in BOOLEAN
      /\ click[r].pc = "change" /\ live # {} /\ (revoked => live = {})
  BY DEF CenterInv, CenterTypeOK, SessionInv, Perform, Authorized
<1>2. GoTrueGrows
  BY <1>1 DEF Perform, GoTrueGrows
<1>3. revoked' => live' = {}
  BY <1>1 DEF Perform
<1>4. /\ done' = [done EXCEPT ![r] = done[r] + 1]
      /\ issued' = issued \/ excuse'
  BY DEF Perform
<1> QED BY <1>1, <1>2, <1>3, <1>4 DEF WayFits, Place, MayPerform, OnItsWay

LEMMA CountsDone ==
    ASSUME CenterTypeOK, NEW r \in Clicks, done' = [done EXCEPT ![r] = done[r] + 1],
           UNCHANGED <<lost, misled, audited>>
    PROVE  /\ Counts(r) /\ done'[r] = done[r] + 1 /\ lost'[r] = lost[r]
           /\ misled'[r] = misled[r] /\ audited'[r] = audited[r]
<1>1. done[r] \in Nat /\ misled[r] \in Nat /\ audited[r] \in Nat
  BY GhostTypes
<1> QED BY <1>1 DEF CenterTypeOK, Counts

LEMMA AnswerBrokenKeeps ==
    ASSUME CenterInv, NEW r \in Clicks, AnswerBroken(r) PROVE CenterInv'
<1>1. /\ CenterTypeOK /\ Perform(r) /\ faults' \in 0..MaxFaults
      /\ UNCHANGED <<session, refresh, lost, misled, audited>>
      /\ click' = [click EXCEPT ![r] = Replied(click[r], "failed")]
  BY FaultTyped DEF CenterInv, AnswerBroken
<1>2. /\ GoTrueGrows /\ (issued' = issued \/ excuse') /\ (revoked' => live' = {})
      /\ done' = [done EXCEPT ![r] = done[r] + 1] /\ done[r] <= lost[r] + misled[r]
      /\ OnItsWay(click[r])
  BY <1>1, PerformIs
<1>3. /\ Counts(r) /\ done'[r] = done[r] + 1 /\ lost'[r] = lost[r] /\ misled'[r] = misled[r]
  BY <1>1, <1>2, CountsDone
<1>4. done'[r] <= 1 + lost'[r] + misled'[r]
  BY <1>1, <1>2, <1>3, GhostTypes
<1> QED BY <1>1, <1>2, <1>3, <1>4, GrowsFailing

LEMMA AnswerLostKeeps ==
    ASSUME CenterInv, NEW r \in Clicks, AnswerLost(r) PROVE CenterInv'
<1>1. /\ CenterTypeOK /\ WayFits(r) /\ Perform(r) /\ faults' \in 0..MaxFaults
      /\ UNCHANGED <<session, refresh, misled, audited>>
      /\ lost' = [lost EXCEPT ![r] = lost[r] + 1]
      /\ click' = [click EXCEPT ![r] = NextBase(click[r])]
  BY FaultTyped DEF CenterInv, AnswerLost
<1>2. /\ GoTrueGrows /\ (issued' = issued \/ excuse') /\ (revoked' => live' = {})
      /\ done' = [done EXCEPT ![r] = done[r] + 1] /\ done[r] <= lost[r] + misled[r]
      /\ OnItsWay(click[r]) /\ click[r].pc = "change" /\ click[r].step = "change"
      /\ click[r].change # "delete"
  BY <1>1, PerformIs
<1>3. /\ Counts(r) /\ done'[r] = done[r] + 1 /\ lost'[r] = lost[r] + 1 /\ misled'[r] = misled[r]
      /\ done[r] \in Nat /\ lost[r] \in Nat /\ misled[r] \in Nat
  <2>1. done[r] \in Nat /\ lost[r] \in Nat /\ misled[r] \in Nat /\ audited[r] \in Nat
    BY <1>1, GhostTypes
  <2> QED BY <1>1, <1>2, <2>1 DEF CenterTypeOK, Counts
<1>4. CASE ~(click[r].base < Bases)
  <2>1. done'[r] <= 1 + lost'[r] + misled'[r]
    BY <1>2, <1>3
  <2>2. click' = [click EXCEPT ![r] = Replied(click[r], "failed")]
    BY <1>1, <1>4 DEF NextBase
  <2> QED BY <1>1, <1>2, <1>3, <2>1, <2>2, GrowsFailing
<1>5. CASE click[r].base < Bases
  <2> DEFINE q == [click[r] EXCEPT !.base = @ + 1]
  <2>1. /\ click[r] \in Way /\ click[r].base \in 0..Bases /\ click[r].base + 1 \in 0..Bases
        /\ Way \subseteq Way'
    BY <1>1, <1>2, <1>5, ClickType, CenterAssumption, WayGrows DEF Way, GoTrueGrows, CenterTypeOK
  <2>2. /\ q \in Way /\ q.pc = "change" /\ q.step = click[r].step /\ q.change = click[r].change
        /\ q.token = click[r].token /\ q.retried = click[r].retried
        /\ q.upgrade = click[r].upgrade
    BY <1>2, <2>1 DEF Way
  <2>3. click' = [click EXCEPT ![r] = q]
    BY <1>1, <1>5 DEF NextBase
  <2> HIDE DEF q
  <2>4. CenterTypeOK' /\ Onward /\ click'[r] = q
    BY <1>1, <1>2, <1>3, <2>1, <2>2, <2>3, GrowsIs
  <2>5. misled'[r] \in Nat /\ done'[r] \in Nat /\ audited'[r] \in Nat
    BY <2>4 DEF CenterTypeOK
  <2>6. Standing(r)'
    BY <1>1, <1>2, <1>3, <2>2, <2>4, <2>5, StandingStays DEF WayFits
  <2>7. Place(r)'
    BY <1>2, <1>3, <2>2, <2>4 DEF Place, MayPerform
  <2>8. RefusalFits(r)'
    BY <2>2, <2>4 DEF RefusalFits
  <2> QED BY <1>1, <1>2, <1>3, <2>1, <2>2, <2>3, <2>6, <2>7, <2>8, GrowsMove DEF WayFits
<1> QED BY <1>4, <1>5

LEMMA ChangedKeeps ==
    ASSUME CenterInv, NEW r \in Clicks, Changed(r) PROVE CenterInv'
<1> DEFINE upgrade == IF issued' # issued THEN issued' ELSE 0
           q == [click[r] EXCEPT !.pc = "audit", !.base = 0, !.upgrade = upgrade]
<1>1. /\ CenterTypeOK /\ WayFits(r) /\ Perform(r) /\ faults' = faults /\ faults \in 0..MaxFaults
      /\ UNCHANGED <<session, refresh, lost, misled, audited>>
      /\ click' = [click EXCEPT ![r].pc = "audit", ![r].base = 0, ![r].upgrade = upgrade]
      /\ issued \in Nat /\ click \in [Clicks -> Way]
  BY DEF CenterInv, CenterTypeOK, Changed
<1>2. /\ GoTrueGrows /\ (issued' = issued \/ excuse') /\ (revoked' => live' = {})
      /\ done' = [done EXCEPT ![r] = done[r] + 1] /\ done[r] <= lost[r] + misled[r]
      /\ OnItsWay(click[r]) /\ click[r].pc = "change" /\ click[r].step = "change"
      /\ click[r].change # "delete"
  BY <1>1, PerformIs
<1>3. /\ Counts(r) /\ done'[r] = done[r] + 1 /\ lost'[r] = lost[r] /\ misled'[r] = misled[r]
      /\ done[r] \in Nat /\ lost[r] \in Nat /\ misled[r] \in Nat
  BY <1>1, <1>2, CountsDone, GhostTypes
<1>4. upgrade \in 0..issued' /\ (upgrade # 0 => excuse')
  BY <1>1, <1>2 DEF GoTrueGrows
<1> HIDE DEF upgrade
<1>5. /\ click[r] \in Way' /\ 0 \in 0..Bases
  BY <1>1, <1>2, ClickType, CenterAssumption, WayGrows DEF GoTrueGrows
<1>6. /\ q \in Way' /\ q.pc = "audit" /\ q.step = click[r].step /\ q.change = click[r].change
      /\ q.token = click[r].token /\ q.retried = click[r].retried /\ q.upgrade = upgrade
  BY <1>4, <1>5 DEF Way
<1>7. click' = [click EXCEPT ![r] = q]
  BY <1>1, <1>5 DEF Way
<1> HIDE DEF q
<1>8. CenterTypeOK' /\ Onward /\ click'[r] = q
  BY <1>1, <1>2, <1>3, <1>6, <1>7, GrowsIs
<1>9. misled'[r] \in Nat /\ done'[r] \in Nat /\ audited'[r] \in Nat
  BY <1>8 DEF CenterTypeOK
<1>10. Standing(r)'
  BY <1>1, <1>2, <1>3, <1>4, <1>6, <1>8, <1>9 DEF WayFits, Standing, Onward, OnItsWay
<1>11. Place(r)'
  BY <1>2, <1>3, <1>6, <1>8 DEF Place, MayPerform, IsPerformed
<1>12. RefusalFits(r)'
  BY <1>6, <1>8 DEF RefusalFits
<1> QED BY <1>1, <1>2, <1>3, <1>6, <1>7, <1>10, <1>11, <1>12, GrowsMove DEF WayFits

LEMMA DeleteUserIs ==
    ASSUME CenterInv, NEW r \in Clicks, DeleteUser(r)
    PROVE  /\ GoTrueGrows /\ issued' = issued /\ live' = {} /\ revoked'
           /\ done' = [done EXCEPT ![r] = done[r] + 1] /\ done[r] <= lost[r] + misled[r]
           /\ OnItsWay(click[r]) /\ click[r].pc = "delete" /\ click[r].step = "change"
<1>1. /\ WayFits(r) /\ issued \in Nat /\ live \subseteq 1..issued /\ excuse \in BOOLEAN
      /\ click[r].pc = "delete"
  BY DEF CenterInv, CenterTypeOK, DeleteUser
<1>2. /\ issued' = issued /\ excuse' = excuse /\ live' = {} /\ deleted' /\ revoked' /\ ~item'
      /\ {deleted', revoked', item'} \subseteq BOOLEAN
  BY DEF DeleteUser
<1>3. GoTrueGrows
  BY <1>1, <1>2 DEF GoTrueGrows
<1> QED BY <1>1, <1>2, <1>3 DEF DeleteUser, WayFits, Place, MayPerform, OnItsWay

LEMMA UserDeletedKeeps ==
    ASSUME CenterInv, NEW r \in Clicks, UserDeleted(r) PROVE CenterInv'
<1> DEFINE q == Going(click[r], "audit", 0)
<1>1. /\ CenterTypeOK /\ WayFits(r) /\ DeleteUser(r) /\ faults' = faults /\ faults \in 0..MaxFaults
      /\ UNCHANGED <<session, refresh, lost, misled, audited>>
      /\ click' = [click EXCEPT ![r].pc = "audit", ![r].base = 0]
  BY DEF CenterInv, CenterTypeOK, UserDeleted
<1>2. /\ GoTrueGrows /\ issued' = issued /\ live' = {} /\ revoked'
      /\ done' = [done EXCEPT ![r] = done[r] + 1] /\ done[r] <= lost[r] + misled[r]
      /\ OnItsWay(click[r]) /\ click[r].pc = "delete" /\ click[r].step = "change"
  BY <1>1, DeleteUserIs
<1>3. /\ Counts(r) /\ done'[r] = done[r] + 1 /\ lost'[r] = lost[r] /\ misled'[r] = misled[r]
      /\ done[r] \in Nat /\ lost[r] \in Nat /\ misled[r] \in Nat
  BY <1>1, <1>2, CountsDone, GhostTypes
<1>4. 0 \in 0..Bases /\ "audit" \in Places
      /\ Way \subseteq Way'
  BY <1>1, <1>2, CenterAssumption, WayGrows DEF GoTrueGrows, CenterTypeOK, Places
<1>5. /\ click' = [click EXCEPT ![r] = q] /\ q \in Way' /\ q.pc = "audit"
      /\ q.step = click[r].step /\ q.change = click[r].change /\ q.token = click[r].token
      /\ q.retried = click[r].retried /\ q.upgrade = click[r].upgrade
  <2>1. click' = [click EXCEPT ![r] = q]
    BY <1>1, GoingHow, Zenon
  <2>2. click[r] \in Way /\ Way \subseteq Way'
    BY <1>1, <1>4, ClickType
  <2> QED BY <1>4, <2>1, <2>2, GoingIs
<1> HIDE DEF q
<1>6. CenterTypeOK' /\ Onward /\ click'[r] = q
  BY <1>1, <1>2, <1>3, <1>5, GrowsIs
<1>7. misled'[r] \in Nat /\ done'[r] \in Nat /\ audited'[r] \in Nat
  BY <1>6 DEF CenterTypeOK
<1>8. Standing(r)'
  <2>1. done'[r] <= 1 + lost'[r] + misled'[r]
    BY <1>2, <1>3
  <2> QED BY <1>1, <1>2, <1>5, <1>6, <1>7, <2>1, StandingStays DEF WayFits
<1>9. Place(r)'
  BY <1>2, <1>3, <1>5, <1>6 DEF Place, MayPerform, IsPerformed
<1>10. RefusalFits(r)'
  BY <1>5, <1>6 DEF RefusalFits
<1> QED BY <1>1, <1>2, <1>3, <1>5, <1>8, <1>9, <1>10, GrowsMove DEF WayFits

LEMMA DeleteUnansweredKeeps ==
    ASSUME CenterInv, NEW r \in Clicks, DeleteUnanswered(r) PROVE CenterInv'
<1>1. /\ CenterTypeOK /\ DeleteUser(r) /\ faults' \in 0..MaxFaults
      /\ UNCHANGED <<session, refresh, lost, misled, audited>>
      /\ click' = [click EXCEPT ![r] = Replied(click[r], "failed")]
  BY FaultTyped DEF CenterInv, DeleteUnanswered
<1>2. /\ GoTrueGrows /\ issued' = issued /\ live' = {} /\ revoked'
      /\ done' = [done EXCEPT ![r] = done[r] + 1] /\ done[r] <= lost[r] + misled[r]
      /\ OnItsWay(click[r])
  BY <1>1, DeleteUserIs
<1>3. /\ Counts(r) /\ done'[r] = done[r] + 1 /\ lost'[r] = lost[r] /\ misled'[r] = misled[r]
  BY <1>1, <1>2, CountsDone
<1>4. done'[r] <= 1 + lost'[r] + misled'[r]
  BY <1>1, <1>2, <1>3, GhostTypes
<1> QED BY <1>1, <1>2, <1>3, <1>4, GrowsFailing

\* A 401 of SupaCloud is one more reply that misled.
LEMMA SupaCloudFailsKeeps ==
    ASSUME CenterInv, NEW r \in Clicks, SupaCloudFails(r) PROVE CenterInv'
<1>1. /\ CenterTypeOK /\ WayFits(r) /\ OnItsWay(click[r]) /\ click[r].pc \in {"delete", "audit"}
      /\ faults' \in 0..MaxFaults
      /\ UNCHANGED <<session, refresh, gotrue, done, lost, audited, excuse>>
  BY FaultTyped DEF CenterInv, SupaCloudFails, OnItsWay
<1>2. PICK reply \in {"failed", "401"} :
         /\ click' = [click EXCEPT ![r] = Replied(click[r], reply)]
         /\ misled' = [misled EXCEPT ![r] = IF reply = "401" THEN misled[r] + 1 ELSE misled[r]]
  BY DEF SupaCloudFails, PassedOn
<1>3. /\ Counts(r) /\ done'[r] = done[r] /\ lost'[r] = lost[r] /\ audited'[r] = audited[r]
      /\ misled'[r] = IF reply = "401" THEN misled[r] + 1 ELSE misled[r]
      /\ done[r] \in Nat /\ lost[r] \in Nat /\ misled[r] \in Nat
  <2>1. done[r] \in Nat /\ lost[r] \in Nat /\ misled[r] \in Nat /\ audited[r] \in Nat
    BY <1>1, GhostTypes
  <2>2. misled' \in [Clicks -> Nat]
    BY <1>1, <1>2, <2>1 DEF CenterTypeOK
  <2> QED BY <1>1, <1>2, <2>1, <2>2 DEF CenterTypeOK, Counts
<1>4. /\ GoTrueGrows /\ issued' = issued /\ (revoked' => live' = {}) /\ Way \subseteq Way'
      /\ revoked' = revoked /\ excuse' = excuse
  <2>1. GoTrueGrows
    BY <1>1 DEF CenterTypeOK, GoTrueGrows, gotrue
  <2> QED BY <1>1, <2>1, WayGrows DEF CenterInv, CenterTypeOK, SessionInv, gotrue
<1>5. done'[r] <= 1 + lost'[r] + misled'[r]
  BY <1>3, BoundStays
<1>6. CASE reply = "failed"
  BY <1>1, <1>2, <1>3, <1>4, <1>5, <1>6, GrowsFailing
<1>7. CASE reply = "401"
  <2> DEFINE q == Replied(click[r], reply)
  <2>1. /\ q \in Way' /\ q.pc = "replied" /\ q.reply = "401" /\ q.step = click[r].step
        /\ q.change = click[r].change /\ q.token = click[r].token
        /\ q.retried = click[r].retried /\ q.upgrade = click[r].upgrade
    BY <1>1, <1>4, <1>7, ClickType, RepliedIs
  <2>2. click' = [click EXCEPT ![r] = q]
    BY <1>2
  <2> HIDE DEF q
  <2>3. CenterTypeOK' /\ Onward /\ click'[r] = q
    BY <1>1, <1>3, <1>4, <2>1, <2>2, GrowsIs
  <2>4. misled'[r] \in Nat /\ done'[r] \in Nat /\ audited'[r] \in Nat
    BY <2>3 DEF CenterTypeOK
  <2>5. Standing(r)'
    BY <1>1, <1>5, <2>1, <2>3, <2>4, StandingStays DEF WayFits
  <2>6. Place(r)'
    BY <1>3, <1>7, <2>1, <2>3, BoundStays DEF Place, MayPerform
  <2>7. click[r].retried => revoked \/ excuse \/ TwoMishaps'
    <3>1. r \in Misled' /\ (misled[r] > 0 => misled'[r] > 1)
      BY <1>3, <1>7 DEF Misled
    <3>2. Expired \subseteq Expired'
      BY <2>3 DEF Onward
    <3> QED BY <1>1, <3>1, <3>2 DEF WayFits, Standing, TwoMishaps
  <2>8. RefusalFits(r)'
    <3>1. misled'[r] > 0
      BY <1>3, <1>7
    <3> QED BY <1>4, <2>1, <2>3, <2>7, <3>1 DEF RefusalFits
  <2> QED BY <1>1, <1>3, <1>4, <2>1, <2>2, <2>5, <2>6, <2>8, GrowsMove DEF WayFits
<1> QED BY <1>6, <1>7

LEMMA AuditKeeps ==
    ASSUME CenterInv, NEW r \in Clicks, Audit(r) PROVE CenterInv'
<1> DEFINE q == Replied(click[r], "ok")
<1>1. /\ CenterTypeOK /\ WayFits(r) /\ OnItsWay(click[r]) /\ click[r].pc = "audit"
      /\ faults' = faults /\ faults \in 0..MaxFaults
      /\ UNCHANGED <<session, refresh, gotrue, done, lost, misled, excuse>>
      /\ audited' = [audited EXCEPT ![r] = audited[r] + 1]
      /\ click' = [click EXCEPT ![r] = q]
  BY DEF CenterInv, CenterTypeOK, Audit, OnItsWay
<1>2. /\ Counts(r) /\ done'[r] = done[r] /\ lost'[r] = lost[r] /\ misled'[r] = misled[r]
      /\ audited'[r] = audited[r] + 1 /\ audited[r] \in Nat
  <2>1. done[r] \in Nat /\ lost[r] \in Nat /\ misled[r] \in Nat /\ audited[r] \in Nat
    BY <1>1, GhostTypes
  <2> QED BY <1>1, <2>1 DEF CenterTypeOK, Counts
<1>3. /\ GoTrueGrows /\ issued' = issued /\ (revoked' => live' = {}) /\ Way \subseteq Way'
      /\ revoked' = revoked
  <2>1. GoTrueGrows
    BY <1>1 DEF CenterTypeOK, GoTrueGrows, gotrue
  <2> QED BY <1>1, <2>1, WayGrows DEF CenterInv, CenterTypeOK, SessionInv, gotrue
<1>4. /\ q \in Way' /\ q.pc = "replied" /\ q.reply = "ok" /\ q.step = click[r].step
      /\ q.change = click[r].change /\ q.token = click[r].token
      /\ q.retried = click[r].retried /\ q.upgrade = click[r].upgrade
  BY <1>1, <1>3, ClickType, RepliedIs
<1> HIDE DEF q
<1>5. CenterTypeOK' /\ Onward /\ click'[r] = q
  BY <1>1, <1>2, <1>3, <1>4, GrowsIs
<1>6. misled'[r] \in Nat /\ done'[r] \in Nat /\ audited'[r] \in Nat /\ audited'[r] >= 1
  BY <1>2, <1>5 DEF CenterTypeOK
<1>7. Standing(r)'
  BY <1>1, <1>2, <1>4, <1>5, <1>6, BoundStays, StandingStays DEF WayFits
<1>8. Place(r)'
  BY <1>1, <1>2, <1>3, <1>4, <1>5, <1>6 DEF WayFits, Place, MayPerform, IsPerformed
<1>9. RefusalFits(r)'
  BY <1>4, <1>5 DEF RefusalFits
<1> QED BY <1>1, <1>2, <1>3, <1>4, <1>7, <1>8, <1>9, GrowsMove DEF WayFits

\* No request moves.
LEMMA Untouched ==
    ASSUME CenterInv, GoTrueGrows, UNCHANGED <<session, click, faults, ghosts>>,
           refresh' \in [token : 0..issued', answer : {None} \cup 0..issued'],
           SessionInv'
    PROVE  CenterInv'
<1>1. /\ CenterTypeOK /\ issued \in Nat /\ issued' \in Nat /\ issued <= issued'
      /\ UNCHANGED <<session, click, faults, done, lost, misled, audited>>
  BY DEF CenterInv, CenterTypeOK, GoTrueGrows, ghosts
<1>2. Way \subseteq Way' /\ 0..issued \subseteq 0..issued'
  BY <1>1, WayGrows
<1>3. CenterTypeOK'
  BY <1>1, <1>2 DEF CenterTypeOK, GoTrueGrows
<1>4. Onward
  <2>1. \A s \in Clicks : misled[s] <= misled[s] /\ done[s] <= done[s] /\ audited[s] <= audited[s]
    BY <1>1, GhostTypes
  <2>2. Expired \subseteq Expired' /\ Misled \subseteq Misled'
    BY <1>1 DEF Expired, Misled, GoTrueGrows
  <2> QED BY <1>1, <2>1, <2>2 DEF Onward, GoTrueGrows
<1>5. \A s \in Clicks : WayFits(s)'
  BY <1>1, <1>3, <1>4, OthersFit DEF CenterInv
<1> QED BY <1>3, <1>5 DEF CenterInv

LEMMA ServeRefreshKeeps ==
    ASSUME CenterInv, ServeRefresh PROVE CenterInv'
<1>1. /\ CenterTypeOK /\ SessionInv /\ issued \in Nat /\ live \subseteq 1..issued
      /\ session \in 0..issued /\ refresh \in [token : 0..issued, answer : {None} \cup 0..issued]
      /\ refresh # NoRefresh /\ refresh.answer = None
      /\ UNCHANGED <<session, click, faults, ghosts, item, deleted, revoked, excuse>>
      /\ UNCHANGED <<done, lost, misled, audited>>
      /\ {item, deleted, revoked, excuse} \subseteq BOOLEAN
      /\ None \notin Nat
  BY CenterAssumption DEF CenterInv, CenterTypeOK, ServeRefresh, ghosts
<1>2. CASE /\ ~revoked /\ issued' = issued + 1 /\ live' = live \cup {issued'}
           /\ refresh' = [refresh EXCEPT !.answer = issued']
  <2>1. GoTrueGrows
    BY <1>1, <1>2 DEF GoTrueGrows
  <2>2. /\ refresh' \in [token : 0..issued', answer : {None} \cup 0..issued']
        /\ refresh'.answer = issued'
    BY <1>1, <1>2
  <2>3. \A s \in Clicks : click'[s].token # issued'
    BY <1>1, <1>2, ClickType
  <2>4. TokensFit'
    BY <1>1, <1>2, <2>2, <2>3 DEF TokensFit
  <2>5. SessionSurvives'
    <3>1. Expired \subseteq Expired' /\ Misled' = Misled
      BY <1>1, <1>2 DEF Expired, Misled
    <3>2. TwoMishaps => TwoMishaps'
      BY <1>1, <3>1 DEF TwoMishaps
    <3> QED BY <1>1, <3>2 DEF SessionInv, SessionSurvives
  <2>6. SessionInv'
    BY <1>1, <1>2, <2>2, <2>4, <2>5 DEF SessionInv
  <2> QED BY <1>1, <2>1, <2>2, <2>6, Untouched
<1>3. CASE /\ revoked \/ refresh.token # issued
           /\ refresh' = [refresh EXCEPT !.answer = 0] /\ UNCHANGED <<issued, live>>
  <2>1. GoTrueGrows
    BY <1>1, <1>3 DEF GoTrueGrows
  <2>2. /\ refresh' \in [token : 0..issued', answer : {None} \cup 0..issued']
        /\ refresh'.answer = 0
    BY <1>1, <1>3
  <2>3. revoked \/ excuse
    BY <1>1, <1>3 DEF SessionInv, TokensFit
  <2>4. TokensFit'
    BY <1>1, <1>3, <2>2 DEF SessionInv, TokensFit
  <2>5. SessionSurvives'
    BY <1>1, <1>3 DEF SessionInv, SessionSurvives, TwoMishaps, Expired, Misled
  <2>6. SessionInv'
    BY <1>1, <1>3, <2>2, <2>3, <2>4, <2>5 DEF SessionInv
  <2> QED BY <1>1, <2>1, <2>2, <2>6, Untouched
<1> QED BY <1>2, <1>3 DEF ServeRefresh

\* GoTrue gives up tokens.
LEMMA FewerTokens ==
    ASSUME CenterInv, UNCHANGED <<session, refresh, click, item, deleted, issued, faults, ghosts, excuse>>,
           live' \subseteq live, revoked' \in BOOLEAN, revoked => revoked', revoked' => live' = {}
    PROVE  CenterInv'
<1>1. /\ CenterTypeOK /\ SessionInv /\ issued \in Nat /\ live \subseteq 1..issued
      /\ UNCHANGED <<session, refresh, click, item, deleted, issued, faults, done, lost, misled,
                     audited, excuse>>
      /\ {item, deleted, excuse} \subseteq BOOLEAN
      /\ refresh \in [token : 0..issued, answer : {None} \cup 0..issued]
  BY DEF CenterInv, CenterTypeOK, ghosts
<1>2. GoTrueGrows
  BY <1>1 DEF GoTrueGrows
<1>3. TwoMishaps => TwoMishaps'
  <2>1. Expired \subseteq Expired' /\ Misled' = Misled
    BY <1>1 DEF Expired, Misled
  <2> QED BY <1>1, <2>1 DEF TwoMishaps
<1>4. SessionInv'
  BY <1>1, <1>3 DEF SessionInv, SessionSurvives, TokensFit
<1> QED BY <1>1, <1>2, <1>4, Untouched

LEMMA ExpireKeeps ==
    ASSUME CenterInv, NEW t, Expire(t) PROVE CenterInv'
BY FewerTokens DEF CenterInv, CenterTypeOK, Expire

LEMMA RevokeKeeps ==
    ASSUME CenterInv, Revoke PROVE CenterInv'
BY FewerTokens DEF Revoke

(***************************************************************************)
(* The theorems.                                                           *)
(***************************************************************************)

LEMMA CenterInitKeeps ==
    ASSUME CenterInit PROVE CenterInv
<1>1. CenterTypeOK
  <2>1. /\ session = 1 /\ issued = 1 /\ live = {1} /\ refresh = NoRefresh
        /\ click = [r \in Clicks |-> Idle] /\ faults = 0
        /\ item /\ ~deleted /\ ~revoked /\ ~excuse
        /\ {item, deleted, revoked, excuse} \subseteq BOOLEAN
    BY DEF CenterInit
  <2>2. Idle \in Way
    <3>1. 0 \in 0..issued /\ 0 \in 0..Bases
      BY <2>1, CenterAssumption
    <3> QED BY <3>1 DEF Idle, Way
  <2>3. refresh \in [token : 0..issued, answer : {None} \cup 0..issued]
    BY <2>1 DEF NoRefresh
  <2>4. {done, lost, misled, audited} \subseteq [Clicks -> Nat]
    BY DEF CenterInit
  <2> QED BY <2>1, <2>2, <2>3, <2>4, CenterAssumption DEF CenterTypeOK
<1>2. SessionInv
  BY CenterAssumption DEF CenterInit, SessionInv, TokensFit, SessionSurvives, NoRefresh
<1>3. ASSUME NEW r \in Clicks PROVE WayFits(r)
  <2>1. click[r] = Idle /\ done[r] = 0 /\ lost[r] = 0 /\ misled[r] = 0
    BY DEF CenterInit
  <2> QED BY <1>1, <2>1, IdleIs
      DEF WayFits, Standing, RefusalFits, Place, OnItsWay, MayPerform
<1> QED BY <1>1, <1>2, <1>3 DEF CenterInv

LEMMA CenterNextKeeps ==
    ASSUME CenterInv, CenterNext PROVE CenterInv'
<1>1. ASSUME NEW r \in Clicks, Page(r) PROVE CenterInv'
  BY <1>1, RetryWithTokenKeeps, SignOutKeeps, LeaveAccountKeeps, ConcludeKeeps DEF Page
<1>2. ASSUME NEW r \in Clicks, Route(r) PROVE CenterInv'
  BY <1>2, AccountFoundKeeps, ItemsFoundKeeps, ChallengedKeeps, ChangedKeeps, UserDeletedKeeps,
     UserNotFoundKeeps, UnauthorizedKeeps, DeclineKeeps, AuditKeeps DEF Route
<1>3. ASSUME NEW r \in Clicks,
             \/ \E change \in Changes : Start(r, change)
             \/ UpgradeNotStored(r) \/ RemovalPretended(r)
             \/ ReplyLost(r) \/ NoAnswer(r) \/ AnswerLost(r) \/ AnswerBroken(r)
             \/ DeleteUnanswered(r) \/ SupaCloudFails(r)
      PROVE  CenterInv'
  BY <1>3, StartKeeps, UpgradeNotStoredKeeps, RemovalPretendedKeeps, ReplyLostKeeps,
     NoAnswerKeeps, AnswerLostKeeps, AnswerBrokenKeeps, DeleteUnansweredKeeps, SupaCloudFailsKeeps
<1>4. ASSUME \/ RefreshDone \/ RefreshRefused \/ RefreshFails \/ ServeRefresh \/ Revoke
             \/ \E t \in live : Expire(t)
      PROVE  CenterInv'
  BY <1>4, RefreshDoneKeeps, RefreshRefusedKeeps, RefreshFailsKeeps, ServeRefreshKeeps,
     RevokeKeeps, ExpireKeeps
<1> QED BY <1>1, <1>2, <1>3, <1>4, Zenon DEF CenterNext

LEMMA CenterStutters ==
    ASSUME CenterInv, UNCHANGED centerVars PROVE CenterInv'
<1>1. /\ UNCHANGED <<session, refresh, click, item, deleted, live, issued, revoked, faults,
                     done, lost, misled, audited, excuse>>
      /\ UNCHANGED ghosts
  BY DEF centerVars, gotrue, ghosts
<1>2. revoked \in BOOLEAN /\ (revoked => live = {})
  BY DEF CenterInv, CenterTypeOK, SessionInv
<1> QED BY <1>1, <1>2, FewerTokens

LEMMA CenterKept == CenterSpec => []CenterInv
<1>1. CenterInit => CenterInv
  BY CenterInitKeeps
<1>2. CenterInv /\ [CenterNext]_centerVars => CenterInv'
  BY CenterNextKeeps, CenterStutters
<1> QED BY <1>1, <1>2, PTL DEF CenterSpec

\* GoTrue, the audit log and the page tell the same story: a click changes the
\* account once, unless an answer was missed or a reply misled, and what the page
\* reports as done is done and audited.
THEOREM WhatIsReportedIsDone == CenterSpec => []CenterInvariant
<1>1. ASSUME CenterInv PROVE CenterInvariant
  <2>1. CenterTypeOK /\ \A r \in Clicks : WayFits(r)
    BY <1>1 DEF CenterInv
  <2>2. ChangedOnceUnlessLost
    BY <2>1 DEF ChangedOnceUnlessLost, WayFits, Standing
  <2>3. DoneIsTrue
    BY <2>1 DEF DoneIsTrue, WayFits, Place
  <2> QED BY <2>1, <2>2, <2>3 DEF CenterInvariant
<1> QED BY <1>1, CenterKept, PTL

\* The browser loses its session only to a revocation, a rotation it missed or
\* two mishaps with its tokens.
THEOREM SessionIsNotLostToRequests == CenterSpec => []SessionSurvives
<1>1. CenterInv => SessionSurvives
  BY DEF CenterInv, SessionInv
<1> QED BY <1>1, CenterKept, PTL

\* A refresh is started only for a token that was refused for good, or by a
\* request that was misled.
THEOREM RefreshIsDue == CenterSpec => RefreshesAreDue
<1> DEFINE Due ==
      refresh = NoRefresh /\ refresh' # NoRefresh =>
        \/ refresh'.token \notin live
        \/ \E r \in Clicks : misled[r] > 0 /\ click[r].token = refresh'.token
<1>1. ASSUME CenterInv, [CenterNext]_centerVars PROVE Due
  <2> SUFFICES ASSUME refresh = NoRefresh, refresh' # NoRefresh
               PROVE  \/ refresh'.token \notin live
                      \/ \E r \in Clicks : misled[r] > 0 /\ click[r].token = refresh'.token
    OBVIOUS
  <2>1. PICK r \in Clicks : RetryWithToken(r)
    <3>1. refresh.answer = None
      BY DEF NoRefresh
    <3> QED BY <1>1, <3>1
        DEF CenterNext, centerVars, Page, Route, Start, SignOut, LeaveAccount, Conclude,
            UpgradeNotStored, ReplyLost, RefreshDone, RefreshRefused, RefreshFails, AccountFound,
            ItemsFound, Challenged, Changed, RemovalPretended, Unauthorized, Decline, NoAnswer,
            AnswerLost, AnswerBroken, UserDeleted, UserNotFound, DeleteUnanswered, SupaCloudFails,
            Audit, ServeRefresh, Expire, Revoke
  <2>2. /\ click[r].pc = "replied" /\ click[r].reply = "401" /\ session = click[r].token
        /\ refresh'.token = session
    BY <2>1 DEF RetryWithToken, Retry, RefreshDue, NoRefresh
  <2>3. misled[r] > 0 \/ click[r].token \notin live
    BY <1>1, <2>2 DEF CenterInv, WayFits, RefusalFits
  <2> QED BY <2>2, <2>3
<1> QED BY <1>1, CenterKept, PTL DEF CenterSpec, RefreshesAreDue
=============================================================================
