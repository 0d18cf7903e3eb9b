----------------------------- MODULE AdminLogin -----------------------------
(***************************************************************************)
(* Logins to the administration API: auth/index.ts with utils/rate-limit.ts*)
(*                                                                         *)
(* Every request is counted against a limit per minute and address; a      *)
(* login is refused while its address is locked out, and a failed one is   *)
(* counted towards the lockout.  Limits and lockout are those of the       *)
(* security policy, a row that administrators change and that the process  *)
(* caches for a while.  Requests interleave at every await, and each of    *)
(* the four steps awaits the policy first.                                 *)
(***************************************************************************)
EXTENDS ExpiringMap

CONSTANTS
    Requests,   \* requests
    Keys,       \* client addresses
    Policies,   \* rows of the policy, and Null for an empty table
    EnvPolicy,  \* the policy of the environment variables
    Window,     \* RATE_LIMIT_WINDOW_MS
    CacheTime,  \* SECURITY_CONFIG_CACHE_MS
    MaxTime,    \* bound: the clock
    MaxEvents   \* bound: changes of the policy and reads of it that fail

\* The route that stores a policy admits positive numbers only.
Policy == [protect : BOOLEAN, max : Nat \ {0}, lockout : Nat \ {0}, rpm : Nat \ {0},
           sso : BOOLEAN]
Failures == [count : Nat, until : Nat]

ASSUME LoginAssumption ==
    /\ Policies \ {Null} \subseteq Policy /\ EnvPolicy \in Policy
    /\ MaxEntries \in Nat \ {0} /\ Window \in Nat \ {0} /\ CacheTime \in Nat
    /\ MaxTime \in Nat /\ CacheTime < MaxTime /\ MaxEvents \in Nat /\ Never \in Nat
    /\ Null \notin Nat /\ Null \notin Failures
    /\ \A p \in (Policies \ {Null}) \cup {EnvPolicy} :
           MaxTime + Window + p.lockout < Never

VARIABLES
    now,      \* Date.now()
    db,       \* the row in the database
    cfg,      \* the cached row, and the time from which it is read again
    attempts, \* loginAttempts
    rates,    \* rateLimits
    req,      \* req[r]: the local state of request r
    events,
    \* History
    held,     \* held[p]: the last time at which p was the row, 0 if never
    failedAt, \* the start of the last read that failed, 0 if none
    lockout,  \* lockout[k]: until when the last failure of k locks it out
    window    \* window[k]: when its window opened, and the requests admitted

history == <<held, failedAt, lockout, window>>
loginVars == <<now, db, cfg, attempts, rates, req, events, history>>

Steps == {"limit", "check", "token", "record"}

\* A request first meets the limit; its address is known when it is counted.
Arrived == [pc |-> "policy", step |-> "limit", key |-> Null, asked |-> 0, row |-> Null]
Closed == [from |-> 0, count |-> 0]

\* Time 0 lies before every time that matters.
LoginInit ==
    /\ now = CacheTime + 1
    /\ db \in Policies
    /\ cfg = [row |-> Null, expires |-> 0]
    /\ attempts = EmptyMap /\ rates = EmptyMap
    /\ req = [r \in Requests |-> Arrived]
    /\ events = 0
    /\ held = [p \in Policies \cup {Null} |-> IF p = db THEN now ELSE 0]
    /\ failedAt = 0
    /\ lockout = [k \in Keys |-> 0]
    /\ window = [k \in Keys |-> Closed]

-----------------------------------------------------------------------------
(* The four steps of a login, each under the row it was given *)

\* Without a row the environment decides.
Effective(row) == IF row = Null THEN EnvPolicy ELSE row

At(pc, step, k) == [pc |-> pc, step |-> step, key |-> k, asked |-> 0, row |-> Null]

\* The next step starts with the policy.
GoTo(r, step, k) == req' = [req EXCEPT ![r] = At("policy", step, k)]
End(r) == req' = [req EXCEPT ![r] = At("done", Null, Null)]

\* Reply 429; the step that refuses stays visible.
Refuse(r, k) == req' = [req EXCEPT ![r] = At("refused", @.step, k)]

CountUp(map, k) == [map EXCEPT !.entries[k].state = @ + 1]

\* Wrong: one request too many.
CountedOver(map, k, limit) ==
    IF StateOf(map, k) = Null
    THEN IF HasRoom(map, k) THEN {Put(map, k, 1, now + Window)} ELSE {}
    ELSE IF StateOf(map, k) > limit THEN {}
         ELSE {CountUp(map, k)}

\* consume(): the first request of a window sets its end, the others do not.
Counted(map, k, limit) ==
    IF StateOf(map, k) = Null
    THEN IF HasRoom(map, k) THEN {Put(map, k, 1, now + Window)} ELSE {}
    ELSE IF StateOf(map, k) >= limit THEN {}
         ELSE {CountUp(map, k)}

\* consumeRateLimit(), for a login or for another request.
Limit(r, row, k) ==
    LET map == RemoveExpired(rates, now)
        counted == Counted(map, k, Effective(row).rpm)
    IN  /\ IF counted = {}
           THEN rates' = map /\ Refuse(r, k) /\ UNCHANGED window
           ELSE /\ rates' \in counted
                /\ window' = [window EXCEPT ![k] =
                     IF @ = Closed THEN [from |-> now, count |-> 1]
                     ELSE [from |-> @.from, count |-> @.count + 1]]
                /\ GoTo(r, "check", k) \/ End(r)
        /\ UNCHANGED <<attempts, lockout>>

\* loginLocked(): without a row, the protection is on.
Check(r, row, k) ==
    LET map == RemoveExpired(attempts, now)
        state == StateOf(map, k)
    IN  /\ IF ~Effective(row).protect
           THEN UNCHANGED attempts /\ GoTo(r, "token", k)
           ELSE /\ attempts' = map
                /\ IF state # Null /\ state.until > now
                   THEN Refuse(r, k)
                   ELSE GoTo(r, "token", k)
        /\ UNCHANGED <<rates, lockout, window>>

\* The right token, where tokenAuthAllowed(), clears the failures.
Token(r, row, k) ==
    /\ \/ /\ ~Effective(row).sso
          /\ attempts' = Delete(attempts, k)
          /\ lockout' = [lockout EXCEPT ![k] = 0]
          /\ End(r)
       \/ GoTo(r, "record", k) /\ UNCHANGED <<attempts, lockout>>
    /\ UNCHANGED <<rates, window>>

\* Wrong: the entry is kept for a window, however long the lockout.
RetainedForWindow(policy) == Window
Retention(policy) == IF policy.lockout > Window THEN policy.lockout ELSE Window

\* recordLoginFailure(): a failure under a lockout renews it.
Record(r, row, k) ==
    LET policy == Effective(row)
        map == RemoveExpired(attempts, now)
        state == StateOf(map, k)
        current == IF state = Null THEN [count |-> 0, until |-> 0] ELSE state
        count == IF current.until > now THEN current.count ELSE current.count + 1
        until == IF count >= policy.max THEN now + policy.lockout ELSE 0
    IN  /\ IF HasRoom(map, k)
           THEN /\ attempts' = Put(map, k, [count |-> count, until |-> until],
                                   now + Retention(policy))
                /\ lockout' = [lockout EXCEPT ![k] = until]
                /\ End(r)
           ELSE attempts' = map /\ Refuse(r, k) /\ UNCHANGED lockout
        /\ UNCHANGED <<rates, window>>

Handle(r, row) ==
    \/ req[r].step = "limit" /\ \E k \in Keys : Limit(r, row, k)
    \/ req[r].step = "check" /\ Check(r, row, req[r].key)
    \/ req[r].step = "token" /\ Token(r, row, req[r].key)
    \/ req[r].step = "record" /\ Record(r, row, req[r].key)

-----------------------------------------------------------------------------
(* The policy, and the clock *)

\* getActiveSecurityConfig(): the cached row serves until its time is over.
UseCached(r) ==
    /\ req[r].pc = "policy" /\ now < cfg.expires
    /\ Handle(r, cfg.row)
    /\ UNCHANGED <<now, db, cfg, events, held, failedAt>>

\* Requests that find it over read the row, each for itself.  The query sees
\* the row as it is now: one that sees it later is only fresher.
StartRead(r) ==
    /\ req[r].pc = "policy" /\ now >= cfg.expires
    /\ req' = [req EXCEPT ![r].pc = "reading", ![r].asked = now, ![r].row = db]
    /\ UNCHANGED <<now, db, cfg, attempts, rates, events, history>>

\* Wrong: the age of the row counts from the end of the read.
FreshFromNow(asked) == now + CacheTime
FreshUntil(asked) == asked + CacheTime

\* The reads may end in any order.
ReadReturns(r) ==
    /\ req[r].pc = "reading"
    /\ cfg' = [row |-> req[r].row, expires |-> FreshUntil(req[r].asked)]
    /\ Handle(r, req[r].row)
    /\ UNCHANGED <<now, db, events, held, failedAt>>

\* A read that fails leaves the row cached before.
ReadFails(r) ==
    /\ req[r].pc = "reading" /\ events < MaxEvents
    /\ events' = events + 1
    /\ cfg' = [cfg EXCEPT !.expires = FreshUntil(req[r].asked)]
    /\ failedAt' = IF failedAt > req[r].asked THEN failedAt ELSE req[r].asked
    /\ Handle(r, cfg.row)
    /\ UNCHANGED <<now, db, held>>

\* An administrator, possibly by another process, stores another policy.
ChangePolicy(p) ==
    /\ events < MaxEvents /\ p # db
    /\ events' = events + 1
    /\ db' = p
    /\ held' = [held EXCEPT ![p] = now]
    /\ UNCHANGED <<now, cfg, attempts, rates, req, failedAt, lockout, window>>

Tick ==
    /\ now < MaxTime
    /\ now' = now + 1
    /\ held' = [held EXCEPT ![db] = now']
    /\ window' = [k \in Keys |->
                    IF window[k].from + Window <= now' THEN Closed ELSE window[k]]
    /\ UNCHANGED <<db, cfg, attempts, rates, req, events, failedAt, lockout>>

LoginNext ==
    \/ \E r \in Requests : UseCached(r) \/ StartRead(r)
                              \/ ReadReturns(r) \/ ReadFails(r)
    \/ \E p \in Policies : ChangePolicy(p)
    \/ Tick

LoginSpec == LoginInit /\ [][LoginNext]_loginVars

-----------------------------------------------------------------------------
(* Properties *)

BoundedMap(map, States) ==
    /\ DOMAIN map.entries \subseteq Keys /\ Cardinality(DOMAIN map.entries) <= MaxEntries
    /\ \A k \in DOMAIN map.entries :
           map.entries[k].state \in States /\ map.entries[k].expiresAt \in Nat
    /\ map.nextExpiry \in 0 .. Never

\* Every variable has its type, and neither map exceeds its capacity, which is
\* what bounds the memory of the limiter.
LoginTypeOK ==
    /\ now \in Nat /\ db \in Policies
    /\ cfg \in [row : Policies \cup {Null}, expires : Nat]
    /\ BoundedMap(rates, Nat)
    /\ BoundedMap(attempts, Failures)
    /\ req \in [Requests ->
         [pc : {"policy", "reading", "refused", "done"},
          step : Steps \cup {Null}, key : Keys \cup {Null}, asked : Nat,
          row : Policies \cup {Null}]]
    /\ window \in [Keys -> [from : Nat, count : Nat]] /\ lockout \in [Keys -> Nat]
    /\ held \in [Policies \cup {Null} -> Nat] /\ failedAt \in Nat /\ events \in 0..MaxEvents

\* The policy a request is given without a read was in force less than the
\* cache time ago, or a read failed within it: reads that overlap end in any
\* order, and a slow one must not bring an old row back for a full cache time
\* (getActiveSecurityConfig counts the age of the row from before its read).
PolicyIsFresh ==
    now < cfg.expires =>
        \/ held[cfg.row] + CacheTime >= cfg.expires
        \/ failedAt + CacheTime >= cfg.expires

\* The memory of a process: bounded maps, and a policy that is not too old.
LoginInvariant == LoginTypeOK /\ PolicyIsFresh

Refused(r, step) == req[r].pc # "refused" /\ At("refused", step, req'[r].key) = req'[r]

RefusalIsDue(r) ==
    LET k == req'[r].key
    IN  /\ Refused(r, "limit") =>
              IF window[k] # Closed
              THEN window[k].count >= Effective(cfg'.row).rpm
              ELSE Cardinality({j \in Keys : window[j] # Closed}) >= MaxEntries
        /\ Refused(r, "check") => lockout[k] > now
        /\ Refused(r, "record") => Cardinality(Live(attempts, now) \ {k}) >= MaxEntries

\* A reply 429 has its reason in what happened, not in what the maps happen to
\* keep: the address used its window up, or as many other addresses as the map
\* holds have open windows; the address is locked out; or the failures kept,
\* none of them over, leave no room (expired entries are removed all at once,
\* when nextExpiry says so, and refuse nobody).
RefusalsAreDue == [][\A r \in Requests : RefusalIsDue(r)]_loginVars

CountIsDue(k) ==
    window'[k].count > window[k].count => window'[k].count <= Effective(cfg'.row).rpm

PassIsDue(r) ==
    req[r].step = "check" /\ req'[r].step = "token" /\ Effective(cfg'.row).protect
    => lockout[req[r].key] <= now

\* Conversely, nobody gets past the limits: within one window an address is
\* admitted as often as the policy in force at the last admission allows,
\* whatever other addresses do to the map and whenever the policy is read again;
\* and where the policy protects, an address that its last failure locked out is
\* refused until the lockout is over, however many windows pass meanwhile
\* (recordLoginFailure keeps the entry as long).
AdmissionsAreDue ==
    [][(\A k \in Keys : CountIsDue(k)) /\ (\A r \in Requests : PassIsDue(r))]_loginVars
=============================================================================
