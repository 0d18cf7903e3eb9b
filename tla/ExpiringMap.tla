---------------------------- MODULE ExpiringMap ----------------------------
(***************************************************************************)
(* BoundedExpiringMap of utils/rate-limit.ts: a map of bounded size whose  *)
(* entries expire.  Expired entries are removed all at once, by the first  *)
(* operation at or after nextExpiry.                                       *)
(***************************************************************************)
EXTENDS Naturals, FiniteSetsExt, Functions

CONSTANTS
    MaxEntries, \* the capacity
    Never,      \* a time after every expiry: POSITIVE_INFINITY
    Null

EmptyMap == [entries |-> <<>>, nextExpiry |-> Never]

Live(map, now) ==
    {k \in DOMAIN map.entries : map.entries[k].expiresAt > now}

RemoveExpired(map, now) ==
    IF now < map.nextExpiry
    THEN map
    ELSE [entries |-> Restrict(map.entries, Live(map, now)),
          nextExpiry |->
            Min({map.entries[k].expiresAt : k \in Live(map, now)} \cup {Never})]

\* get() and set() work on a map from which the expired entries are removed.
StateOf(map, k) ==
    IF k \in DOMAIN map.entries THEN map.entries[k].state ELSE Null

\* Wrong: one entry too many.
HasOneMore(map, k) ==
    k \in DOMAIN map.entries \/ Cardinality(DOMAIN map.entries) <= MaxEntries

HasRoom(map, k) ==
    k \in DOMAIN map.entries \/ Cardinality(DOMAIN map.entries) < MaxEntries

With(entries, k, entry) ==
    [j \in DOMAIN entries \cup {k} |-> IF j = k THEN entry ELSE entries[j]]

\* Wrong: nextExpiry follows the entry stored last.
PutLast(map, k, state, expiresAt) ==
    [entries |-> With(map.entries, k, [state |-> state, expiresAt |-> expiresAt]),
     nextExpiry |-> expiresAt]

Put(map, k, state, expiresAt) ==
    [entries |-> With(map.entries, k, [state |-> state, expiresAt |-> expiresAt]),
     nextExpiry |-> Min({map.nextExpiry, expiresAt})]

Delete(map, k) ==
    [map EXCEPT !.entries = Restrict(@, DOMAIN @ \ {k})]
=============================================================================
