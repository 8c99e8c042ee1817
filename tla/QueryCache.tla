----------------------------- MODULE QueryCache -----------------------------
(***************************************************************************)
(* The in-process query cache of the Go runtime (cache.go and the cache_*  *)
(* files) and the requests that use it: RunList and RunLookup (run.go)     *)
(* read through it, a successful command invalidates it (handle.go).       *)
(*                                                                         *)
(* The cache has two layers under one mutex: an LRU over all keys          *)
(* ("order"), which limits the number of entries, and per TTL an expirable *)
(* LRU, which drops entries by the real clock.  Only the map operations    *)
(* run under the mutex: a request looks up, reads the database and stores  *)
(* in three steps, and a command commits and invalidates in two.  A        *)
(* request judges time by ctx.Now, the moment it started, or by the clock  *)
(* where its context carries no time.                                      *)
(*                                                                         *)
(* A query has one TTL, so the branch of put for an entry stored under     *)
(* another TTL does not occur, and each key has one store.                 *)
(***************************************************************************)
EXTENDS Integers, Sequences, FiniteSets

CONSTANTS
    Keys,         \* cache keys: query, tenant, actor, user and arguments
    Queries,      \* query names
    QueryOf,      \* the query name an entry is stored under
    TtlOf,        \* CacheSpec.TTL of each query
    DefaultTTL,   \* defaultCacheTTL, 60 s
    Capacity,     \* newCache's capacity, 1024
    Readers,      \* query requests
    Timeless,     \* those whose ctx.Now is zero
    Writers,      \* command requests
    Invalidates,  \* the queries each command changes and invalidates
    MaxTime       \* bound on the clock

ASSUME QueryCacheAssumption ==
    /\ QueryOf \in [Keys -> Queries]
    /\ TtlOf \in [Queries -> Int]
    /\ DefaultTTL \in Nat \ {0}
    /\ Capacity \in Nat \ {0}
    /\ Timeless \subseteq Readers
    /\ Invalidates \in [Writers -> SUBSET Queries]
    /\ MaxTime \in Nat \ {0}
    /\ Keys # {}

VARIABLES
    now,      \* the real clock
    db,       \* version of what each query would read from the database
    floor,    \* newest version whose command has invalidated the query
    order,    \* the LRU list, oldest key first
    live,     \* keys present in the expirable stores, each in the store of its TTL
    entry,    \* the cacheEntry of each key of order
    reader,   \* where each query request is
    start,    \* its ctx.Now (0: none)
    key,      \* its cache key
    got,      \* the result it has in hand
    writer,   \* where each command is
    wrote     \* the versions its transaction wrote

cacheVars  == <<order, live, entry>>
readerVars == <<reader, start, key, got>>
writerVars == <<writer, wrote>>
vars == <<now, db, floor, cacheVars, readerVars, writerVars>>

(***************************************************************************)
(* A result: its version, when it was read from the database, whether its  *)
(* request carries a time of its own, and the floor of its query at that   *)
(* moment.  An entry adds both expiry times (0: never) and the floor when  *)
(* it was stored.  All but the version and the expiry times are history.   *)
(***************************************************************************)
NoResult == [value |-> 0, readAt |-> 0, clock |-> "ctx", readFloor |-> 0]
NoEntry  == [result |-> NoResult, expiresAt |-> 0, storeExpiry |-> 0, putFloor |-> 0]

Init ==
    /\ now = 1
    /\ db = [q \in Queries |-> 0]
    /\ floor = [q \in Queries |-> 0]
    /\ order = <<>>
    /\ live = {}
    /\ entry = [k \in Keys |-> NoEntry]
    /\ reader = [r \in Readers |-> "idle"]
    /\ start = [r \in Readers |-> 0]
    /\ key = [r \in Readers |-> CHOOSE k \in Keys : TRUE]
    /\ got = [r \in Readers |-> NoResult]
    /\ writer = [w \in Writers |-> "idle"]
    /\ wrote = [w \in Writers |-> [q \in Queries |-> 0]]
-----------------------------------------------------------------------------
NormalizeTTL(ttl) == CASE ttl = 0 -> DefaultTTL [] ttl < 0 -> 0 [] OTHER -> ttl

\* storeLocked: one expirable store per TTL.
StoreOf(k) == NormalizeTTL(TtlOf[QueryOf[k]])

\* Mutant: a negative TTL is added like any other.
ExpiryAtSigned(t, ttl) == t + (IF ttl = 0 THEN DefaultTTL ELSE ttl)

ExpiryAt(t, ttl) == IF ttl < 0 THEN 0 ELSE t + NormalizeTTL(ttl)

Passed(t, expiry) == expiry # 0 /\ t > expiry

Cached == {order[i] : i \in 1..Len(order)}

\* What the stores still answer for.
Servable == {k \in live : ~ Passed(now, entry[k].storeExpiry)}

\* Entries of keys that have left the stores are garbage.
Kept(L) == [k \in Keys |-> IF k \in L THEN entry[k] ELSE NoEntry]

\* The n-th position of a set of positions, counted from the left.
Nth(P, n) == CHOOSE i \in P : Cardinality({j \in P : j <= i}) = n

\* The list without the keys of S; the others keep their order.
Drop(S) ==
    LET kept == {i \in 1..Len(order) : order[i] \notin S}
    IN  [n \in 1..Cardinality(kept) |-> order[Nth(kept, n)]]

Tick ==
    /\ now < MaxTime
    /\ now' = now + 1
    /\ UNCHANGED <<db, floor, cacheVars, readerVars, writerVars>>

\* expirable.LRU: expired entries are dropped in the background.
DropExpired(k) ==
    /\ k \in live
    /\ Passed(now, entry[k].storeExpiry)
    /\ live' = live \ {k}
    /\ entry' = Kept(live')
    /\ UNCHANGED <<now, db, floor, order, readerVars, writerVars>>

\* FlushCache
Flush ==
    /\ order # <<>>
    /\ order' = <<>>
    /\ live' = {}
    /\ entry' = Kept({})
    /\ UNCHANGED <<now, db, floor, readerVars, writerVars>>
-----------------------------------------------------------------------------
\* A request arrives, with the time if it came over HTTP; policy and prelude have passed.
Arrive(r, k) ==
    /\ reader[r] = "idle"
    /\ reader' = [reader EXCEPT ![r] = "lookup"]
    /\ start' = [start EXCEPT ![r] = IF r \in Timeless THEN 0 ELSE now]
    /\ key' = [key EXCEPT ![r] = k]
    /\ UNCHANGED <<now, db, floor, cacheVars, got, writerVars>>

\* The request is answered and its context is gone.
Answered(r) ==
    /\ reader' = [reader EXCEPT ![r] = "idle"]
    /\ start' = [start EXCEPT ![r] = 0]
    /\ key' = [key EXCEPT ![r] = CHOOSE k \in Keys : TRUE]
    /\ got' = [got EXCEPT ![r] = NoResult]

ReturnHit(r) ==
    /\ reader[r] = "hit"
    /\ Answered(r)
    /\ UNCHANGED <<now, db, floor, cacheVars, writerVars>>

\* Mutant: lookupQueryCache and storeQueryCache take the time themselves.
RequestTimeIsNow(r) == now

\* The time a request judges by: ctx.Now, and the clock where it is zero.
RequestTime(r) == IF start[r] = 0 THEN now ELSE start[r]

Hit(r) ==
    /\ key[r] \in Cached \cap Servable
    /\ ~ Passed(RequestTime(r), entry[key[r]].expiresAt)

LookupHit(r) ==
    /\ reader[r] = "lookup"
    /\ Hit(r)
    /\ order' = Append(Drop({key[r]}), key[r])
    /\ got' = [got EXCEPT ![r] = entry[key[r]].result]
    /\ start' = [start EXCEPT ![r] = RequestTime(r)]
    /\ reader' = [reader EXCEPT ![r] = "hit"]
    /\ UNCHANGED <<now, db, floor, live, entry, key, writerVars>>

(***************************************************************************)
(* A miss removes the key from the list.  An entry that has expired by     *)
(* ctx.Now leaves the store too; one the store itself holds for expired is *)
(* left there for the background to drop.                                  *)
(***************************************************************************)
LookupMiss(r) ==
    /\ reader[r] = "lookup"
    /\ ~ Hit(r)
    /\ order' = Drop({key[r]})
    /\ live' = live \ ({key[r]} \cap Cached \cap Servable)
    /\ entry' = Kept(live')
    /\ reader' = [reader EXCEPT ![r] = "query"]
    /\ UNCHANGED <<now, db, floor, start, key, got, writerVars>>

\* DB().Query: the committed data of this moment.
QueryDatabase(r) ==
    /\ reader[r] = "query"
    /\ got' = [got EXCEPT ![r] = [value     |-> db[QueryOf[key[r]]],
                                  readAt    |-> now,
                                  clock     |-> IF start[r] = 0 THEN "wall" ELSE "ctx",
                                  readFloor |-> floor[QueryOf[key[r]]]]]
    /\ reader' = [reader EXCEPT ![r] = "store"]
    /\ UNCHANGED <<now, db, floor, cacheVars, start, key, writerVars>>

QueryFails(r) ==
    /\ reader[r] = "query"
    /\ Answered(r)
    /\ UNCHANGED <<now, db, floor, cacheVars, writerVars>>

\* put: what a full list gives up before k goes in.
Evicted(k) ==
    IF k \notin Cached /\ Len(order) >= Capacity THEN {Head(order)} ELSE {}

\* Mutant: an eviction forgets the stores.
PutLiveKeepsEvicted(k) == {live \cup {k}}

(***************************************************************************)
(* The stores after put: the evicted key leaves its store, k enters the    *)
(* store of its TTL.  Each store has the capacity for itself; entries that *)
(* have left the list but are not yet dropped may fill it, and then it     *)
(* gives up a key by its own recency.                                      *)
(***************************************************************************)
PutLive(k) ==
    LET L == (live \ Evicted(k)) \cup {k}
        store == {x \in L : StoreOf(x) = StoreOf(k)} IN
    IF Cardinality(store) <= Capacity THEN {L} ELSE {L \ {x} : x \in store \ {k}}

\* storeQueryCache and cache.put: the entry expires TTL after ctx.Now.
Store(r) ==
    LET k == key[r]
        ttl == TtlOf[QueryOf[k]] IN
    /\ reader[r] = "store"
    /\ order' = Append(Drop(Evicted(k) \cup {k}), k)
    /\ live' \in PutLive(k)
    /\ entry' = [Kept(live') EXCEPT ![k] =
                   [result      |-> got[r],
                    expiresAt   |-> ExpiryAt(RequestTime(r), ttl),
                    storeExpiry |-> ExpiryAt(now, ttl),
                    putFloor    |-> floor[QueryOf[k]]]]
    /\ Answered(r)
    /\ UNCHANGED <<now, db, floor, writerVars>>
-----------------------------------------------------------------------------
\* The transaction of a command commits.
CommitCommand(w) ==
    /\ writer[w] = "idle"
    /\ db' = [q \in Queries |-> IF q \in Invalidates[w] THEN db[q] + 1 ELSE db[q]]
    /\ wrote' = [wrote EXCEPT ![w] = db']
    /\ writer' = [writer EXCEPT ![w] = "invalidate"]
    /\ UNCHANGED <<now, floor, cacheVars, readerVars>>

\* Mutant: the loop stops at the first entry it removes.
DroppedFirst(w) ==
    LET D == {k \in Cached \cap Servable : QueryOf[k] \in Invalidates[w]}
    IN  IF D = {} THEN {} ELSE {CHOOSE k \in D : TRUE}

Dropped(w) == {k \in Cached \cap Servable : QueryOf[k] \in Invalidates[w]}

\* invalidateQueries: every servable entry of the named queries, of all tenants.
InvalidateQueries(w) ==
    /\ writer[w] = "invalidate"
    /\ order' = Drop(Dropped(w))
    /\ live' = live \ Dropped(w)
    /\ entry' = Kept(live')
    /\ floor' = [q \in Queries |->
                   IF q \in Invalidates[w] /\ wrote[w][q] > floor[q]
                   THEN wrote[w][q] ELSE floor[q]]
    /\ writer' = [writer EXCEPT ![w] = "done"]
    /\ UNCHANGED <<now, db, readerVars, wrote>>

(***************************************************************************)
(* The command ran in another instance, whose cache is another one, or the *)
(* answer to its COMMIT was lost: nobody invalidates here.                 *)
(***************************************************************************)
NeverInvalidates(w) ==
    /\ writer[w] = "invalidate"
    /\ writer' = [writer EXCEPT ![w] = "done"]
    /\ UNCHANGED <<now, db, floor, cacheVars, readerVars, wrote>>
-----------------------------------------------------------------------------
Next ==
    \/ Tick
    \/ Flush
    \/ \E k \in Keys : DropExpired(k)
    \/ \E r \in Readers : \/ \E k \in Keys : Arrive(r, k)
                          \/ LookupHit(r) \/ ReturnHit(r) \/ LookupMiss(r)
                          \/ QueryDatabase(r) \/ QueryFails(r) \/ Store(r)
    \/ \E w \in Writers : \/ CommitCommand(w) \/ InvalidateQueries(w)
                          \/ NeverInvalidates(w)

Spec == Init /\ [][Next]_vars
-----------------------------------------------------------------------------
Result == [value : Nat, readAt : 0..MaxTime, clock : {"ctx", "wall"}, readFloor : Nat]

TypeOK ==
    /\ now \in 1..MaxTime
    /\ db \in [Queries -> Nat]
    /\ floor \in [Queries -> Nat]
    /\ order \in Seq(Keys)
    /\ live \subseteq Keys
    /\ entry \in [Keys -> [result : Result, expiresAt : Nat,
                           storeExpiry : Nat, putFloor : Nat]]
    /\ reader \in [Readers -> {"idle", "lookup", "hit", "query", "store"}]
    /\ start \in [Readers -> 0..MaxTime]
    /\ key \in [Readers -> Keys]
    /\ got \in [Readers -> Result]
    /\ writer \in [Writers -> {"idle", "invalidate", "done"}]
    /\ wrote \in [Writers -> [Queries -> Nat]]

(***************************************************************************)
(* The two layers stay in step through every miss, eviction, expiry, flush *)
(* and invalidation: what the stores still answer for is in the LRU list,  *)
(* which names no key twice and never exceeds the capacity.  (An entry     *)
(* only the stores held could be neither evicted nor invalidated.)         *)
(***************************************************************************)
LayersAgree ==
    /\ Servable \subseteq Cached
    /\ Cardinality(Cached) = Len(order)
    /\ Len(order) <= Capacity

(***************************************************************************)
(* How stale a cached answer can be: what a hit returns was the content of *)
(* the database at most one TTL before the time its request judges by,     *)
(* even if the request that filled the cache was slow, if no command ever  *)
(* invalidates, or if the background expiry is late.  A filling request    *)
(* without a time of its own counts the TTL from its put, however long ago *)
(* it read: its entries are not meant.                                     *)
(***************************************************************************)
StalenessBounded ==
    \A r \in Readers :
        reader[r] = "hit" /\ TtlOf[QueryOf[key[r]]] >= 0 /\ got[r].clock = "ctx" =>
            start[r] <= got[r].readAt + NormalizeTTL(TtlOf[QueryOf[key[r]]])

(***************************************************************************)
(* An invalidation removes the outdated entries of its queries for every   *)
(* tenant and all arguments.  An entry older than a finished invalidation  *)
(* exists only where a request read the database before it and stored      *)
(* after it; nothing else escapes.                                         *)
(***************************************************************************)
StaleOnlyByOverlap ==
    \A k \in Servable :
        entry[k].result.value < floor[QueryOf[k]] =>
            /\ entry[k].result.readFloor < floor[QueryOf[k]]
            /\ entry[k].putFloor > entry[k].result.value
=============================================================================
