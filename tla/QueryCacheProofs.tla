-------------------------- MODULE QueryCacheProofs --------------------------
(***************************************************************************)
(* Proofs about the query cache, for any capacity, any queries and TTLs,   *)
(* any number of requests and commands and any clock bound.                *)
(***************************************************************************)
EXTENDS QueryCache, FiniteSetTheorems, SequenceTheorems, TLAPS

(***************************************************************************)
(* Drop.  Counting from the left numbers the positions of a finite set     *)
(* 1, 2, ... without gaps, so the list that is left has no holes.          *)
(***************************************************************************)
Rank(P, i) == Cardinality({j \in P : j <= i})

LEMMA RankInjective ==
    ASSUME NEW P \in SUBSET Int, IsFiniteSet(P),
           NEW i \in P, NEW k \in P, Rank(P, i) = Rank(P, k)
    PROVE  i = k
<1>1. ASSUME NEW a \in P, NEW b \in P, a < b, Rank(P, a) = Rank(P, b)
      PROVE  FALSE
  <2> DEFINE A == {j \in P : j <= a}
             B == {j \in P : j <= b}
  <2>0. a \in Int /\ b \in Int /\ \A j \in P : j \in Int
      OBVIOUS
  <2>1. A \in SUBSET B
    <3>1. ASSUME NEW j \in P, j <= a PROVE j <= b
        BY <3>1, <2>0, <1>1
    <3>2. QED
        BY <3>1
  <2>2. IsFiniteSet(B)
    <3>1. B \in SUBSET P
        OBVIOUS
    <3>2. QED
        BY ONLY <3>1, IsFiniteSet(P), FS_Subset
  <2>3. Cardinality(A) = Cardinality(B)
      BY <1>1 DEF Rank
  <2>4. A = B
      BY ONLY <2>1, <2>2, <2>3, FS_Subset
  <2>5. b \in B
      BY <2>0
  <2>6. b \notin A
      BY <2>0, <1>1
  <2>7. QED
      BY <2>4, <2>5, <2>6
<1>2. QED
    BY <1>1

LEMMA NthProperty ==
    ASSUME NEW P \in SUBSET Int, IsFiniteSet(P), NEW n \in 1..Cardinality(P)
    PROVE  Nth(P, n) \in P /\ Rank(P, Nth(P, n)) = n
<1> DEFINE f == [i \in P |-> Rank(P, i)]
           I == 1..Cardinality(P)
<1>0. Cardinality(P) \in Nat
    BY FS_CardinalityType
<1>1. ASSUME NEW i \in P PROVE Rank(P, i) \in I
  <2> DEFINE A == {j \in P : j <= i}
  <2>1. A \in SUBSET P /\ i \in A
      OBVIOUS
  <2>2. IsFiniteSet(A) /\ Cardinality(A) <= Cardinality(P)
      BY ONLY <2>1, IsFiniteSet(P), FS_Subset
  <2>3. Cardinality(A) \in Nat /\ (Cardinality(A) = 0 <=> A = {})
      BY ONLY <2>2, FS_CardinalityType, FS_EmptySet
  <2>4. QED
      BY <2>1, <2>2, <2>3, <1>0 DEF Rank
<1>2. f \in Injection(P, I)
    BY <1>1, RankInjective DEF Injection, IsInjective
<1>3. IsFiniteSet(I) /\ Cardinality(I) = Cardinality(P)
    BY <1>0, FS_Interval
<1>4. f \in Surjection(P, I)
  <2> HIDE DEF f, I
  <2>1. QED
      BY <1>2, <1>3, FS_Injection
<1>5. \E i \in P : Rank(P, i) = n
    BY <1>4 DEF Surjection
<1>6. QED
    BY <1>5 DEF Nth, Rank

Positions(S) == {i \in 1..Len(order) : order[i] \notin S}

Distinct(s) == \A i, j \in 1..Len(s) : s[i] = s[j] => i = j

LEMMA PositionsFinite ==
    ASSUME order \in Seq(Keys), NEW S
    PROVE  /\ Positions(S) \in SUBSET Int
           /\ IsFiniteSet(Positions(S))
           /\ Cardinality(Positions(S)) \in Nat
           /\ Cardinality(Positions(S)) <= Len(order)
           /\ Cardinality(Positions(S)) = Len(order) => S \cap Cached = {}
<1>1. Len(order) \in Nat
    OBVIOUS
<1>2. IsFiniteSet(1..Len(order)) /\ Cardinality(1..Len(order)) = Len(order)
  <2> DEFINE n == Len(order)
  <2>1. n \in Nat
      BY <1>1
  <2> HIDE DEF n
  <2>2. IsFiniteSet(1..n) /\ Cardinality(1..n) = n
      BY <2>1, FS_Interval
  <2>3. QED
      BY <2>2 DEF n
<1>3. Positions(S) \in SUBSET (1..Len(order))
    BY DEF Positions
<1>4. /\ IsFiniteSet(Positions(S))
      /\ Cardinality(Positions(S)) <= Len(order)
      /\ Len(order) = Cardinality(Positions(S)) => 1..Len(order) = Positions(S)
  <2> HIDE DEF Positions
  <2>1. QED
      BY <1>2, <1>3, FS_Subset
<1>5. Cardinality(Positions(S)) \in Nat
    BY <1>4, FS_CardinalityType
<1>6. 1..Len(order) = Positions(S) => S \cap Cached = {}
    BY DEF Positions, Cached
<1>7. QED
    BY <1>3, <1>4, <1>5, <1>6

LEMMA DropIs ==
    ASSUME NEW S
    PROVE  Drop(S) = [n \in 1..Cardinality(Positions(S)) |-> order[Nth(Positions(S), n)]]
    BY DEF Drop, Positions

(***************************************************************************)
(* What Drop leaves: exactly the other keys, still distinct, and a shorter *)
(* list when a key of S was in it.                                         *)
(***************************************************************************)
LEMMA DropProperties ==
    ASSUME order \in Seq(Keys), NEW S
    PROVE  /\ Drop(S) \in Seq(Keys)
           /\ Len(Drop(S)) <= Len(order)
           /\ S \cap Cached # {} => Len(Drop(S)) < Len(order)
           /\ {Drop(S)[i] : i \in 1..Len(Drop(S))} = Cached \ S
           /\ Distinct(order) => Distinct(Drop(S))
<1> DEFINE P == Positions(S)
           c == Cardinality(P)
<1>1. /\ P \in SUBSET Int /\ IsFiniteSet(P) /\ c \in Nat /\ c <= Len(order)
      /\ c = Len(order) => S \cap Cached = {}
    BY PositionsFinite
<1>2. \A n \in 1..c : Nth(P, n) \in P /\ Rank(P, Nth(P, n)) = n
  <2> HIDE DEF P
  <2>1. QED
      BY <1>1, NthProperty
<1>3. \A i \in P : i \in 1..Len(order) /\ order[i] \in Keys /\ order[i] \notin S
    BY DEF Positions
<1>4. Drop(S) = [n \in 1..c |-> order[Nth(P, n)]]
    BY DropIs
<1> HIDE DEF P
<1>5. Drop(S) \in Seq(Keys) /\ Len(Drop(S)) = c
  <2> DEFINE g == [n \in 1..c |-> order[Nth(P, n)]]
  <2>1. g \in [1..c -> Keys]
      BY <1>2, <1>3
  <2> HIDE DEF g
  <2>2. g \in Seq(Keys) /\ Len(g) = c
      BY <2>1, <1>1
  <2>3. QED
      BY <2>2, <1>4 DEF g
<1>6. \A n \in 1..c : Drop(S)[n] = order[Nth(P, n)]
    BY <1>4
<1>7. {Drop(S)[i] : i \in 1..Len(Drop(S))} \subseteq Cached \ S
    BY <1>2, <1>3, <1>5, <1>6 DEF Cached
<1>8. Cached \ S \subseteq {Drop(S)[i] : i \in 1..Len(Drop(S))}
  <2> SUFFICES ASSUME NEW i \in 1..Len(order), order[i] \notin S
               PROVE  \E n \in 1..c : Drop(S)[n] = order[i]
      BY <1>5 DEF Cached
  <2>1. i \in P
      BY DEF P, Positions
  <2> DEFINE A == {j \in P : j <= i}
  <2>2. A \in SUBSET P /\ i \in A
      BY <2>1, <1>1
  <2>3. IsFiniteSet(A) /\ Cardinality(A) <= c
      BY ONLY <2>2, <1>1, FS_Subset
  <2>4. Cardinality(A) \in Nat /\ (Cardinality(A) = 0 <=> A = {})
      BY ONLY <2>3, FS_CardinalityType, FS_EmptySet
  <2>5. Rank(P, i) \in 1..c
      BY <2>2, <2>3, <2>4, <1>1 DEF Rank
  <2>6. Nth(P, Rank(P, i)) = i
    <3>1. /\ Nth(P, Rank(P, i)) \in P
          /\ Rank(P, Nth(P, Rank(P, i))) = Rank(P, i)
        BY <2>5, <1>2
    <3>2. QED
      <4> DEFINE k == Nth(P, Rank(P, i))
      <4>1. k \in P /\ Rank(P, k) = Rank(P, i)
          BY <3>1
      <4> HIDE DEF k
      <4>2. k = i
          BY <4>1, <1>1, <2>1, RankInjective
      <4>3. QED
          BY <4>2 DEF k
  <2>7. QED
      BY <2>5, <2>6, <1>6
<1>9. Distinct(order) => Distinct(Drop(S))
  <2> SUFFICES ASSUME Distinct(order), NEW m \in 1..c, NEW n \in 1..c,
                      Drop(S)[m] = Drop(S)[n]
               PROVE  m = n
      BY <1>5 DEF Distinct
  <2>1. order[Nth(P, m)] = order[Nth(P, n)]
      BY <1>6
  <2>2. Nth(P, m) = Nth(P, n)
      BY <2>1, <1>2, <1>3 DEF Distinct
  <2>3. QED
      BY <2>2, <1>2
<1>10. QED
    BY <1>1, <1>5, <1>7, <1>8, <1>9

(***************************************************************************)
(* The list after k was used: Drop, then Append.                           *)
(***************************************************************************)
LEMMA AppendDrop ==
    ASSUME order \in Seq(Keys), Distinct(order), NEW S, NEW k \in Keys, k \in S
    PROVE  LET s == Append(Drop(S), k) IN
           /\ s \in Seq(Keys)
           /\ Len(s) = Len(Drop(S)) + 1
           /\ {s[i] : i \in 1..Len(s)} = (Cached \ S) \cup {k}
           /\ Distinct(s)
<1> DEFINE d == Drop(S)
           s == Append(d, k)
<1>1. d \in Seq(Keys) /\ {d[i] : i \in 1..Len(d)} = Cached \ S /\ Distinct(d)
    BY DropProperties
<1> HIDE DEF d
<1>2. /\ s \in Seq(Keys) /\ Len(s) = Len(d) + 1 /\ s[Len(d) + 1] = k
      /\ \A i \in 1..Len(d) : s[i] = d[i]
    BY <1>1
<1>3. Len(d) \in Nat
    BY <1>1
<1> HIDE DEF s
<1>4. \A i \in 1..Len(d) : d[i] \in Cached \ S
    BY <1>1
<1>5. \A i \in 1..Len(s) : i \in 1..Len(d) \/ i = Len(d) + 1
    BY <1>2, <1>3
<1>6. {s[i] : i \in 1..Len(s)} = {d[i] : i \in 1..Len(d)} \cup {k}
  <2>1. ASSUME NEW x \in {s[i] : i \in 1..Len(s)}
        PROVE  x \in {d[i] : i \in 1..Len(d)} \cup {k}
      BY <2>1, <1>2, <1>5
  <2>2. ASSUME NEW x \in {d[i] : i \in 1..Len(d)} PROVE x \in {s[i] : i \in 1..Len(s)}
      BY <2>2, <1>2, <1>3
  <2>3. k \in {s[i] : i \in 1..Len(s)}
      BY <1>2, <1>3
  <2>4. QED
      BY <2>1, <2>2, <2>3
<1>7. Distinct(s)
  <2> SUFFICES ASSUME NEW i \in 1..Len(s), NEW j \in 1..Len(s), s[i] = s[j]
               PROVE  i = j
      BY DEF Distinct
  <2>1. CASE i \in 1..Len(d) /\ j \in 1..Len(d)
      BY <2>1, <1>1, <1>2 DEF Distinct
  <2>2. CASE i = Len(d) + 1 /\ j \in 1..Len(d)
      BY <2>2, <1>2, <1>4
  <2>3. CASE i \in 1..Len(d) /\ j = Len(d) + 1
      BY <2>3, <1>2, <1>4
  <2>4. QED
      BY <2>1, <2>2, <2>3, <1>5
<1>8. QED
    BY <1>1, <1>2, <1>6, <1>7 DEF s, d
-----------------------------------------------------------------------------
(***************************************************************************)
(* Next, action by action.  A quiet action leaves the cache alone.         *)
(***************************************************************************)
QuietRead(r) ==
    \/ \E k \in Keys : Arrive(r, k)
    \/ ReturnHit(r) \/ QueryDatabase(r) \/ QueryFails(r)

QuietWrite(w) == CommitCommand(w) \/ NeverInvalidates(w)

LEMMA NextIsAction ==
    ASSUME [Next]_vars
    PROVE  \/ Tick \/ Flush
           \/ \E k \in Keys : DropExpired(k)
           \/ \E r \in Readers : QuietRead(r) \/ LookupHit(r) \/ LookupMiss(r) \/ Store(r)
           \/ \E w \in Writers : QuietWrite(w) \/ InvalidateQueries(w)
           \/ UNCHANGED vars
    BY DEF Next, QuietRead, QuietWrite

Entry == [result : Result, expiresAt : Nat, storeExpiry : Nat, putFloor : Nat]

LEMMA ConstantTypes ==
    /\ NoResult \in Result
    /\ NoEntry \in Entry
    /\ (CHOOSE k \in Keys : TRUE) \in Keys
    /\ \A k \in Keys : QueryOf[k] \in Queries /\ TtlOf[QueryOf[k]] \in Int
<1>1. MaxTime \in Nat
    BY QueryCacheAssumption
<1>2. NoResult \in Result
    BY <1>1 DEF NoResult, Result
<1>3. NoEntry \in Entry
  <2> HIDE DEF NoResult, Result
  <2>1. QED
      BY <1>2 DEF NoEntry, Entry
<1>4. (CHOOSE k \in Keys : TRUE) \in Keys
    BY QueryCacheAssumption
<1>5. QED
    BY <1>2, <1>3, <1>4, QueryCacheAssumption

LEMMA NormalizeType ==
    ASSUME NEW ttl \in Int, ttl >= 0
    PROVE  NormalizeTTL(ttl) \in Nat \ {0}
    BY QueryCacheAssumption DEF NormalizeTTL

LEMMA ExpiryType ==
    ASSUME NEW t \in Nat, NEW ttl \in Int
    PROVE  /\ ExpiryAt(t, ttl) \in Nat
           /\ ttl >= 0 => /\ ExpiryAt(t, ttl) # 0
                          /\ ExpiryAt(t, ttl) = t + NormalizeTTL(ttl)
<1>1. CASE ttl < 0
    BY <1>1 DEF ExpiryAt
<1>2. CASE ttl >= 0
    BY <1>2, NormalizeType DEF ExpiryAt
<1>3. QED
    BY <1>1, <1>2

LEMMA KeptType ==
    ASSUME entry \in [Keys -> Entry], NEW L
    PROVE  /\ Kept(L) \in [Keys -> Entry]
           /\ \A k \in Keys : Kept(L)[k] = IF k \in L THEN entry[k] ELSE NoEntry
<1> HIDE DEF Entry, NoEntry
<1>1. QED
    BY ConstantTypes DEF Kept

(***************************************************************************)
(* What put does to the stores.                                            *)
(***************************************************************************)
LEMMA PutLiveProperty ==
    ASSUME NEW k, NEW L \in PutLive(k)
    PROVE  k \in L /\ L \subseteq (live \ Evicted(k)) \cup {k}
<1> DEFINE M == (live \ Evicted(k)) \cup {k}
<1>1. L = M \/ \E x \in M \ {k} : L = M \ {x}
    BY DEF PutLive
<1>2. QED
    BY <1>1
-----------------------------------------------------------------------------
LEMMA InitTypeOK == Init => TypeOK
<1> SUFFICES ASSUME Init PROVE TypeOK
    OBVIOUS
<1> HIDE DEF Result, NoResult, NoEntry
<1>1. entry \in [Keys -> Entry]
  <2> HIDE DEF Entry
  <2>1. QED
      BY ConstantTypes DEF Init
<1>2. now \in 1..MaxTime /\ order \in Seq(Keys) /\ start \in [Readers -> 0..MaxTime]
    BY QueryCacheAssumption DEF Init
<1>3. key \in [Readers -> Keys] /\ got \in [Readers -> Result]
    BY ConstantTypes DEF Init
<1>4. QED
    BY <1>1, <1>2, <1>3 DEF Init, TypeOK, Entry

LEMMA TypeParts ==
    ASSUME TypeOK
    PROVE  /\ entry \in [Keys -> Entry]
           /\ now \in Nat /\ MaxTime \in Nat
           /\ \A r \in Readers : /\ key[r] \in Keys
                                 /\ start[r] \in Nat
                                 /\ got[r] \in Result
    BY QueryCacheAssumption DEF TypeOK, Entry

LEMMA AnsweredTypeOK ==
    ASSUME TypeOK, NEW r \in Readers, Answered(r)
    PROVE  /\ reader' \in [Readers -> {"idle", "lookup", "hit", "query", "store"}]
           /\ start' \in [Readers -> 0..MaxTime]
           /\ key' \in [Readers -> Keys]
           /\ got' \in [Readers -> Result]
<1> HIDE DEF Result, NoResult
<1>1. reader' \in [Readers -> {"idle", "lookup", "hit", "query", "store"}]
    BY DEF TypeOK, Answered
<1>2. start' \in [Readers -> 0..MaxTime]
    BY QueryCacheAssumption DEF TypeOK, Answered
<1>3. key' \in [Readers -> Keys]
    BY ConstantTypes DEF TypeOK, Answered
<1>4. got' \in [Readers -> Result]
    BY ConstantTypes DEF TypeOK, Answered
<1>5. QED
    BY <1>1, <1>2, <1>3, <1>4

LEMMA QuietTypeOK ==
    ASSUME TypeOK,
           \/ Tick \/ UNCHANGED vars
           \/ \E r \in Readers : QuietRead(r)
           \/ \E w \in Writers : QuietWrite(w)
    PROVE  TypeOK'
<1> USE DEF cacheVars, readerVars, writerVars
<1>1. CASE Tick
    BY <1>1, QueryCacheAssumption DEF Tick, TypeOK
<1>2. CASE UNCHANGED vars
    BY <1>2 DEF vars, TypeOK
<1>3. ASSUME NEW r \in Readers, NEW k \in Keys, Arrive(r, k) PROVE TypeOK'
  <2>1. now \in 0..MaxTime /\ 0 \in 0..MaxTime
      BY QueryCacheAssumption DEF TypeOK
  <2>2. start' \in [Readers -> 0..MaxTime]
      BY <1>3, <2>1 DEF Arrive, TypeOK
  <2>3. QED
      BY <1>3, <2>2 DEF Arrive, TypeOK
<1>4. ASSUME NEW r \in Readers, ReturnHit(r) \/ QueryFails(r) PROVE TypeOK'
  <2>1. Answered(r) /\ UNCHANGED <<now, db, floor, cacheVars, writerVars>>
      BY <1>4 DEF ReturnHit, QueryFails
  <2>2. QED
      BY <2>1, AnsweredTypeOK DEF TypeOK
<1>5. ASSUME NEW r \in Readers, QueryDatabase(r) PROVE TypeOK'
  <2>1. /\ QueryOf[key[r]] \in Queries
        /\ db[QueryOf[key[r]]] \in Nat /\ floor[QueryOf[key[r]]] \in Nat
      BY ConstantTypes, TypeParts DEF TypeOK
  <2>2. now \in 0..MaxTime
      BY QueryCacheAssumption DEF TypeOK
  <2>3. got' \in [Readers -> Result]
      BY <1>5, <2>1, <2>2 DEF QueryDatabase, TypeOK, Result
  <2>4. reader' \in [Readers -> {"idle", "lookup", "hit", "query", "store"}]
      BY <1>5 DEF QueryDatabase, TypeOK
  <2>5. QED
    <3> HIDE DEF Result
    <3>1. QED
        BY <1>5, <2>3, <2>4 DEF QueryDatabase, TypeOK
<1>6. ASSUME NEW w \in Writers, CommitCommand(w) PROVE TypeOK'
  <2>1. db' \in [Queries -> Nat]
      BY <1>6 DEF CommitCommand, TypeOK
  <2>2. wrote' \in [Writers -> [Queries -> Nat]]
      BY <1>6, <2>1 DEF CommitCommand, TypeOK
  <2>3. writer' \in [Writers -> {"idle", "invalidate", "done"}]
      BY <1>6 DEF CommitCommand, TypeOK
  <2>4. QED
      BY <1>6, <2>1, <2>2, <2>3 DEF CommitCommand, TypeOK
<1>7. ASSUME NEW w \in Writers, NeverInvalidates(w) PROVE TypeOK'
    BY <1>7 DEF NeverInvalidates, TypeOK
<1>8. QED
    BY <1>1, <1>2, <1>3, <1>4, <1>5, <1>6, <1>7 DEF QuietRead, QuietWrite

LEMMA CacheTypeOK ==
    ASSUME TypeOK,
           \/ Flush
           \/ \E k \in Keys : DropExpired(k)
           \/ \E r \in Readers : LookupHit(r) \/ LookupMiss(r)
           \/ \E w \in Writers : InvalidateQueries(w)
    PROVE  TypeOK'
<1> USE DEF cacheVars, readerVars, writerVars
<1> HIDE DEF Result
<1>0. /\ entry \in [Keys -> Entry]
      /\ \A L : Kept(L) \in [Keys -> Entry]
      /\ \A S : Drop(S) \in Seq(Keys)
  <2>1. entry \in [Keys -> Entry] /\ order \in Seq(Keys)
      BY DEF TypeOK, Entry
  <2>2. QED
      BY <2>1, KeptType, DropProperties
<1>1. CASE Flush
    BY <1>1, <1>0 DEF Flush, TypeOK, Entry
<1>2. ASSUME NEW k \in Keys, DropExpired(k) PROVE TypeOK'
    BY <1>2, <1>0 DEF DropExpired, TypeOK, Entry
<1>3. ASSUME NEW r \in Readers, LookupHit(r) PROVE TypeOK'
  <2>1. order' \in Seq(Keys)
      BY <1>3, <1>0, TypeParts DEF LookupHit
  <2>2. got' \in [Readers -> Result]
    <3>1. entry[key[r]].result \in Result
        BY <1>0, TypeParts DEF Entry
    <3>2. QED
        BY <1>3, <3>1 DEF LookupHit, TypeOK
  <2>3. start' \in [Readers -> 0..MaxTime]
    <3>1. RequestTime(r) \in 0..MaxTime
        BY QueryCacheAssumption DEF RequestTime, TypeOK
    <3>2. QED
        BY <1>3, <3>1 DEF LookupHit, TypeOK
  <2>4. QED
      BY <1>3, <2>1, <2>2, <2>3 DEF LookupHit, TypeOK
<1>4. ASSUME NEW r \in Readers, LookupMiss(r) PROVE TypeOK'
    BY <1>4, <1>0 DEF LookupMiss, TypeOK, Entry
<1>5. ASSUME NEW w \in Writers, InvalidateQueries(w) PROVE TypeOK'
  <2>1. floor' \in [Queries -> Nat]
      BY <1>5 DEF InvalidateQueries, TypeOK
  <2>2. QED
      BY <1>5, <1>0, <2>1 DEF InvalidateQueries, TypeOK, Entry
<1>6. QED
    BY <1>1, <1>2, <1>3, <1>4, <1>5

(***************************************************************************)
(* The entries after Store: the key's own is new, the rest are as before.  *)
(***************************************************************************)
NewEntry(r) ==
    [result      |-> got[r],
     expiresAt   |-> ExpiryAt(RequestTime(r), TtlOf[QueryOf[key[r]]]),
     storeExpiry |-> ExpiryAt(now, TtlOf[QueryOf[key[r]]]),
     putFloor    |-> floor[QueryOf[key[r]]]]

LEMMA StoreEntries ==
    ASSUME TypeOK, NEW r \in Readers, Store(r)
    PROVE  /\ NewEntry(r) \in Entry
           /\ entry' \in [Keys -> Entry]
           /\ entry'[key[r]] = NewEntry(r)
           /\ \A k \in Keys \ {key[r]} : entry'[k] = IF k \in live' THEN entry[k] ELSE NoEntry
           /\ key[r] \in live'
           /\ live' \subseteq (live \ Evicted(key[r])) \cup {key[r]}
<1> HIDE DEF Result
<1>1. NewEntry(r) \in Entry
  <2>0. RequestTime(r) \in Nat
      BY TypeParts DEF RequestTime
  <2>1. ExpiryAt(RequestTime(r), TtlOf[QueryOf[key[r]]]) \in Nat
      BY <2>0, ExpiryType, ConstantTypes, TypeParts
  <2>2. ExpiryAt(now, TtlOf[QueryOf[key[r]]]) \in Nat
      BY ExpiryType, ConstantTypes, TypeParts
  <2>3. floor[QueryOf[key[r]]] \in Nat /\ got[r] \in Result
      BY ConstantTypes, TypeParts DEF TypeOK
  <2>4. QED
      BY <2>1, <2>2, <2>3 DEF NewEntry, Entry
<1>2. entry' = [Kept(live') EXCEPT ![key[r]] = NewEntry(r)]
    BY DEF Store, NewEntry
<1>3. Kept(live') \in [Keys -> Entry]
      /\ \A k \in Keys : Kept(live')[k] = IF k \in live' THEN entry[k] ELSE NoEntry
    BY TypeParts, KeptType
<1>4. key[r] \in Keys
    BY TypeParts
<1>5. live' \in PutLive(key[r])
    BY DEF Store
<1>6. QED
  <2> HIDE DEF Entry, NewEntry, NoEntry
  <2>1. QED
      BY <1>1, <1>2, <1>3, <1>4, <1>5, PutLiveProperty

LEMMA StoreTypeOK ==
    ASSUME TypeOK, NEW r \in Readers, Store(r)
    PROVE  TypeOK'
<1> HIDE DEF Result
<1>1. order' \in Seq(Keys)
  <2>1. order' = Append(Drop(Evicted(key[r]) \cup {key[r]}), key[r])
      BY DEF Store
  <2>2. Drop(Evicted(key[r]) \cup {key[r]}) \in Seq(Keys) /\ key[r] \in Keys
      BY DropProperties, TypeParts DEF TypeOK
  <2>3. QED
      BY <2>1, <2>2
<1>2. live' \subseteq Keys
  <2>1. live' \subseteq (live \ Evicted(key[r])) \cup {key[r]}
      BY StoreEntries
  <2>2. live \subseteq Keys /\ key[r] \in Keys
      BY TypeParts DEF TypeOK
  <2>3. QED
      BY <2>1, <2>2
<1>3. entry' \in [Keys -> Entry]
    BY StoreEntries
<1>4. Answered(r) /\ UNCHANGED <<now, db, floor, writerVars>>
    BY DEF Store
<1>5. QED
    BY <1>1, <1>2, <1>3, <1>4, AnsweredTypeOK DEF TypeOK, Entry, writerVars

LEMMA StepTypeOK ==
    ASSUME TypeOK, [Next]_vars
    PROVE  TypeOK'
    BY NextIsAction, QuietTypeOK, CacheTypeOK, StoreTypeOK

(***************************************************************************)
(* The values of the cache's, the requests' and the commands' variables,   *)
(* through every step: the expiry times put computes from any TTL, zero    *)
(* and negative ones too, are never negative.                              *)
(***************************************************************************)
THEOREM QueryCacheTypeCorrect == Spec => []TypeOK
<1>1. Init => TypeOK
    BY InitTypeOK
<1>2. TypeOK /\ [Next]_vars => TypeOK'
    BY StepTypeOK
<1>3. QED
    BY <1>1, <1>2, PTL DEF Spec
-----------------------------------------------------------------------------
(***************************************************************************)
(* The two layers.  LayersAgree counts the keys of the list; as an         *)
(* invariant of single steps the list names no key twice.                  *)
(***************************************************************************)
LayersInv ==
    /\ Distinct(order)
    /\ Len(order) <= Capacity
    /\ Servable \subseteq Cached

LEMMA StillServable ==
    ASSUME TypeOK, now' \in Nat, now <= now', NEW k \in Servable',
           k \in live, entry'[k] = entry[k]
    PROVE  k \in Servable
<1>1. k \in Keys /\ entry[k].storeExpiry \in Nat /\ now \in Nat
    BY TypeParts DEF TypeOK, Entry
<1>2. ~ Passed(now', entry[k].storeExpiry)
    BY DEF Servable
<1>3. ~ Passed(now, entry[k].storeExpiry)
    BY <1>1, <1>2 DEF Passed
<1>4. QED
    BY <1>3 DEF Servable

(***************************************************************************)
(* A step that only takes entries out: nothing becomes servable.           *)
(***************************************************************************)
LEMMA RemovingStep ==
    ASSUME TypeOK, now' = now, live' \subseteq live, entry' = Kept(live')
    PROVE  Servable' \subseteq Servable \cap live'
<1> SUFFICES ASSUME NEW k \in Servable' PROVE k \in Servable /\ k \in live'
    OBVIOUS
<1>1. k \in live' /\ k \in live /\ k \in Keys
    BY DEF Servable, TypeOK
<1>2. entry'[k] = entry[k]
    BY <1>1, KeptType, TypeParts
<1>3. QED
    BY <1>1, <1>2, TypeParts, StillServable

LEMMA DropLayers ==
    ASSUME TypeOK, LayersInv, NEW S, order' = Drop(S)
    PROVE  Distinct(order)' /\ (Len(order) <= Capacity)' /\ Cached' = Cached \ S
<1>1. /\ Drop(S) \in Seq(Keys) /\ Len(Drop(S)) <= Len(order)
      /\ {Drop(S)[i] : i \in 1..Len(Drop(S))} = Cached \ S
      /\ Distinct(order) => Distinct(Drop(S))
    BY DropProperties DEF TypeOK
<1>2. Distinct(order')
    BY <1>1 DEF LayersInv
<1>3. Len(order) \in Nat /\ Len(order') \in Nat /\ Capacity \in Nat
    BY <1>1, QueryCacheAssumption DEF TypeOK
<1>4. Len(order') <= Capacity
    BY <1>1, <1>3 DEF LayersInv
<1>5. Cached' = Cached \ S
    BY <1>1 DEF Cached
<1>6. QED
    BY <1>2, <1>4, <1>5 DEF Distinct

LEMMA UseLayers ==
    ASSUME TypeOK, LayersInv, NEW S, NEW k \in Keys, k \in S,
           order' = Append(Drop(S), k),
           Len(order) = Capacity => S \cap Cached # {}
    PROVE  Distinct(order)' /\ (Len(order) <= Capacity)' /\ Cached' = (Cached \ S) \cup {k}
<1>1. /\ order' \in Seq(Keys)
      /\ Len(order') = Len(Drop(S)) + 1
      /\ {order'[i] : i \in 1..Len(order')} = (Cached \ S) \cup {k}
      /\ Distinct(order')
  <2> DEFINE s == Append(Drop(S), k)
  <2>1. order \in Seq(Keys) /\ Distinct(order)
      BY DEF TypeOK, LayersInv
  <2>2. /\ s \in Seq(Keys) /\ Len(s) = Len(Drop(S)) + 1
        /\ {s[i] : i \in 1..Len(s)} = (Cached \ S) \cup {k} /\ Distinct(s)
      BY <2>1, AppendDrop
  <2>3. order' = s
      OBVIOUS
  <2> HIDE DEF s
  <2>4. QED
      BY <2>2, <2>3
<1>2. /\ Len(Drop(S)) \in Nat /\ Len(Drop(S)) <= Len(order)
      /\ S \cap Cached # {} => Len(Drop(S)) < Len(order)
    BY DropProperties DEF TypeOK
<1>3. Len(order) \in Nat /\ Capacity \in Nat
    BY QueryCacheAssumption DEF TypeOK
<1>4. Len(order') <= Capacity
    BY <1>1, <1>2, <1>3 DEF LayersInv
<1>5. QED
    BY <1>1, <1>4 DEF Cached, Distinct

LEMMA QuietLayers ==
    ASSUME TypeOK, LayersInv, TypeOK',
           \/ Tick \/ UNCHANGED vars
           \/ \E r \in Readers : QuietRead(r)
           \/ \E w \in Writers : QuietWrite(w)
    PROVE  LayersInv' /\ Servable' \subseteq Servable /\ UNCHANGED cacheVars
<1>1. UNCHANGED <<order, live, entry>> /\ (now' = now \/ now' = now + 1)
    BY DEF Tick, vars, QuietRead, QuietWrite, Arrive, ReturnHit, QueryDatabase, QueryFails,
       CommitCommand, NeverInvalidates, cacheVars
<1>2. now \in Nat /\ now' \in Nat
    BY DEF TypeOK
<1>3. Servable' \subseteq Servable
  <2> SUFFICES ASSUME NEW k \in Servable' PROVE k \in Servable
      OBVIOUS
  <2>1. k \in live
      BY <1>1 DEF Servable
  <2>2. QED
      BY <1>1, <1>2, <2>1, StillServable
<1>4. Cached' = Cached
    BY <1>1 DEF Cached
<1>5. QED
    BY <1>1, <1>3, <1>4 DEF LayersInv, Distinct, cacheVars

LEMMA StoreLayers ==
    ASSUME TypeOK, LayersInv, NEW r \in Readers, Store(r)
    PROVE  LayersInv'
<1> DEFINE k == key[r]
           S == Evicted(k) \cup {k}
<1>1. k \in Keys /\ now \in Nat
    BY TypeParts
<1>2. order' = Append(Drop(S), k) /\ now' = now
    BY DEF Store
<1>3. Len(order) = Capacity => S \cap Cached # {}
  <2> SUFFICES ASSUME Len(order) = Capacity, k \notin Cached
               PROVE  Head(order) \in Evicted(k) /\ Head(order) \in Cached
      OBVIOUS
  <2>1. Capacity \in Nat \ {0}
      BY QueryCacheAssumption
  <2>2. Evicted(k) = {Head(order)}
      BY <2>1 DEF Evicted
  <2>3. order # <<>> /\ order \in Seq(Keys) /\ Len(order) \in Nat \ {0}
      BY <2>1 DEF TypeOK
  <2>4. Head(order) = order[1] /\ 1 \in 1..Len(order)
      BY <2>3
  <2>5. QED
      BY <2>2, <2>4 DEF Cached
<1>4. Distinct(order)' /\ (Len(order) <= Capacity)' /\ Cached' = (Cached \ S) \cup {k}
    BY <1>1, <1>2, <1>3, UseLayers
<1>5. ASSUME NEW x \in Servable', x # k PROVE x \in Servable /\ x \notin Evicted(k)
  <2>1. x \in live' /\ x \in live /\ x \notin Evicted(k) /\ x \in Keys
      BY <1>5, StoreEntries DEF Servable, TypeOK
  <2>2. entry'[x] = entry[x]
      BY <1>5, <2>1, StoreEntries
  <2>3. QED
      BY <1>1, <1>2, <2>1, <2>2, StillServable
<1>6. Servable' \subseteq Cached'
    BY <1>4, <1>5 DEF LayersInv
<1>7. QED
    BY <1>4, <1>6 DEF LayersInv

LEMMA RemovingLayers ==
    ASSUME TypeOK, LayersInv,
           \/ Flush
           \/ \E k \in Keys : DropExpired(k)
           \/ \E r \in Readers : LookupMiss(r)
           \/ \E w \in Writers : InvalidateQueries(w)
    PROVE  LayersInv' /\ Servable' \subseteq Servable /\ entry' = Kept(live')
<1>1. CASE Flush
  <2>1. Servable' = {}
      BY <1>1 DEF Flush, Servable
  <2>2. order' = <<>> /\ Len(order') = 0 /\ entry' = Kept(live')
      BY <1>1 DEF Flush
  <2>3. QED
      BY <2>1, <2>2, QueryCacheAssumption DEF LayersInv, Distinct
<1>2. ASSUME NEW k \in Keys, DropExpired(k)
      PROVE  LayersInv' /\ Servable' \subseteq Servable /\ entry' = Kept(live')
  <2>1. /\ now' = now /\ live' \subseteq live /\ entry' = Kept(live')
        /\ order' = order
      BY <1>2 DEF DropExpired
  <2>2. Cached' = Cached
      BY <2>1 DEF Cached
  <2>3. QED
      BY <2>1, <2>2, RemovingStep DEF LayersInv, Distinct
<1>3. ASSUME NEW r \in Readers, LookupMiss(r)
      PROVE  LayersInv' /\ Servable' \subseteq Servable /\ entry' = Kept(live')
  <2>1. /\ now' = now /\ entry' = Kept(live') /\ order' = Drop({key[r]})
        /\ live' = live \ ({key[r]} \cap Cached \cap Servable)
      BY <1>3 DEF LookupMiss
  <2>2. Servable' \subseteq Servable \cap live'
      BY <2>1, RemovingStep
  <2>3. Distinct(order)' /\ (Len(order) <= Capacity)' /\ Cached' = Cached \ {key[r]}
      BY <2>1, DropLayers
  <2>4. QED
      BY <2>1, <2>2, <2>3 DEF LayersInv
<1>4. ASSUME NEW w \in Writers, InvalidateQueries(w)
      PROVE  LayersInv' /\ Servable' \subseteq Servable /\ entry' = Kept(live')
  <2>1. /\ now' = now /\ entry' = Kept(live') /\ order' = Drop(Dropped(w))
        /\ live' = live \ Dropped(w)
      BY <1>4 DEF InvalidateQueries
  <2>2. Servable' \subseteq Servable \cap live'
      BY <2>1, RemovingStep
  <2>3. Distinct(order)' /\ (Len(order) <= Capacity)' /\ Cached' = Cached \ Dropped(w)
      BY <2>1, DropLayers
  <2>4. QED
      BY <2>1, <2>2, <2>3 DEF LayersInv
<1>5. QED
    BY <1>1, <1>2, <1>3, <1>4

LEMMA HitLayers ==
    ASSUME TypeOK, LayersInv, NEW r \in Readers, LookupHit(r)
    PROVE  LayersInv' /\ Servable' = Servable
<1>1. /\ order' = Append(Drop({key[r]}), key[r]) /\ key[r] \in Cached
      /\ UNCHANGED <<now, live, entry>>
    BY DEF LookupHit, Hit
<1>2. Distinct(order)' /\ (Len(order) <= Capacity)'
      /\ Cached' = (Cached \ {key[r]}) \cup {key[r]}
    BY <1>1, TypeParts, UseLayers
<1>3. Servable' = Servable
    BY <1>1 DEF Servable
<1>4. QED
    BY <1>1, <1>2, <1>3 DEF LayersInv

LEMMA StepLayers ==
    ASSUME TypeOK, LayersInv, [Next]_vars
    PROVE  LayersInv'
<1>1. TypeOK'
    BY StepTypeOK
<1>2. QED
    BY <1>1, NextIsAction, QuietLayers, StoreLayers, RemovingLayers, HitLayers

LEMMA LayersInvImplies ==
    ASSUME TypeOK, LayersInv
    PROVE  LayersAgree
<1> DEFINE n == Len(order)
<1>1. order \in Seq(Keys) /\ n \in Nat
    BY DEF TypeOK
<1>2. order \in Bijection(1..n, Cached)
  <2>1. order \in [1..n -> Cached]
      BY <1>1 DEF Cached
  <2>2. order \in Injection(1..n, Cached)
      BY <2>1 DEF LayersInv, Distinct, Injection, IsInjective
  <2>3. order \in Surjection(1..n, Cached)
      BY <2>1 DEF Cached, Surjection
  <2>4. QED
      BY <2>2, <2>3 DEF Bijection
<1>3. ExistsBijection(1..n, Cached)
    BY <1>2 DEF ExistsBijection
<1>4. Cardinality(Cached) = n
  <2> HIDE DEF n
  <2>1. QED
      BY <1>1, <1>3, FS_CountingElements
<1>5. QED
    BY <1>4 DEF LayersInv, LayersAgree

LEMMA LayersAlways == Spec => [](TypeOK /\ LayersInv)
<1>1. Init => TypeOK /\ LayersInv
  <2>1. Init => LayersInv
      BY QueryCacheAssumption DEF Init, LayersInv, Distinct, Servable
  <2>2. QED
      BY <2>1, InitTypeOK
<1>2. TypeOK /\ LayersInv /\ [Next]_vars => TypeOK' /\ LayersInv'
    BY StepTypeOK, StepLayers
<1>3. QED
    BY <1>1, <1>2, PTL DEF Spec

(***************************************************************************)
(* The LRU list and the expirable stores never part, for any capacity,     *)
(* whatever requests, evictions, expiries, flushes and invalidations       *)
(* interleave: removeKeyLocked, put and the background expiry between them *)
(* leave no servable entry outside the list, no key in it twice and never  *)
(* more than the capacity.                                                 *)
(***************************************************************************)
THEOREM LayersNeverPart == Spec => []LayersAgree
<1>1. TypeOK /\ LayersInv => LayersAgree
    BY LayersInvImplies
<1>2. QED
    BY <1>1, LayersAlways, PTL
-----------------------------------------------------------------------------
(***************************************************************************)
(* How stale a hit can be.  The bound comes from three places: a request   *)
(* reads after it started, put counts the TTL from that start, and a hit   *)
(* compares the time it judges by with what put wrote.                     *)
(***************************************************************************)
Fresh(k, e) ==
    TtlOf[QueryOf[k]] >= 0 =>
        /\ e.expiresAt # 0
        /\ e.result.clock = "ctx" =>
              e.expiresAt <= e.result.readAt + NormalizeTTL(TtlOf[QueryOf[k]])

ReadAge(r) ==
    /\ reader[r] # "idle" => start[r] <= now
    /\ reader[r] = "store" /\ got[r].clock = "ctx" => /\ start[r] # 0
                                                     /\ start[r] <= got[r].readAt

AgeInv ==
    /\ \A k \in live : Fresh(k, entry[k])
    /\ \A r \in Readers : ReadAge(r)

LEMMA QuietAge ==
    ASSUME TypeOK, AgeInv, StalenessBounded,
           \/ Tick \/ UNCHANGED vars
           \/ \E r \in Readers : QuietRead(r)
           \/ \E w \in Writers : QuietWrite(w)
    PROVE  AgeInv' /\ StalenessBounded'
<1> USE DEF cacheVars, readerVars, writerVars
<1>0. /\ now \in Nat
      /\ \A r \in Readers : start[r] \in Nat
    BY TypeParts
<1>1. CASE Tick \/ UNCHANGED vars \/ \E w \in Writers : QuietWrite(w)
  <2>1. UNCHANGED <<cacheVars, readerVars>> /\ (now' = now \/ now' = now + 1)
      BY <1>1 DEF Tick, vars, QuietWrite, CommitCommand, NeverInvalidates
  <2>2. StalenessBounded'
      BY <2>1 DEF StalenessBounded
  <2>3. AgeInv'
      BY <2>1, <1>0 DEF AgeInv, Fresh, ReadAge
  <2>4. QED
      BY <2>2, <2>3
<1>2. ASSUME NEW r \in Readers, QuietRead(r) PROVE AgeInv' /\ StalenessBounded'
  <2>1. UNCHANGED <<now, order, live, entry>>
      BY <1>2 DEF QuietRead, Arrive, ReturnHit, QueryDatabase, QueryFails
  <2>2. \A k \in live' : Fresh(k, entry[k])'
      BY <2>1 DEF AgeInv, Fresh
  <2>3. \A x \in Readers \ {r} : /\ reader'[x] = reader[x] /\ start'[x] = start[x]
                                 /\ key'[x] = key[x] /\ got'[x] = got[x]
      BY <1>2 DEF QuietRead, Arrive, ReturnHit, QueryDatabase, QueryFails, Answered, TypeOK
  <2>4. reader'[r] # "hit"
      BY <1>2 DEF QuietRead, Arrive, ReturnHit, QueryDatabase, QueryFails, Answered, TypeOK
  <2>5. ReadAge(r)'
    <3>1. CASE ReturnHit(r) \/ QueryFails(r)
        BY <3>1 DEF ReturnHit, QueryFails, Answered, TypeOK, ReadAge
    <3>2. CASE \E k \in Keys : Arrive(r, k)
      <4>1. reader'[r] = "lookup" /\ (start'[r] = now \/ start'[r] = 0) /\ now' = now
          BY <3>2 DEF Arrive, TypeOK
      <4>2. QED
          BY <4>1, <1>0 DEF ReadAge
    <3>3. CASE QueryDatabase(r)
      <4>1. /\ reader[r] = "query" /\ start'[r] = start[r] /\ got'[r].readAt = now
            /\ got'[r].clock = (IF start[r] = 0 THEN "wall" ELSE "ctx") /\ now' = now
          BY <3>3 DEF QueryDatabase, TypeOK
      <4>2. QED
          BY <4>1 DEF AgeInv, ReadAge
    <3>4. QED
        BY <1>2, <3>1, <3>2, <3>3 DEF QuietRead
  <2>6. AgeInv'
      BY <2>1, <2>2, <2>3, <2>5 DEF AgeInv, ReadAge
  <2>7. StalenessBounded'
      BY <2>3, <2>4 DEF StalenessBounded
  <2>8. QED
      BY <2>6, <2>7
<1>3. QED
    BY <1>1, <1>2

LEMMA HitAge ==
    ASSUME TypeOK, AgeInv, StalenessBounded, NEW r \in Readers, LookupHit(r)
    PROVE  AgeInv' /\ StalenessBounded'
<1> DEFINE k == key[r]
           e == entry[k]
           t == RequestTime(r)
<1>1. /\ k \in live /\ ~ Passed(t, e.expiresAt)
      /\ reader[r] = "lookup"
      /\ reader' = [reader EXCEPT ![r] = "hit"]
      /\ start' = [start EXCEPT ![r] = t]
      /\ got' = [got EXCEPT ![r] = e.result]
      /\ UNCHANGED <<now, live, entry, key>>
    BY DEF LookupHit, Hit, Servable
<1>2. /\ k \in Keys /\ e.expiresAt \in Nat
      /\ e.result.readAt \in Nat /\ TtlOf[QueryOf[k]] \in Int
    BY TypeParts, ConstantTypes DEF Entry, Result
<1>t. t \in Nat /\ t <= now
    BY <1>1, TypeParts DEF RequestTime, AgeInv, ReadAge
<1> HIDE DEF t
<1>3. TtlOf[QueryOf[k]] >= 0 /\ e.result.clock = "ctx" =>
          t <= e.result.readAt + NormalizeTTL(TtlOf[QueryOf[k]])
  <2> SUFFICES ASSUME TtlOf[QueryOf[k]] >= 0, e.result.clock = "ctx"
               PROVE  t <= e.result.readAt + NormalizeTTL(TtlOf[QueryOf[k]])
      OBVIOUS
  <2>1. NormalizeTTL(TtlOf[QueryOf[k]]) \in Nat
      BY <1>2, NormalizeType
  <2>2. e.expiresAt # 0 /\ e.expiresAt <= e.result.readAt + NormalizeTTL(TtlOf[QueryOf[k]])
      BY <1>1 DEF AgeInv, Fresh
  <2>3. t <= e.expiresAt
      BY <1>1, <1>2, <1>t, <2>2 DEF Passed
  <2>4. QED
      BY <1>2, <1>t, <2>1, <2>2, <2>3
<1>o. \A x \in Readers \ {r} : /\ reader'[x] = reader[x] /\ start'[x] = start[x]
                               /\ key'[x] = key[x] /\ got'[x] = got[x]
    BY <1>1 DEF TypeOK
<1>s. reader'[r] = "hit" /\ start'[r] = t /\ key'[r] = k /\ got'[r] = e.result
    BY <1>1 DEF TypeOK
<1>4. StalenessBounded'
  <2> SUFFICES ASSUME NEW x \in Readers, reader'[x] = "hit", TtlOf[QueryOf[key'[x]]] >= 0,
                      got'[x].clock = "ctx"
               PROVE  start'[x] <= got'[x].readAt + NormalizeTTL(TtlOf[QueryOf[key'[x]]])
      BY DEF StalenessBounded
  <2>1. CASE x = r
      BY <2>1, <1>s, <1>3
  <2>2. CASE x # r
      BY <2>2, <1>o DEF StalenessBounded
  <2>3. QED
      BY <2>1, <2>2
<1>5. AgeInv'
  <2>1. \A x \in live' : Fresh(x, entry[x])'
      BY <1>1 DEF AgeInv, Fresh
  <2>2. ASSUME NEW x \in Readers PROVE ReadAge(x)'
    <3>1. CASE x = r
        BY <3>1, <1>1, <1>s, <1>t DEF ReadAge
    <3>2. CASE x # r
        BY <3>2, <1>1, <1>o DEF AgeInv, ReadAge
    <3>3. QED
        BY <3>1, <3>2
  <2>3. QED
      BY <2>1, <2>2 DEF AgeInv
<1>6. QED
    BY <1>4, <1>5

LEMMA StoreAge ==
    ASSUME TypeOK, AgeInv, StalenessBounded, NEW r \in Readers, Store(r)
    PROVE  AgeInv' /\ StalenessBounded'
<1> DEFINE k == key[r]
           ttl == TtlOf[QueryOf[k]]
<1>1. reader[r] = "store" /\ Answered(r) /\ now' = now
    BY DEF Store
<1>2. \A x \in Readers \ {r} : /\ reader'[x] = reader[x] /\ start'[x] = start[x]
                               /\ key'[x] = key[x] /\ got'[x] = got[x]
    BY <1>1 DEF Answered, TypeOK
<1>3. reader'[r] = "idle"
    BY <1>1 DEF Answered, TypeOK
<1>4. Fresh(k, NewEntry(r))
  <2> DEFINE t == RequestTime(r)
  <2>1. start[r] \in Nat /\ now \in Nat /\ t \in Nat /\ ttl \in Int /\ got[r].readAt \in Nat
      BY TypeParts, ConstantTypes DEF Result, RequestTime
  <2>2. got[r].clock = "ctx" => t <= got[r].readAt
      BY <1>1 DEF AgeInv, ReadAge, RequestTime
  <2> HIDE DEF t
  <2> SUFFICES ASSUME ttl >= 0
               PROVE  /\ ExpiryAt(t, ttl) # 0
                      /\ got[r].clock = "ctx" =>
                            ExpiryAt(t, ttl) <= got[r].readAt + NormalizeTTL(ttl)
      BY DEF Fresh, NewEntry, t
  <2>3. NormalizeTTL(ttl) \in Nat
      BY <2>1, NormalizeType
  <2>4. ExpiryAt(t, ttl) # 0 /\ ExpiryAt(t, ttl) = t + NormalizeTTL(ttl)
      BY <2>1, ExpiryType
  <2>5. QED
      BY <2>1, <2>2, <2>3, <2>4
<1>5. \A x \in live' : Fresh(x, entry'[x])
  <2> SUFFICES ASSUME NEW x \in live' PROVE Fresh(x, entry'[x])
      OBVIOUS
  <2>1. CASE x = k
    <3>1. entry'[k] = NewEntry(r)
        BY StoreEntries
    <3>2. QED
        BY <2>1, <3>1, <1>4
  <2>2. CASE x # k
    <3>1. x \in live /\ x \in Keys
        BY <2>2, StoreEntries DEF TypeOK
    <3>2. entry'[x] = entry[x]
        BY <2>2, <3>1, StoreEntries
    <3>3. QED
        BY <3>1, <3>2 DEF AgeInv
  <2>3. QED
      BY <2>1, <2>2
<1>6. AgeInv'
    BY <1>1, <1>2, <1>3, <1>5 DEF AgeInv, Fresh, ReadAge
<1>7. StalenessBounded'
    BY <1>2, <1>3 DEF StalenessBounded
<1>8. QED
    BY <1>6, <1>7

LEMMA RemovingAge ==
    ASSUME TypeOK, AgeInv, StalenessBounded,
           \/ Flush
           \/ \E k \in Keys : DropExpired(k)
           \/ \E r \in Readers : LookupMiss(r)
           \/ \E w \in Writers : InvalidateQueries(w)
    PROVE  AgeInv' /\ StalenessBounded'
<1>1. live' \subseteq live /\ entry' = Kept(live') /\ UNCHANGED <<now, start, key, got>>
    BY DEF Flush, DropExpired, LookupMiss, InvalidateQueries, readerVars
<1>2. \A k \in live' : entry'[k] = entry[k]
  <2>1. \A k \in live' : k \in Keys
      BY <1>1 DEF TypeOK
  <2>2. QED
      BY <1>1, <2>1, KeptType, TypeParts
<1>3. \A x \in Readers :
          reader'[x] = reader[x] \/ (reader'[x] = "query" /\ reader[x] # "idle")
  <2>1. ASSUME NEW r \in Readers, LookupMiss(r), NEW x \in Readers
        PROVE  reader'[x] = reader[x] \/ (reader'[x] = "query" /\ reader[x] # "idle")
    <3>1. reader[r] = "lookup" /\ reader' = [reader EXCEPT ![r] = "query"]
        BY <2>1 DEF LookupMiss
    <3>2. QED
        BY <3>1 DEF TypeOK
  <2>2. UNCHANGED reader \/ \E r \in Readers : LookupMiss(r)
      BY DEF Flush, DropExpired, InvalidateQueries, readerVars
  <2>3. QED
      BY <2>1, <2>2
<1>4. AgeInv'
    BY <1>1, <1>2, <1>3 DEF AgeInv, Fresh, ReadAge
<1>5. StalenessBounded'
    BY <1>1, <1>3 DEF StalenessBounded
<1>6. QED
    BY <1>4, <1>5

(***************************************************************************)
(* Whatever a hit returns was in the database at most one TTL before the   *)
(* time its request judges by, for any TTLs, any number of requests and    *)
(* however slow each of them is between the lookup, the read and the put,  *)
(* if the request that filled the cache carried its time.                  *)
(***************************************************************************)
THEOREM StalenessIsBounded == Spec => []StalenessBounded
<1>1. Init => AgeInv /\ StalenessBounded
    BY DEF Init, AgeInv, ReadAge, StalenessBounded
<1>2. TypeOK /\ AgeInv /\ StalenessBounded /\ [Next]_vars => AgeInv' /\ StalenessBounded'
    BY NextIsAction, QuietAge, HitAge, StoreAge, RemovingAge
<1>3. QED
    BY <1>1, <1>2, QueryCacheTypeCorrect, PTL DEF Spec
-----------------------------------------------------------------------------
(***************************************************************************)
(* What an invalidation leaves behind.  A servable entry was stored under  *)
(* the floor its query still has, since an invalidation that raises the    *)
(* floor removes every servable entry of the query; and what was read is   *)
(* never older than the floor at that moment, since a command invalidates  *)
(* only what it has committed.                                             *)
(***************************************************************************)
FloorInv ==
    /\ \A q \in Queries : /\ floor[q] <= db[q]
                          /\ \A w \in Writers : wrote[w][q] <= db[q]
    /\ \A r \in Readers : got[r].readFloor <= got[r].value
    /\ \A k \in Keys : entry[k].result.readFloor <= entry[k].result.value
    /\ \A k \in Servable : entry[k].putFloor = floor[QueryOf[k]]

LEMMA FloorInvImplies ==
    ASSUME TypeOK, FloorInv
    PROVE  StaleOnlyByOverlap
<1> SUFFICES ASSUME NEW k \in Servable, entry[k].result.value < floor[QueryOf[k]]
             PROVE  /\ entry[k].result.readFloor < floor[QueryOf[k]]
                    /\ entry[k].putFloor > entry[k].result.value
    BY DEF StaleOnlyByOverlap
<1>1. k \in Keys /\ entry[k].putFloor = floor[QueryOf[k]]
      /\ entry[k].result.readFloor <= entry[k].result.value
    BY DEF FloorInv, Servable, TypeOK
<1>2. entry[k].result.value \in Nat /\ entry[k].result.readFloor \in Nat
    BY <1>1, TypeParts DEF Entry, Result
<1>3. floor[QueryOf[k]] \in Nat
    BY <1>1, ConstantTypes DEF TypeOK
<1>4. QED
    BY <1>1, <1>2, <1>3

LEMMA QuietFloor ==
    ASSUME TypeOK, LayersInv, FloorInv, TypeOK',
           \/ Tick \/ UNCHANGED vars
           \/ \E r \in Readers : QuietRead(r)
           \/ \E w \in Writers : QuietWrite(w)
    PROVE  FloorInv'
<1> USE DEF cacheVars, readerVars, writerVars
<1>1. Servable' \subseteq Servable /\ UNCHANGED <<order, live, entry>>
    BY QuietLayers
<1>2. UNCHANGED floor
    BY DEF Tick, vars, QuietRead, QuietWrite, Arrive, ReturnHit, QueryDatabase, QueryFails,
       CommitCommand, NeverInvalidates
<1>3. \A k \in Servable' : entry'[k].putFloor = floor'[QueryOf[k]]
    BY <1>1, <1>2 DEF FloorInv
<1>4. \A k \in Keys : entry'[k].result.readFloor <= entry'[k].result.value
    BY <1>1 DEF FloorInv
<1>5. \A r \in Readers : got'[r].readFloor <= got'[r].value
  <2>1. CASE UNCHANGED got
      BY <2>1 DEF FloorInv
  <2>2. ASSUME NEW r \in Readers, QueryDatabase(r), NEW x \in Readers
        PROVE  got'[x].readFloor <= got'[x].value
    <3>1. CASE x = r
      <4>1. /\ got'[r].readFloor = floor[QueryOf[key[r]]]
            /\ got'[r].value = db[QueryOf[key[r]]]
          BY <2>2 DEF QueryDatabase, TypeOK
      <4>2. QueryOf[key[r]] \in Queries
          BY ConstantTypes, TypeParts
      <4>3. QED
          BY <3>1, <4>1, <4>2 DEF FloorInv
    <3>2. CASE x # r
        BY <2>2, <3>2 DEF QueryDatabase, FloorInv, TypeOK
    <3>3. QED
        BY <3>1, <3>2
  <2>3. ASSUME NEW r \in Readers, ReturnHit(r) \/ QueryFails(r), NEW x \in Readers
        PROVE  got'[x].readFloor <= got'[x].value
    <3>1. Answered(r)
        BY <2>3 DEF ReturnHit, QueryFails
    <3>2. CASE x = r
        BY <3>1, <3>2 DEF Answered, TypeOK, NoResult
    <3>3. CASE x # r
        BY <3>1, <3>3 DEF Answered, TypeOK, FloorInv
    <3>4. QED
        BY <3>2, <3>3
  <2>4. CASE \/ Tick \/ UNCHANGED vars
             \/ \E r \in Readers : \E k \in Keys : Arrive(r, k)
             \/ \E w \in Writers : QuietWrite(w)
    <3>1. UNCHANGED got
        BY <2>4 DEF Tick, vars, Arrive, QuietWrite, CommitCommand, NeverInvalidates
    <3>2. QED
        BY <3>1, <2>1
  <2>5. QED
      BY <2>2, <2>3, <2>4 DEF QuietRead
<1>6. ASSUME NEW q \in Queries
      PROVE  /\ floor'[q] <= db'[q]
             /\ \A w \in Writers : wrote'[w][q] <= db'[q]
  <2>1. CASE UNCHANGED <<db, wrote>>
      BY <2>1, <1>2 DEF FloorInv
  <2>2. ASSUME NEW w \in Writers, CommitCommand(w)
        PROVE  floor'[q] <= db'[q] /\ \A x \in Writers : wrote'[x][q] <= db'[q]
    <3>1. db[q] \in Nat /\ db'[q] \in Nat /\ floor[q] \in Nat
        BY DEF TypeOK
    <3>2. db[q] <= db'[q]
        BY <2>2, <3>1 DEF CommitCommand
    <3>3. \A x \in Writers : wrote'[x] = IF x = w THEN db' ELSE wrote[x]
        BY <2>2 DEF CommitCommand, TypeOK
    <3>4. \A x \in Writers : wrote[x][q] \in Nat /\ wrote[x][q] <= db[q]
        BY DEF FloorInv, TypeOK
    <3>5. floor'[q] <= db'[q]
        BY <1>2, <3>1, <3>2 DEF FloorInv
    <3>6. QED
        BY <3>1, <3>2, <3>3, <3>4, <3>5
  <2>3. UNCHANGED <<db, wrote>> \/ \E w \in Writers : CommitCommand(w)
      BY DEF Tick, vars, QuietRead, QuietWrite, Arrive, ReturnHit, QueryDatabase, QueryFails,
         NeverInvalidates
  <2>4. QED
      BY <2>1, <2>2, <2>3
<1>7. QED
    BY <1>3, <1>4, <1>5, <1>6 DEF FloorInv

LEMMA HitFloor ==
    ASSUME TypeOK, LayersInv, FloorInv, NEW r \in Readers, LookupHit(r)
    PROVE  FloorInv'
<1>1. /\ UNCHANGED <<now, db, floor, live, entry, wrote>>
      /\ got' = [got EXCEPT ![r] = entry[key[r]].result]
    BY DEF LookupHit, writerVars
<1>2. Servable' = Servable
    BY HitLayers
<1>3. ASSUME NEW x \in Readers PROVE got'[x].readFloor <= got'[x].value
  <2>1. got'[x] = IF x = r THEN entry[key[r]].result ELSE got[x]
      BY <1>1 DEF TypeOK
  <2>2. QED
      BY <2>1, TypeParts DEF FloorInv
<1>4. QED
    BY <1>1, <1>2, <1>3 DEF FloorInv

LEMMA StoreFloor ==
    ASSUME TypeOK, LayersInv, FloorInv, NEW r \in Readers, Store(r)
    PROVE  FloorInv'
<1> DEFINE k == key[r]
<1>1. Answered(r) /\ UNCHANGED <<now, db, floor, wrote>>
    BY DEF Store, writerVars
<1>2. k \in Keys /\ now \in Nat
    BY TypeParts
<1>3. ASSUME NEW x \in Readers PROVE got'[x].readFloor <= got'[x].value
  <2>1. got'[x] = IF x = r THEN NoResult ELSE got[x]
      BY <1>1 DEF Answered, TypeOK
  <2>2. QED
      BY <2>1 DEF FloorInv, NoResult
<1>4. entry'[k] = NewEntry(r)
    BY StoreEntries
<1>5. NewEntry(r).result = got[r] /\ NewEntry(r).putFloor = floor[QueryOf[k]]
    BY DEF NewEntry
<1>6. ASSUME NEW x \in Keys PROVE entry'[x].result.readFloor <= entry'[x].result.value
  <2>1. CASE x = k
      BY <2>1, <1>4, <1>5 DEF FloorInv
  <2>2. CASE x # k
    <3>1. entry'[x] = entry[x] \/ entry'[x] = NoEntry
        BY <2>2, StoreEntries
    <3>2. QED
        BY <3>1 DEF FloorInv, NoEntry, NoResult
  <2>3. QED
      BY <2>1, <2>2
<1>7. ASSUME NEW x \in Servable' PROVE entry'[x].putFloor = floor'[QueryOf[x]]
  <2>1. CASE x = k
      BY <2>1, <1>1, <1>4, <1>5
  <2>2. CASE x # k
    <3>1. x \in live' /\ x \in live /\ x \in Keys
        BY <1>7, <2>2, StoreEntries DEF Servable, TypeOK
    <3>2. entry'[x] = entry[x]
        BY <2>2, <3>1, StoreEntries
    <3>3. x \in Servable
        BY <1>1, <1>2, <3>1, <3>2, StillServable
    <3>4. QED
        BY <1>1, <3>2, <3>3 DEF FloorInv
  <2>3. QED
      BY <2>1, <2>2
<1>8. QED
    BY <1>1, <1>3, <1>6, <1>7 DEF FloorInv

LEMMA RemovingFloor ==
    ASSUME TypeOK, LayersInv, FloorInv,
           \/ Flush
           \/ \E k \in Keys : DropExpired(k)
           \/ \E r \in Readers : LookupMiss(r)
           \/ \E w \in Writers : InvalidateQueries(w)
    PROVE  FloorInv'
<1>1. Servable' \subseteq Servable /\ entry' = Kept(live')
    BY RemovingLayers
<1>2. UNCHANGED <<db, wrote, got>>
    BY DEF Flush, DropExpired, LookupMiss, InvalidateQueries, readerVars, writerVars
<1>3. ASSUME NEW k \in Keys PROVE entry'[k].result.readFloor <= entry'[k].result.value
  <2>1. entry'[k] = entry[k] \/ entry'[k] = NoEntry
      BY <1>1, KeptType, TypeParts
  <2>2. QED
      BY <2>1 DEF FloorInv, NoEntry, NoResult
<1>4. ASSUME NEW k \in Servable' PROVE k \in Servable /\ k \in Keys /\ entry'[k] = entry[k]
  <2>1. k \in Servable /\ k \in live' /\ k \in Keys
      BY <1>1, <1>4 DEF Servable, TypeOK
  <2>2. QED
      BY <1>1, <2>1, KeptType, TypeParts
<1>5. CASE UNCHANGED floor
    BY <1>2, <1>3, <1>4, <1>5 DEF FloorInv
<1>6. ASSUME NEW w \in Writers, InvalidateQueries(w) PROVE FloorInv'
  <2>1. /\ live' = live \ Dropped(w)
        /\ \A q \in Queries : \/ floor'[q] = floor[q]
                              \/ q \in Invalidates[w] /\ floor'[q] = wrote[w][q]
      BY <1>6 DEF InvalidateQueries
  <2>2. \A q \in Queries : floor'[q] <= db[q]
      BY <2>1 DEF FloorInv
  <2>3. ASSUME NEW k \in Servable' PROVE entry'[k].putFloor = floor'[QueryOf[k]]
    <3>1. k \in Servable /\ k \in Keys /\ entry'[k] = entry[k] /\ QueryOf[k] \in Queries
        BY <2>3, <1>4, ConstantTypes
    <3>2. k \in Cached
        BY <3>1 DEF LayersInv
    <3>3. k \notin Dropped(w)
        BY <2>3, <2>1 DEF Servable
    <3>4. QueryOf[k] \notin Invalidates[w]
        BY <3>1, <3>2, <3>3 DEF Dropped
    <3>5. QED
        BY <3>1, <3>4, <2>1 DEF FloorInv
  <2>4. QED
      BY <1>2, <1>3, <2>2, <2>3 DEF FloorInv
<1>7. UNCHANGED floor \/ \E w \in Writers : InvalidateQueries(w)
    BY DEF Flush, DropExpired, LookupMiss
<1>8. QED
    BY <1>5, <1>6, <1>7

(***************************************************************************)
(* No outdated entry survives an invalidation that reached this cache,     *)
(* for any tenants, arguments and TTLs, unless its request had read the    *)
(* database before and stored after it.                                    *)
(***************************************************************************)
THEOREM InvalidationComplete == Spec => []StaleOnlyByOverlap
<1>1. Init => FloorInv
    BY DEF Init, FloorInv, Servable, NoEntry, NoResult
<1>2. TypeOK /\ LayersInv /\ FloorInv /\ [Next]_vars => FloorInv'
    BY StepTypeOK, NextIsAction, QuietFloor, HitFloor, StoreFloor, RemovingFloor
<1>3. TypeOK /\ FloorInv => StaleOnlyByOverlap
    BY FloorInvImplies
<1>4. QED
    BY <1>1, <1>2, <1>3, LayersAlways, PTL DEF Spec
=============================================================================
