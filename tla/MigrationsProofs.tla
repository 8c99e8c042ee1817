-------------------------- MODULE MigrationsProofs --------------------------
(***************************************************************************)
(* Proofs about the order of the migrations, the directory of the          *)
(* generated ones, db:migrate, and "lazuli migrate" with its ledger: for   *)
(* any schema, any manual migrations, any number of runs at once and any   *)
(* number of edits and crashes in between.                                 *)
(***************************************************************************)
EXTENDS Migrations, FiniteSetTheorems, SequenceTheorems, TLAPS

(***************************************************************************)
(* The order of the versions.  Counting the smaller ones numbers a finite  *)
(* set of versions 1, 2, ... without gaps.                                 *)
(***************************************************************************)
Rank(S, v) == Cardinality({w \in S : w <= v})

LEMMA RankMonotone ==
    ASSUME NEW S \in SUBSET Nat, IsFiniteSet(S), NEW a \in S, NEW b \in S, a < b
    PROVE  Rank(S, a) < Rank(S, b)
<1> DEFINE A == {j \in S : j <= a}
           B == {j \in S : j <= b}
<1>1. A \in SUBSET B
  <2>1. ASSUME NEW j \in S, j <= a PROVE j <= b
      BY <2>1
  <2>2. QED
      BY <2>1
<1>2. IsFiniteSet(B)
  <2>1. B \in SUBSET S
      OBVIOUS
  <2>2. QED
      BY ONLY <2>1, IsFiniteSet(S), FS_Subset
<1>3. b \in B /\ b \notin A
    OBVIOUS
<1>4. A # B
    BY <1>3
<1>5. /\ IsFiniteSet(A) /\ Cardinality(A) <= Cardinality(B)
      /\ Cardinality(B) = Cardinality(A) => B = A
    BY ONLY <1>1, <1>2, FS_Subset
<1>6. Cardinality(A) \in Nat /\ Cardinality(B) \in Nat
    BY ONLY <1>2, <1>5, FS_CardinalityType
<1>7. Cardinality(A) < Cardinality(B)
  <2> HIDE DEF A, B
  <2>1. QED
      BY <1>4, <1>5, <1>6
<1>8. QED
    BY <1>7 DEF Rank

LEMMA RankRange ==
    ASSUME NEW S \in SUBSET Nat, IsFiniteSet(S), NEW v \in S
    PROVE  Rank(S, v) \in 1..Cardinality(S)
<1> DEFINE A == {j \in S : j <= v}
<1>1. A \in SUBSET S /\ v \in A
    OBVIOUS
<1>2. IsFiniteSet(A) /\ Cardinality(A) <= Cardinality(S)
    BY ONLY <1>1, IsFiniteSet(S), FS_Subset
<1>3. Cardinality(A) \in Nat /\ (Cardinality(A) = 0 <=> A = {})
    BY ONLY <1>2, FS_CardinalityType, FS_EmptySet
<1>4. Cardinality(S) \in Nat
    BY FS_CardinalityType
<1>5. QED
    BY <1>1, <1>2, <1>3, <1>4 DEF Rank

LEMMA RankInjective ==
    ASSUME NEW S \in SUBSET Nat, IsFiniteSet(S), NEW a \in S, NEW b \in S,
           Rank(S, a) = Rank(S, b)
    PROVE  a = b
<1>1. Rank(S, a) \in 1..Cardinality(S) /\ Rank(S, b) \in 1..Cardinality(S)
    BY RankRange
<1>2. Cardinality(S) \in Nat
    BY FS_CardinalityType
<1>3. a \in Nat /\ b \in Nat
    OBVIOUS
<1>4. ~ (a < b)
    BY <1>1, <1>2, RankMonotone
<1>5. ~ (b < a)
    BY <1>1, <1>2, RankMonotone
<1>6. QED
    BY <1>3, <1>4, <1>5

LEMMA RankSurjective ==
    ASSUME NEW S \in SUBSET Nat, IsFiniteSet(S), NEW n \in 1..Cardinality(S)
    PROVE  \E v \in S : Rank(S, v) = n
<1> DEFINE f == [v \in S |-> Rank(S, v)]
           I == 1..Cardinality(S)
<1>1. \A v \in S : Rank(S, v) \in I
    BY RankRange
<1>2. f \in Injection(S, I)
    BY <1>1, RankInjective DEF Injection, IsInjective
<1>3. IsFiniteSet(I) /\ Cardinality(I) = Cardinality(S)
    BY FS_CardinalityType, FS_Interval
<1>4. f \in Surjection(S, I)
  <2> HIDE DEF f, I
  <2>1. QED
      BY <1>2, <1>3, FS_Injection
<1>5. QED
    BY <1>4 DEF Surjection

Increasing(s) == \A m, n \in 1..Len(s) : m < n => s[m] < s[n]
Decreasing(s) == \A m, n \in 1..Len(s) : m < n => s[m] > s[n]

\* The elements of a sequence.
Elems(s) == {s[n] : n \in 1..Len(s)}

(***************************************************************************)
(* Ascending lists a finite set of numbers once, in order.                 *)
(***************************************************************************)
LEMMA AscendingProperties ==
    ASSUME NEW S \in SUBSET Nat, IsFiniteSet(S)
    PROVE  /\ Ascending(S) \in Seq(S)
           /\ Len(Ascending(S)) = Cardinality(S)
           /\ Cardinality(S) \in Nat
           /\ Increasing(Ascending(S))
           /\ Elems(Ascending(S)) = S
<1> DEFINE c == Cardinality(S)
           Nth(n) == CHOOSE v \in S : Rank(S, v) = n
           g == [n \in 1..c |-> Nth(n)]
<1>1. c \in Nat
    BY FS_CardinalityType
<1>2. \A n \in 1..c : Nth(n) \in S /\ Rank(S, Nth(n)) = n
    BY RankSurjective
<1>3. Ascending(S) = g
    BY DEF Ascending, Rank
<1> HIDE DEF Nth, c
<1>4. g \in [1..c -> S]
    BY <1>2
<1>5. g \in Seq(S) /\ Len(g) = c
  <2> HIDE DEF g
  <2>1. QED
      BY <1>1, <1>4
<1>6. \A n \in 1..c : g[n] = Nth(n)
    OBVIOUS
<1> HIDE DEF g
<1>7. Increasing(g)
  <2> SUFFICES ASSUME NEW m \in 1..c, NEW n \in 1..c, m < n PROVE g[m] < g[n]
      BY <1>5 DEF Increasing
  <2>1. PICK x \in S, y \in S : x = g[m] /\ y = g[n]
      BY <1>4
  <2>2. Rank(S, x) = m /\ Rank(S, y) = n /\ x \in Nat /\ y \in Nat
      BY <1>2, <1>6, <2>1
  <2>3. m \in Nat /\ n \in Nat
      BY <1>1
  <2>4. x # y
      BY <2>2, <2>3
  <2>5. ~ (y < x)
    <3>1. y < x => Rank(S, y) < Rank(S, x)
        BY RankMonotone
    <3>2. QED
        BY <2>2, <2>3, <3>1
  <2>6. QED
      BY <2>1, <2>2, <2>4, <2>5
<1>8. Elems(g) = S
  <2>1. ASSUME NEW v \in S PROVE \E n \in 1..c : g[n] = v
    <3>1. Rank(S, v) \in 1..c
        BY RankRange DEF c
    <3>2. g[Rank(S, v)] \in S /\ Rank(S, g[Rank(S, v)]) = Rank(S, v)
        BY <1>2, <1>6, <3>1
    <3> DEFINE w == g[Rank(S, v)]
    <3>3. w \in S /\ Rank(S, w) = Rank(S, v)
        BY <3>2
    <3> HIDE DEF w
    <3>4. w = v
        BY <3>3, RankInjective
    <3>5. QED
        BY <3>1, <3>4 DEF w
  <2>2. QED
      BY <1>4, <1>5, <2>1 DEF Elems
<1>9. QED
    BY <1>1, <1>3, <1>5, <1>7, <1>8 DEF c

(***************************************************************************)
(* What a rollback of n steps takes: the newest applied versions, newest   *)
(* first, and with a version every applied one above it.                   *)
(***************************************************************************)
LEMMA LastAppliedProperties ==
    ASSUME ledger \in SUBSET Versions, NEW n \in Nat
    PROVE  /\ LastApplied(n) \in Seq(Versions)
           /\ Decreasing(LastApplied(n))
           /\ \A v \in Elems(LastApplied(n)) : \A w \in ledger :
                  w > v => w \in Elems(LastApplied(n))
<1> DEFINE c == Cardinality(ledger)
           asc == Ascending(ledger)
           d == [k \in 1..c |-> asc[c + 1 - k]]
           k0 == IF n < Len(d) THEN n ELSE Len(d)
           l == SubSeq(d, 1, k0)
<1>1. ledger \in SUBSET Nat /\ IsFiniteSet(ledger)
    BY MigrationsAssumption, FS_Subset
<1>2. /\ asc \in Seq(ledger) /\ Len(asc) = c /\ c \in Nat
      /\ Increasing(asc) /\ Elems(asc) = ledger
    BY <1>1, AscendingProperties
<1>3. LastApplied(n) = l
    BY DEF LastApplied, Descending
<1> HIDE DEF asc, c
<1>4. \A k \in 1..c : c + 1 - k \in 1..c /\ asc[c + 1 - k] \in Versions
    BY <1>2
<1>5. d \in [1..c -> Versions] /\ \A k \in 1..c : d[k] = asc[c + 1 - k]
    BY <1>4
<1>6. d \in Seq(Versions) /\ Len(d) = c
  <2> HIDE DEF d
  <2>1. QED
      BY <1>2, <1>5
<1> HIDE DEF d
<1>7. k0 \in 0..c /\ k0 \in Nat
    BY <1>2, <1>6
<1> HIDE DEF k0
<1>8. l \in Seq(Versions) /\ Len(l) = k0 /\ \A k \in 1..k0 : l[k] = d[k]
    BY <1>2, <1>6, <1>7
<1> HIDE DEF l
<1>9. \A k \in 1..k0 : k \in 1..c /\ c + 1 - k \in 1..c /\ l[k] = asc[c + 1 - k]
    BY <1>2, <1>4, <1>5, <1>7, <1>8
<1>10. \A k \in 1..c : asc[k] \in Nat
  <2>1. \A k \in 1..c : asc[k] \in ledger
      BY <1>2
  <2>2. QED
      BY <1>1, <2>1
<1>11. Decreasing(l)
  <2> SUFFICES ASSUME NEW i \in 1..k0, NEW j \in 1..k0, i < j PROVE l[i] > l[j]
      BY <1>8 DEF Decreasing
  <2>1. c + 1 - j < c + 1 - i
      BY <1>2, <1>7
  <2>2. asc[c + 1 - j] < asc[c + 1 - i]
      BY <1>2, <1>9, <2>1 DEF Increasing
  <2>3. QED
      BY <1>9, <1>10, <2>2
<1>12. ASSUME NEW v \in Elems(l), NEW w \in ledger, w > v PROVE w \in Elems(l)
  <2>1. PICK k \in 1..k0 : v = l[k]
      BY <1>8 DEF Elems
  <2>2. PICK m \in 1..c : w = asc[m]
      BY <1>2 DEF Elems
  <2>3. v = asc[c + 1 - k] /\ c + 1 - k \in 1..c
      BY <1>9, <2>1
  <2>4. v \in Nat /\ w \in Nat /\ m \in Nat /\ c + 1 - k \in Nat
      BY <1>10, <2>2, <2>3
  <2>5. ~ (m < c + 1 - k)
    <3>1. m < c + 1 - k => w < v
        BY <1>2, <2>2, <2>3 DEF Increasing
    <3>2. QED
        BY <1>12, <2>4, <3>1
  <2>6. m # c + 1 - k
      BY <1>12, <2>2, <2>3, <2>4
  <2>7. c + 1 - m \in 1..k0 /\ c + 1 - (c + 1 - m) = m
      BY <1>2, <1>7, <2>4, <2>5, <2>6
  <2>8. l[c + 1 - m] = w
      BY <1>9, <2>2, <2>7
  <2>9. QED
      BY <1>8, <2>7, <2>8 DEF Elems
<1>13. \A v \in Elems(l) : \A w \in ledger : w > v => w \in Elems(l)
    BY <1>12
<1>14. QED
    BY ONLY <1>3, <1>8, <1>11, <1>13
-----------------------------------------------------------------------------
(***************************************************************************)
(* Induction up to a number, for a set instead of a predicate: the lowest  *)
(* number that is missing would have rank 1 among those that are.          *)
(***************************************************************************)
LEMMA LowestExists ==
    ASSUME NEW S \in SUBSET Nat, IsFiniteSet(S), S # {}
    PROVE  \E m \in S : \A y \in S : m <= y
<1>1. Cardinality(S) \in Nat /\ 1 \in 1..Cardinality(S)
    BY FS_CardinalityType, FS_EmptySet
<1>2. PICK m \in S : Rank(S, m) = 1
    BY <1>1, RankSurjective
<1>3. ASSUME NEW y \in S, y < m PROVE FALSE
    BY <1>1, <1>2, <1>3, RankMonotone, RankRange
<1>4. QED
    BY <1>3

LEMMA InductionUpTo ==
    ASSUME NEW N \in Nat, NEW A, 0 \in A, \A n \in 0..(N - 1) : n \in A => n + 1 \in A
    PROVE  0..N \subseteq A
<1> DEFINE B == {n \in 0..N : n \notin A}
<1> SUFFICES ASSUME B # {} PROVE FALSE
    OBVIOUS
<1>1. IsFiniteSet(B) /\ B \in SUBSET Nat
  <2>1. IsFiniteSet(0..N) /\ B \in SUBSET (0..N)
      BY FS_Interval
  <2>2. QED
      BY <2>1, FS_Subset
<1>2. PICK m \in B : \A y \in B : m <= y
    BY <1>1, LowestExists
<1>3. m \in 1..N /\ m - 1 \in 0..(N - 1) /\ m - 1 \notin B
    BY <1>2
<1>4. m - 1 \in A /\ (m - 1) + 1 = m
    BY <1>3
<1>5. QED
    BY <1>2, <1>3, <1>4

(***************************************************************************)
(* Kahn is a recursive function; that it exists takes an induction over    *)
(* its domain.                                                             *)
(***************************************************************************)
LEMMA KahnUnfolds ==
    ASSUME NEW s, NEW N \in Nat, N = Cardinality(DOMAIN s)
    PROVE  /\ Kahn(s)[0] = <<>>
           /\ \A n \in 0..(N - 1) : Kahn(s)[n + 1] = EmitNext(s, Kahn(s)[n])
<1> DEFINE Fits(g, k) == g = [n \in 0..k |-> IF n = 0 THEN <<>> ELSE EmitNext(s, g[n - 1])]
           A == {k \in 0..N : \E g : Fits(g, k)}
<1>1. 0 \in A
  <2>1. Fits([n \in 0..0 |-> <<>>], 0)
      OBVIOUS
  <2>2. \E g : Fits(g, 0)
    <3> HIDE DEF Fits
    <3>1. QED
        BY <2>1
  <2>3. QED
      BY <2>2
<1>2. ASSUME NEW k \in 0..(N - 1), k \in A PROVE k + 1 \in A
  <2>1. PICK g : Fits(g, k)
      BY <1>2
  <2> DEFINE h == [n \in 0..(k + 1) |-> IF n = k + 1 THEN EmitNext(s, g[k]) ELSE g[n]]
  <2>2. \A n \in 0..k : h[n] = g[n]
      OBVIOUS
  <2>3. \A n \in 0..(k + 1) : h[n] = IF n = 0 THEN <<>> ELSE EmitNext(s, h[n - 1])
    <3> TAKE n \in 0..(k + 1)
    <3>1. CASE n = 0
        BY <2>1, <3>1
    <3>2. CASE n = k + 1
      <4>1. h[n] = EmitNext(s, g[k]) /\ h[n - 1] = g[k]
          BY <3>2
      <4>2. QED
          BY <3>2, <4>1
    <3>3. CASE n \in 1..k
      <4>1. n - 1 \in 0..k /\ h[n] = g[n] /\ h[n - 1] = g[n - 1]
          BY <3>3
      <4>2. g[n] = EmitNext(s, g[n - 1])
          BY <2>1, <3>3
      <4>3. QED
          BY <3>3, <4>1, <4>2
    <3>4. QED
        BY <3>1, <3>2, <3>3
  <2>4. Fits(h, k + 1)
    <3>1. h = [n \in 0..(k + 1) |-> h[n]]
        OBVIOUS
    <3> HIDE DEF h
    <3>2. QED
        BY <2>3, <3>1
  <2>5. \E f : Fits(f, k + 1)
    <3> HIDE DEF Fits
    <3>1. QED
        BY <2>4
  <2>6. k + 1 \in 0..N
      OBVIOUS
  <2>7. QED
      BY <2>5, <2>6
<1>3. N \in A
  <2> HIDE DEF A
  <2>1. 0..N \subseteq A
      BY <1>1, <1>2, InductionUpTo
  <2>2. QED
      BY <2>1
<1>4. PICK g : Fits(g, N)
    BY <1>3
<1>5. Kahn(s) = CHOOSE f : Fits(f, N)
    BY DEF Kahn
<1>6. Fits(Kahn(s), N)
    BY <1>4, <1>5
<1>7. QED
    BY <1>6

IsSchema(s) == /\ DOMAIN s \subseteq Nat /\ IsFiniteSet(DOMAIN s)
               /\ s \in [DOMAIN s -> SUBSET DOMAIN s]

(***************************************************************************)
(* What Kahn's loop keeps: a resource is emitted once, and all its targets *)
(* before it.                                                              *)
(***************************************************************************)
Ordered(s, o) ==
    /\ o \in Seq(DOMAIN s)
    /\ \A i, j \in 1..Len(o) : o[i] = o[j] => i = j
    /\ \A i \in 1..Len(o) : \A t \in Targets(s, o[i]) : \E j \in 1..(i - 1) : o[j] = t

LEMMA RangeElems ==
    ASSUME NEW D, NEW o \in Seq(D)
    PROVE  Range(o) = Elems(o) /\ Range(o) \subseteq D
    BY DEF Range, Elems

LEMMA EmitNextKeeps ==
    ASSUME NEW s, IsSchema(s), NEW o, Ordered(s, o)
    PROVE  /\ Ordered(s, EmitNext(s, o))
           /\ Ready(s, Range(o)) = {} => EmitNext(s, o) = o
           /\ Ready(s, Range(o)) # {} => Len(EmitNext(s, o)) = Len(o) + 1
<1> DEFINE D == DOMAIN s
           ready == Ready(s, Range(o))
<1>1. o \in Seq(D) /\ Len(o) \in Nat
    BY DEF Ordered
<1>2. CASE ready = {}
  <2>1. EmitNext(s, o) = o
      BY <1>2 DEF EmitNext
  <2>2. QED
      BY <1>2, <2>1
<1>3. CASE ready # {}
  <2>1. ready \in SUBSET D
      BY DEF Ready
  <2>2. ready \in SUBSET Nat /\ IsFiniteSet(ready)
      BY <2>1, FS_Subset DEF IsSchema
  <2>3. PICK m \in ready : \A y \in ready : m <= y
    <3> HIDE DEF ready
    <3>1. QED
        BY <1>3, <2>2, LowestExists
  <2> DEFINE z == Min(ready)
             p == Append(o, z)
  <2>4. z \in ready
    <3> HIDE DEF ready
    <3>1. QED
        BY <2>3 DEF Min
  <2>5. EmitNext(s, o) = p
      BY <1>3 DEF EmitNext
  <2> HIDE DEF z
  <2>6. z \in D /\ z \notin Range(o) /\ Targets(s, z) \subseteq Range(o)
      BY <2>4 DEF Ready
  <2>7. /\ p \in Seq(D) /\ Len(p) = Len(o) + 1
        /\ \A i \in 1..Len(o) : p[i] = o[i]
        /\ p[Len(o) + 1] = z
      BY <1>1, <2>6
  <2> HIDE DEF p, D, ready
  <2>8. Range(o) = {o[i] : i \in 1..Len(o)}
      BY <1>1, RangeElems DEF Elems
  <2>9. \A i, j \in 1..Len(p) : p[i] = p[j] => i = j
    <3>1. \A i \in 1..Len(o) : o[i] # z
        BY <2>6, <2>8
    <3>2. QED
        BY <1>1, <2>7, <3>1 DEF Ordered
  <2>10. \A i \in 1..Len(p) : \A t \in Targets(s, p[i]) : \E j \in 1..(i - 1) : p[j] = t
    <3> SUFFICES ASSUME NEW i \in 1..Len(p), NEW t \in Targets(s, p[i])
                 PROVE  \E j \in 1..(i - 1) : p[j] = t
        OBVIOUS
    <3>1. CASE i \in 1..Len(o)
      <4>1. p[i] = o[i]
          BY <2>7, <3>1
      <4>2. PICK j \in 1..(i - 1) : o[j] = t
          BY <3>1, <4>1 DEF Ordered
      <4>3. j \in 1..Len(o)
          BY <1>1, <3>1
      <4>4. QED
          BY <2>7, <4>2, <4>3
    <3>2. CASE i = Len(o) + 1
      <4>1. t \in Range(o)
          BY <2>6, <2>7, <3>2
      <4>2. PICK j \in 1..Len(o) : o[j] = t
          BY <2>8, <4>1
      <4>3. j \in 1..(i - 1) /\ p[j] = t
          BY <1>1, <2>7, <3>2, <4>2
      <4>4. QED
          BY <4>3
    <3>3. QED
        BY <1>1, <2>7, <3>1, <3>2
  <2>11. Ordered(s, p)
      BY <2>7, <2>9, <2>10 DEF Ordered, D
  <2>12. QED
      BY <1>3, <2>5, <2>7, <2>11 DEF ready
<1>4. QED
    BY <1>2, <1>3

\* After n turns n resources are emitted, or none is ready any more.
LEMMA KahnTurns ==
    ASSUME NEW s, IsSchema(s), NEW N \in Nat, N = Cardinality(DOMAIN s)
    PROVE  \A n \in 0..N : /\ Ordered(s, Kahn(s)[n])
                           /\ \/ Len(Kahn(s)[n]) = n
                              \/ Ready(s, Range(Kahn(s)[n])) = {}
<1> DEFINE K == Kahn(s)
           Good(n) == /\ Ordered(s, K[n])
                      /\ Len(K[n]) = n \/ Ready(s, Range(K[n])) = {}
           A == {n \in 0..N : Good(n)}
<1>1. K[0] = <<>> /\ \A n \in 0..(N - 1) : K[n + 1] = EmitNext(s, K[n])
    BY KahnUnfolds
<1> HIDE DEF K
<1>2. 0 \in A
  <2>1. <<>> \in Seq(DOMAIN s) /\ Len(<<>>) = 0 /\ 1..0 = {}
      OBVIOUS
  <2>2. Ordered(s, <<>>)
      BY <2>1 DEF Ordered
  <2>3. QED
      BY <1>1, <2>1, <2>2
<1>3. ASSUME NEW n \in 0..(N - 1), n \in A PROVE n + 1 \in A
  <2>1. Good(n) /\ K[n + 1] = EmitNext(s, K[n]) /\ n + 1 \in 0..N
      BY <1>1, <1>3
  <2>2. Ordered(s, K[n + 1])
      BY <2>1, EmitNextKeeps
  <2>3. CASE Ready(s, Range(K[n])) = {}
    <3>1. K[n + 1] = K[n]
        BY <2>1, <2>3, EmitNextKeeps
    <3>2. QED
        BY <2>1, <2>2, <2>3, <3>1
  <2>4. CASE Ready(s, Range(K[n])) # {}
    <3>1. Len(K[n + 1]) = Len(K[n]) + 1 /\ Len(K[n]) = n
        BY <2>1, <2>4, EmitNextKeeps
    <3>2. QED
        BY <2>1, <2>2, <3>1
  <2>5. QED
      BY <2>3, <2>4
<1>4. 0..N \subseteq A
  <2> HIDE DEF A
  <2>1. QED
      BY <1>2, <1>3, InductionUpTo
<1>5. \A n \in 0..N : Good(n)
    BY <1>4
<1>6. QED
    BY <1>5 DEF K

\* A sequence without repetitions is as long as the set of its elements.
LEMMA DistinctLength ==
    ASSUME NEW D, NEW o \in Seq(D), \A i, j \in 1..Len(o) : o[i] = o[j] => i = j
    PROVE  IsFiniteSet(Elems(o)) /\ Cardinality(Elems(o)) = Len(o)
<1> DEFINE I == 1..Len(o)
           E == Elems(o)
           f == [i \in I |-> o[i]]
<1>1. Len(o) \in Nat
    OBVIOUS
<1>2. IsFiniteSet(I) /\ Cardinality(I) = Len(o)
  <2>1. \A n \in Nat : IsFiniteSet(1..n) /\ Cardinality(1..n) = n
      BY FS_Interval
  <2>2. QED
      BY ONLY <1>1, <2>1
<1>3. f \in [I -> E] /\ \A e \in E : \E i \in I : f[i] = e
    BY DEF Elems
<1>4. \A i, j \in I : f[i] = f[j] => i = j
    OBVIOUS
<1> HIDE DEF f, I, E
<1>5. f \in Surjection(I, E)
    BY <1>3 DEF Surjection
<1>6. IsFiniteSet(E) /\ Cardinality(E) <= Cardinality(I)
    BY <1>2, <1>5, FS_Surjection
<1>7. f \in Injection(I, E)
    BY <1>3, <1>4 DEF Injection, IsInjective
<1>8. Cardinality(I) <= Cardinality(E)
    BY <1>6, <1>7, FS_Injection
<1>9. Cardinality(E) \in Nat
    BY <1>6, FS_CardinalityType
<1>10. QED
    BY <1>1, <1>2, <1>6, <1>8, <1>9 DEF E

(***************************************************************************)
(* When the loop ends nothing is ready, so what is left over is a set each *)
(* member of which refers to another one: everything in it leads into a    *)
(* cycle.                                                                  *)
(***************************************************************************)
LEMMA KahnEnds ==
    ASSUME NEW s, IsSchema(s), NEW k, k = Kahn(s)[Cardinality(DOMAIN s)]
    PROVE  Ordered(s, k) /\ Ready(s, Range(k)) = {}
<1> DEFINE D == DOMAIN s
           N == Cardinality(D)
<1>1. N \in Nat /\ N \in 0..N
    BY FS_CardinalityType DEF IsSchema
<1>2. Ordered(s, k) /\ (Len(k) = N \/ Ready(s, Range(k)) = {})
    BY <1>1, KahnTurns
<1>3. CASE Len(k) = N
  <2>1. IsFiniteSet(Elems(k)) /\ Cardinality(Elems(k)) = N
      BY <1>2, <1>3, DistinctLength DEF Ordered
  <2>2. Range(k) = Elems(k) /\ Elems(k) \in SUBSET D
      BY <1>2, RangeElems DEF Ordered
  <2>3. Elems(k) = D
      BY <2>1, <2>2, FS_Subset DEF IsSchema
  <2>4. QED
      BY <1>2, <2>2, <2>3 DEF Ready
<1>4. QED
    BY <1>2, <1>3

LEMMA LeftOverIsCyclic ==
    ASSUME NEW s, IsSchema(s), NEW done, Ready(s, done) = {}, NEW r \in DOMAIN s \ done
    PROVE  BehindCycle(s, r)
<1> DEFINE S == DOMAIN s \ done
<1>1. ASSUME NEW q \in S PROVE (s[q] \ {q}) \cap S # {}
  <2>1. ~ (Targets(s, q) \subseteq done)
      BY <1>1 DEF Ready
  <2>2. PICK t \in s[q] \ {q} : t \notin done
      BY <2>1 DEF Targets
  <2>3. t \in DOMAIN s
      BY <1>1, <2>2 DEF IsSchema
  <2>4. QED
      BY <2>2, <2>3
<1>2. S \in SUBSET DOMAIN s /\ r \in S
    OBVIOUS
<1> HIDE DEF S
<1>3. QED
    BY <1>1, <1>2 DEF BehindCycle

(***************************************************************************)
(* topo_sort_resources, for every schema: a permutation of the resources   *)
(* in which the targets come first, but for what leads into a cycle.       *)
(***************************************************************************)
THEOREM TopoSortSound ==
    \A s : IsSchema(s) => SortedTargetsFirst(s, TopoSort(s))
<1> SUFFICES ASSUME NEW s, IsSchema(s) PROVE SortedTargetsFirst(s, TopoSort(s))
    OBVIOUS
<1> DEFINE D == DOMAIN s
<1>1. PICK k : k = Kahn(s)[Cardinality(D)]
    OBVIOUS
<1>2. Ordered(s, k) /\ Ready(s, Range(k)) = {}
    BY <1>1, KahnEnds
<1> DEFINE R == D \ Range(k)
           a == Ascending(R)
           order == k \o a
<1>3. TopoSort(s) = order
    BY <1>1 DEF TopoSort
<1>4. IsFiniteSet(D) /\ D \in SUBSET Nat /\ Cardinality(D) \in Nat
    BY FS_CardinalityType DEF IsSchema
<1>5. k \in Seq(D) /\ Range(k) = Elems(k) /\ Range(k) \subseteq D
    BY <1>2, RangeElems DEF Ordered
<1>6. Cardinality(Range(k)) = Len(k) /\ IsFiniteSet(Range(k))
    BY <1>2, <1>5, DistinctLength DEF Ordered
<1>7. IsFiniteSet(R) /\ Cardinality(R) = Cardinality(D) - Len(k) /\ R \in SUBSET Nat
  <2>1. D \cap Range(k) = Range(k)
      BY <1>5
  <2>2. IsFiniteSet(D \ Range(k)) /\ Cardinality(D \ Range(k)) = Cardinality(D) - Cardinality(D \cap Range(k))
      BY <1>4, FS_Difference
  <2>3. QED
      BY <1>4, <1>6, <2>1, <2>2
<1>8. a \in Seq(R) /\ Len(a) = Cardinality(R) /\ Elems(a) = R
  <2> HIDE DEF R
  <2>1. QED
      BY <1>7, AscendingProperties
<1>9. a \in Seq(D)
  <2> HIDE DEF a
  <2>1. QED
      BY <1>8
<1> HIDE DEF a, D
<1>10. /\ order \in Seq(D) /\ Len(order) = Len(k) + Len(a)
       /\ \A i \in 1..Len(k) : order[i] = k[i]
       /\ \A i \in (Len(k) + 1)..(Len(k) + Len(a)) : order[i] = a[i - Len(k)]
       /\ Len(k) \in Nat /\ Len(a) \in Nat /\ DOMAIN order = 1..(Len(k) + Len(a))
    BY <1>5, <1>9
<1> HIDE DEF order
<1>11. Len(order) = Cardinality(D)
    BY <1>4, <1>7, <1>8, <1>10
<1>12. ASSUME NEW i \in (Len(k) + 1)..(Len(k) + Len(a)) PROVE order[i] \in R
  <2>1. i - Len(k) \in 1..Len(a)
      BY <1>10
  <2>2. a[i - Len(k)] \in R
      BY <1>8, <2>1 DEF Elems
  <2>3. QED
      BY <1>10, <2>2
<1>13. Range(order) = D
  <2>1. Range(order) \subseteq D
      BY <1>10, RangeElems
  <2>2. ASSUME NEW x \in Range(k) PROVE x \in Range(order)
    <3>1. PICK i \in 1..Len(k) : x = k[i]
        BY <1>5, <2>2 DEF Elems
    <3>2. i \in DOMAIN order /\ order[i] = x
        BY <1>10, <3>1
    <3>3. QED
        BY <3>2 DEF Range
  <2>3. ASSUME NEW x \in R PROVE x \in Range(order)
    <3>1. PICK i \in 1..Len(a) : x = a[i]
        BY <1>8, <2>3 DEF Elems
    <3>2. PICK j \in (Len(k) + 1)..(Len(k) + Len(a)) : j - Len(k) = i
      <4>1. i + Len(k) \in (Len(k) + 1)..(Len(k) + Len(a)) /\ (i + Len(k)) - Len(k) = i
          BY <1>10
      <4>2. QED
          BY <4>1
    <3>3. j \in DOMAIN order /\ order[j] = x
        BY <1>10, <3>1, <3>2
    <3>4. QED
        BY <3>3 DEF Range
  <2>4. QED
      BY <2>1, <2>2, <2>3
<1>14. ASSUME NEW i \in DOMAIN order, NEW t \in s[order[i]] \ {order[i]}
       PROVE  BehindCycle(s, order[i]) \/ \E j \in 1..(i - 1) : order[j] = t
  <2>1. CASE i \in 1..Len(k)
    <3>1. order[i] = k[i] /\ t \in Targets(s, k[i])
        BY <1>10, <1>14, <2>1 DEF Targets
    <3>2. PICK j \in 1..(i - 1) : k[j] = t
        BY <1>2, <2>1, <3>1 DEF Ordered
    <3>3. j \in 1..Len(k)
        BY <1>10, <2>1
    <3>4. QED
        BY <1>10, <3>2, <3>3
  <2>2. CASE i \in (Len(k) + 1)..(Len(k) + Len(a))
    <3>1. order[i] \in DOMAIN s \ Range(k)
        BY <1>12, <2>2 DEF D
    <3>2. QED
        BY <1>2, <3>1, LeftOverIsCyclic
  <2>3. QED
      BY <1>10, <2>1, <2>2
<1>15. QED
    BY <1>3, <1>11, <1>13, <1>14 DEF SortedTargetsFirst, D
-----------------------------------------------------------------------------
(***************************************************************************)
(* The values of what "lazuli migrate" works on, and of a run: one with    *)
(* work to do has a plan, of files it found.                               *)
(***************************************************************************)
TablesOK == \E R : tables \in [Resources -> [exists : BOOLEAN, refs : R, cols : SUBSET Versions]]

RunOK(run) ==
    /\ run \in RunType
    /\ run.pc \in {"script", "ledger"} => run.todo # <<>>
    /\ run.pc = "idle" => run = IdleRun
    /\ Elems(run.todo) \subseteq run.files

RunsOK ==
    /\ manual \subseteq Versions
    /\ ledger \subseteq Versions
    /\ TablesOK
    /\ runs \in [Runners -> RunType]
    /\ \A i \in Runners : RunOK(runs[i])

\* Between script and ledger the column is as the script left it, or torn.
MatchInv ==
    \A i \in Runners : runs[i].pc = "ledger" =>
        \/ HasColumn(Head(runs[i].todo)) <=> runs[i].op = "up"
        \/ Head(runs[i].todo) \in torn

HonestInv == LedgerHonest /\ MatchInv

\* What may be below a version that is still to be applied: what is applied, or
\* late, or in the plan; and above one that is to be taken back: the plan.
UpPlan(todo, files, accounted) ==
    /\ Increasing(todo)
    /\ \A v \in Elems(todo) : \A u \in files : u < v => u \in accounted \cup Elems(todo)

DownPlan(todo, applied) ==
    /\ Decreasing(todo)
    /\ \A v \in Elems(todo) : \A w \in applied : w > v => w \in Elems(todo)

\* A file below one that a run found is one it found, or late.
FilesInv ==
    \A i \in Runners : \A v \in runs[i].files : \A u \in manual :
        u < v => u \in runs[i].files \cup late

\* Without an overlap there is one run, and its plan leaves no gap.
PlanInv ==
    ~overlapped =>
        /\ \A i, j \in Runners : Active(i) /\ Active(j) => i = j
        /\ \A i \in Runners : runs[i].pc \in {"script", "ledger"} =>
               IF runs[i].op = "up" THEN UpPlan(runs[i].todo, manual, ledger \cup late)
               ELSE DownPlan(runs[i].todo, ledger)

GapInv == NoGaps /\ FilesInv /\ PlanInv
-----------------------------------------------------------------------------
LEMMA HeadTail ==
    ASSUME NEW s \in Seq(Versions), s # <<>>
    PROVE  /\ Head(s) \in Versions /\ Head(s) \in Elems(s)
           /\ Tail(s) \in Seq(Versions) /\ (Len(s) # 1 => Tail(s) # <<>>)
           /\ Elems(s) = {Head(s)} \cup Elems(Tail(s))
           /\ Len(s) = 1 => Elems(s) = {Head(s)}
           /\ Increasing(s) => Increasing(Tail(s)) /\ \A v \in Elems(Tail(s)) : Head(s) < v
           /\ Decreasing(s) => Decreasing(Tail(s)) /\ \A v \in Elems(Tail(s)) : Head(s) > v
<1> DEFINE n == Len(s)
           t == Tail(s)
<1>1. /\ n \in Nat \ {0} /\ Head(s) = s[1] /\ t \in Seq(Versions) /\ Len(t) = n - 1
      /\ \A k \in 1..(n - 1) : t[k] = s[k + 1]
      /\ \A k \in 1..n : s[k] \in Versions
  <2>1. n \in Nat \ {0} /\ Head(s) = s[1] /\ \A k \in 1..n : s[k] \in Versions
      OBVIOUS
  <2>2. t \in Seq(Versions) /\ Len(t) = n - 1
      OBVIOUS
  <2>3. \A k \in 1..(n - 1) : t[k] = s[k + 1]
      OBVIOUS
  <2>4. QED
      BY <2>1, <2>2, <2>3
<1> HIDE DEF n, t
<1>2. \A k \in 1..(n - 1) : k + 1 \in 1..n
    BY <1>1
<1>3. \A k \in 1..n : k = 1 \/ (k - 1 \in 1..(n - 1) /\ t[k - 1] = s[k])
  <2> SUFFICES ASSUME NEW k \in 1..n, k # 1
               PROVE  k - 1 \in 1..(n - 1) /\ t[k - 1] = s[k]
      OBVIOUS
  <2>1. k - 1 \in 1..(n - 1) /\ (k - 1) + 1 = k
      BY <1>1
  <2>2. QED
      BY <1>1, <2>1
<1>4. 1 \in 1..n
    BY <1>1
<1>5. Elems(s) = {s[1]} \cup Elems(t)
  <2>1. ASSUME NEW v \in Elems(s) PROVE v \in {s[1]} \cup Elems(t)
    <3>1. PICK k \in 1..n : v = s[k]
        BY DEF Elems, n
    <3>2. k = 1 \/ (k - 1 \in 1..Len(t) /\ t[k - 1] = s[k])
        BY <1>1, <1>3
    <3>3. QED
        BY <3>1, <3>2 DEF Elems
  <2>2. ASSUME NEW v \in Elems(t) PROVE v \in Elems(s)
    <3>1. PICK k \in 1..(n - 1) : v = t[k]
        BY <1>1 DEF Elems
    <3>2. k + 1 \in 1..Len(s) /\ v = s[k + 1]
        BY <1>1, <1>2, <3>1 DEF n
    <3>3. QED
        BY <3>2 DEF Elems
  <2>3. s[1] \in Elems(s)
      BY <1>4 DEF Elems, n
  <2>4. QED
      BY <2>1, <2>2, <2>3
<1>6. n = 1 => Elems(t) = {}
    BY <1>1 DEF Elems
<1>7. ASSUME Increasing(s)
      PROVE  Increasing(t) /\ \A v \in Elems(t) : s[1] < v
  <2>1. \A j, k \in 1..n : j < k => s[j] < s[k]
      BY <1>7 DEF Increasing, n
  <2>2. \A j, k \in 1..(n - 1) : j < k => t[j] < t[k]
    <3> SUFFICES ASSUME NEW j \in 1..(n - 1), NEW k \in 1..(n - 1), j < k PROVE t[j] < t[k]
        OBVIOUS
    <3>1. j + 1 < k + 1
        BY <1>1
    <3>2. QED
        BY <1>1, <1>2, <2>1, <3>1
  <2>3. \A k \in 1..(n - 1) : s[1] < t[k]
    <3> SUFFICES ASSUME NEW k \in 1..(n - 1) PROVE s[1] < t[k]
        OBVIOUS
    <3>1. 1 < k + 1
        BY <1>1
    <3>2. QED
        BY <1>1, <1>2, <1>4, <2>1, <3>1
  <2>4. QED
      BY <1>1, <2>2, <2>3 DEF Increasing, Elems
<1>8. ASSUME Decreasing(s)
      PROVE  Decreasing(t) /\ \A v \in Elems(t) : s[1] > v
  <2>1. \A j, k \in 1..n : j < k => s[j] > s[k]
      BY <1>8 DEF Decreasing, n
  <2>2. \A j, k \in 1..(n - 1) : j < k => t[j] > t[k]
    <3> SUFFICES ASSUME NEW j \in 1..(n - 1), NEW k \in 1..(n - 1), j < k PROVE t[j] > t[k]
        OBVIOUS
    <3>1. j + 1 < k + 1
        BY <1>1
    <3>2. QED
        BY <1>1, <1>2, <2>1, <3>1
  <2>3. \A k \in 1..(n - 1) : s[1] > t[k]
    <3> SUFFICES ASSUME NEW k \in 1..(n - 1) PROVE s[1] > t[k]
        OBVIOUS
    <3>1. 1 < k + 1
        BY <1>1
    <3>2. QED
        BY <1>1, <1>2, <1>4, <2>1, <3>1
  <2>4. QED
      BY <1>1, <2>2, <2>3 DEF Decreasing, Elems
<1>9. n # 1 => t # <<>>
    BY <1>1
<1>10. s[1] \in Versions
    BY <1>1, <1>4
<1>11. QED
    BY <1>1, <1>5, <1>6, <1>7, <1>8, <1>9, <1>10 DEF n, t

LEMMA IdleRunOK == RunOK(IdleRun) /\ IdleRun.pc = "idle" /\ IdleRun.files = {}
<1>1. Cardinality(Versions) \in Nat
    BY MigrationsAssumption, FS_CardinalityType
<1>2. IdleRun \in RunType
    BY <1>1 DEF IdleRun, RunType
<1>3. Elems(IdleRun.todo) = {}
    BY DEF IdleRun, Elems
<1>4. QED
    BY <1>2, <1>3 DEF RunOK, IdleRun

LEMMA TodoElems ==
    ASSUME RunsOK, NEW i \in Runners
    PROVE  Todo(i) = Elems(runs[i].todo)
<1>1. runs[i].todo \in Seq(Versions)
    BY DEF RunsOK, RunType
<1>2. QED
    BY <1>1 DEF Todo, Elems, Range

(***************************************************************************)
(* Next: what leaves the ledger, its tables and its runs alone, and the    *)
(* rest.                                                                   *)
(***************************************************************************)
Aside == UNCHANGED <<manual, tables, ledger, runs, torn, late, overlapped>>

LEMMA NextIsAction ==
    ASSUME [Next]_vars
    PROVE  \/ Aside
           \/ DeployFile
           \/ \E v \in Versions : EditManual(v)
           \/ \E i \in Runners :
                \/ \E op \in {"up", "down"}, arg \in Versions \cup (0..Cardinality(Versions)) :
                       Start(i, op, arg)
                \/ ReadLedger(i) \/ RunScript(i) \/ WriteLedger(i) \/ RunCrash(i)
<1>1. ASSUME UNCHANGED vars PROVE Aside
    BY <1>1 DEF vars, authored, database, history, Aside
<1>2. ASSUME EditSchema PROVE Aside
    BY <1>2 DEF EditSchema, Author, database, Aside
<1>3. ASSUME Generator PROVE Aside
    BY <1>3 DEF Generator, GenerateClean, GenerateWrite, GenerateDone, GenerateCrash,
                authored, database, history, Aside
<1>4. ASSUME Deployer PROVE Aside \/ DeployFile
    BY <1>4 DEF Deployer, DeployStart, DeployDone, DeployCrash, authored, database,
                history, Aside
<1>5. ASSUME NEW i \in Runners, Run(i)
      PROVE  \/ \E op \in {"up", "down"}, arg \in Versions \cup (0..Cardinality(Versions)) :
                    Start(i, op, arg)
             \/ ReadLedger(i) \/ RunScript(i) \/ WriteLedger(i) \/ RunCrash(i)
  <2>1. Cardinality(Versions) \in Nat
      BY MigrationsAssumption, FS_CardinalityType
  <2>2. ASSUME NEW v \in Versions \cup {0}
        PROVE  v \in Versions \cup (0..Cardinality(Versions))
      BY <2>1
  <2>3. ASSUME NEW n \in 1..Cardinality(Versions)
        PROVE  n \in Versions \cup (0..Cardinality(Versions))
      BY <2>1
  <2>4. QED
      BY <1>5, <2>2, <2>3 DEF Run
<1>6. QED
    BY <1>1, <1>2, <1>3, <1>4, <1>5 DEF Next

LEMMA ContinueOK ==
    ASSUME RunsOK, NEW i \in Runners, NEW run, RunOK(run), Continue(i, run)
    PROVE  /\ runs' \in [Runners -> RunType]
           /\ \A j \in Runners : RunOK(runs'[j])
           /\ runs'[i] = run
           /\ \A j \in Runners \ {i} : runs'[j] = runs[j]
<1>1. /\ runs \in [Runners -> RunType] /\ run \in RunType
      /\ runs' = [runs EXCEPT ![i] = run] /\ \A j \in Runners : RunOK(runs[j])
    BY DEF RunsOK, RunOK, Continue
<1> HIDE DEF RunType
<1>2. runs' \in [Runners -> RunType] /\ runs'[i] = run /\ \A j \in Runners \ {i} : runs'[j] = runs[j]
    BY <1>1
<1>3. QED
    BY <1>1, <1>2

LEMMA RunParts ==
    ASSUME RunsOK, NEW i \in Runners
    PROVE  LET run == runs[i] IN
           /\ run \in RunType /\ run.op \in {"up", "down"}
           /\ run.arg \in Nat /\ run.files \in SUBSET Versions
           /\ run.todo \in Seq(Versions)
           /\ run.pc \in {"script", "ledger"} =>
                 /\ run.todo # <<>> /\ Head(run.todo) \in Versions
                 /\ Head(run.todo) \in Todo(i)
<1>1. runs[i] \in RunType /\ RunOK(runs[i])
    BY DEF RunsOK
<1>2. Cardinality(Versions) \in Nat /\ Versions \subseteq Nat
    BY MigrationsAssumption, FS_CardinalityType
<1>3. /\ runs[i].op \in {"up", "down"} /\ runs[i].arg \in Nat
      /\ runs[i].files \in SUBSET Versions /\ runs[i].todo \in Seq(Versions)
  <2>1. /\ runs[i].op \in {"up", "down"}
        /\ runs[i].arg \in Versions \cup (0..Cardinality(Versions))
        /\ runs[i].files \in SUBSET Versions /\ runs[i].todo \in Seq(Versions)
      BY <1>1 DEF RunType
  <2>2. ASSUME NEW a \in Versions \cup (0..Cardinality(Versions)) PROVE a \in Nat
      BY <1>2
  <2>3. QED
      BY <2>1, <2>2
<1>4. ASSUME runs[i].pc \in {"script", "ledger"}
      PROVE  /\ runs[i].todo # <<>> /\ Head(runs[i].todo) \in Versions
             /\ Head(runs[i].todo) \in Todo(i)
  <2>1. runs[i].todo # <<>>
      BY <1>1, <1>4 DEF RunOK
  <2>2. QED
      BY <1>3, <2>1, HeadTail, TodoElems
<1>5. QED
    BY <1>1, <1>3, <1>4

(***************************************************************************)
(* What a run has planned when it has read the ledger.                     *)
(***************************************************************************)
LEMMA ReadLedgerEffect ==
    ASSUME RunsOK, NEW i \in Runners, ReadLedger(i)
    PROVE  \E run :
             /\ RunOK(run) /\ Continue(i, run)
             /\ \/ run = IdleRun
                \/ /\ run.pc = "script" /\ run.op = runs[i].op /\ run.files = runs[i].files
                   /\ runs[i].op = "up" => /\ Increasing(run.todo)
                                           /\ Elems(run.todo) = PendingUp(runs[i])
                   /\ runs[i].op # "up" => /\ Decreasing(run.todo)
                                           /\ \A v \in Elems(run.todo) : \A w \in ledger :
                                                  w > v => w \in Elems(run.todo)
<1> DEFINE todo == IF runs[i].op = "up" THEN Ascending(PendingUp(runs[i]))
                   ELSE LastApplied(runs[i].arg)
           new == [runs[i] EXCEPT !.pc = "script", !.todo = todo]
<1>1. \/ todo # <<>> /\ Range(todo) \subseteq runs[i].files /\ Continue(i, new)
      \/ Continue(i, IdleRun)
    BY DEF ReadLedger
<1>2. CASE Continue(i, IdleRun)
    BY <1>2, IdleRunOK
<1>3. CASE todo # <<>> /\ Range(todo) \subseteq runs[i].files /\ Continue(i, new)
  <2>1. ledger \in SUBSET Versions
      BY DEF RunsOK
  <2>2. ASSUME runs[i].op = "up"
        PROVE  /\ todo \in Seq(Versions) /\ Increasing(todo)
               /\ Elems(todo) = PendingUp(runs[i])
    <3> DEFINE S == PendingUp(runs[i])
    <3>1. S \in SUBSET Versions
        BY RunParts DEF PendingUp
    <3>2. S \in SUBSET Nat /\ IsFiniteSet(S)
        BY <3>1, MigrationsAssumption, FS_Subset
    <3> HIDE DEF S
    <3>3. /\ Ascending(S) \in Seq(S) /\ Increasing(Ascending(S)) /\ Elems(Ascending(S)) = S
        BY <3>2, AscendingProperties
    <3>4. Ascending(S) \in Seq(Versions)
        BY <3>1, <3>3
    <3>5. QED
        BY <2>2, <3>3, <3>4 DEF S
  <2>3. ASSUME runs[i].op # "up"
        PROVE  /\ todo \in Seq(Versions) /\ Decreasing(todo)
               /\ \A v \in Elems(todo) : \A w \in ledger : w > v => w \in Elems(todo)
      BY <2>1, <2>3, LastAppliedProperties, RunParts
  <2>4. todo \in Seq(Versions)
      BY <2>2, <2>3
  <2> HIDE DEF todo
  <2>5. /\ new \in RunType /\ new.pc = "script" /\ new.todo = todo
        /\ new.op = runs[i].op /\ new.files = runs[i].files
      BY <2>4, RunParts DEF RunType
  <2>6. Elems(todo) \subseteq runs[i].files
      BY <1>3, <2>4 DEF Elems, Range
  <2> HIDE DEF new
  <2>7. RunOK(new)
      BY <1>3, <2>5, <2>6 DEF RunOK
  <2>8. QED
      BY <1>3, <2>2, <2>3, <2>5, <2>7
<1>4. QED
    BY <1>1, <1>2, <1>3

(***************************************************************************)
(* What a script and db:migrate do to the columns.                         *)
(***************************************************************************)
ColumnIn(t, v) == v \in t[TableOf[v]].cols

LEMMA AlteredEffect ==
    ASSUME TablesOK, NEW v \in Versions, NEW op \in {"up", "down"}, tables' = Altered(op, v)
    PROVE  /\ TablesOK'
           /\ ColumnIn(tables', v) <=> op = "up"
           /\ \A w \in Versions \ {v} : ColumnIn(tables', w) <=> ColumnIn(tables, w)
<1>1. PICK R : tables \in [Resources -> [exists : BOOLEAN, refs : R, cols : SUBSET Versions]]
    BY DEF TablesOK
<1>2. \A w \in Versions : TableOf[w] \in Resources
    BY MigrationsAssumption
<1> DEFINE r == TableOf[v]
           cols == IF op = "up" THEN tables[r].cols \cup {v} ELSE tables[r].cols \ {v}
<1>3. tables' = [tables EXCEPT ![r].cols = cols]
    BY DEF Altered
<1>4. cols \in SUBSET Versions /\ r \in Resources
    BY <1>1, <1>2
<1>5. tables' \in [Resources -> [exists : BOOLEAN, refs : R, cols : SUBSET Versions]]
  <2> HIDE DEF cols, r
  <2>1. QED
      BY <1>1, <1>3, <1>4
<1>6. tables'[r].cols = cols /\ \A q \in Resources \ {r} : tables'[q] = tables[q]
  <2> HIDE DEF cols, r
  <2>1. QED
      BY <1>1, <1>3, <1>4
<1>7. QED
    BY <1>2, <1>4, <1>5, <1>6 DEF ColumnIn, TablesOK

LEMMA DeployEffect ==
    ASSUME TablesOK, DeployFile
    PROVE  /\ TablesOK' /\ torn \subseteq torn'
           /\ UNCHANGED <<manual, ledger, runs, late, overlapped>>
           /\ \A v \in Versions : /\ ColumnIn(tables', v) => ColumnIn(tables, v)
                                  /\ ColumnIn(tables, v) => ColumnIn(tables', v) \/ v \in torn'
<1>1. PICK R : tables \in [Resources -> [exists : BOOLEAN, refs : R, cols : SUBSET Versions]]
    BY DEF TablesOK
<1>2. \A w \in Versions : TableOf[w] \in Resources
    BY MigrationsAssumption
<1>3. UNCHANGED <<manual, ledger, runs, late, overlapped>>
    BY DEF DeployFile, authored
<1>4. CASE UNCHANGED <<tables, torn>>
    BY <1>3, <1>4 DEF TablesOK, HasColumn, ColumnIn
<1>5. ASSUME NEW f, f.down => DropTable(f), ~f.down => CreateTable(f),
             torn' = torn \cup (tables[f.res].cols \ tables'[f.res].cols)
      PROVE  /\ TablesOK' /\ torn \subseteq torn'
             /\ \A v \in Versions : /\ ColumnIn(tables', v) => ColumnIn(tables, v)
                                    /\ ColumnIn(tables, v) => ColumnIn(tables', v) \/ v \in torn'
  <2>1. PICK t \in {NoTable, [exists |-> TRUE, refs |-> f.refs, cols |-> {}]} :
            UNCHANGED tables \/ tables' = [tables EXCEPT ![f.res] = t]
      BY <1>5 DEF DropTable, CreateTable
  <2>2. CASE UNCHANGED tables
      BY <1>1, <1>5, <2>2 DEF TablesOK, HasColumn, ColumnIn
  <2>3. CASE tables' = [tables EXCEPT ![f.res] = t]
    <3> DEFINE R2 == R \cup {{}, f.refs}
               T == [exists : BOOLEAN, refs : R2, cols : SUBSET Versions]
    <3>1. t \in T /\ t.cols = {}
      <4>1. {} \in R2 /\ f.refs \in R2
          OBVIOUS
      <4> HIDE DEF R2
      <4>2. NoTable \in T /\ NoTable.cols = {}
          BY <4>1 DEF NoTable
      <4>3. [exists |-> TRUE, refs |-> f.refs, cols |-> {}] \in T
          BY <4>1
      <4>4. t = NoTable \/ t = [exists |-> TRUE, refs |-> f.refs, cols |-> {}]
          BY <2>1
      <4>5. t.cols = {}
          BY <4>2, <4>4
      <4>6. t \in T
        <5> HIDE DEF T
        <5>1. QED
            BY <4>2, <4>3, <4>4
      <4>7. QED
          BY <4>5, <4>6
    <3>2. tables \in [Resources -> T]
        BY <1>1
    <3>3. tables' \in [Resources -> T]
      <4> HIDE DEF T
      <4>1. QED
          BY <2>3, <3>1, <3>2
    <3>4. \A r \in Resources : tables'[r] = IF r = f.res THEN t ELSE tables[r]
      <4> HIDE DEF T
      <4>1. QED
          BY <2>3, <3>2
    <3>5. TablesOK'
        BY <3>3 DEF TablesOK
    <3>6. QED
      <4>1. ASSUME NEW v \in Versions PROVE ColumnIn(tables', v) => ColumnIn(tables, v)
          BY <1>2, <3>1, <3>4 DEF ColumnIn
      <4>2. ASSUME NEW v \in Versions, ColumnIn(tables, v), ~ColumnIn(tables', v) PROVE v \in torn'
          BY <1>2, <1>5, <3>1, <3>4, <4>2 DEF ColumnIn
      <4>3. QED
          BY <1>5, <3>5, <4>1, <4>2
  <2>4. QED
      BY <2>1, <2>2, <2>3
<1>6. QED
  <2>1. \/ UNCHANGED <<tables, torn>>
        \/ \E f : /\ f.down => DropTable(f)
                  /\ ~f.down => CreateTable(f)
                  /\ torn' = torn \cup (tables[f.res].cols \ tables'[f.res].cols)
      BY DEF DeployFile
  <2>2. QED
      BY <1>3, <1>4, <1>5, <2>1

(***************************************************************************)
(* The runs that the actions of a run continue with.                       *)
(***************************************************************************)
Started(op, arg) == [IdleRun EXCEPT !.pc = "read", !.op = op, !.arg = arg, !.files = manual]
Scripted(i) == [runs[i] EXCEPT !.pc = "ledger"]
Advanced(i) == IF Len(runs[i].todo) = 1 THEN IdleRun
               ELSE [runs[i] EXCEPT !.pc = "script", !.todo = Tail(@)]

LEMMA StartedOK ==
    ASSUME RunsOK, NEW op \in {"up", "down"},
           NEW arg \in Versions \cup (0..Cardinality(Versions))
    PROVE  /\ RunOK(Started(op, arg)) /\ Started(op, arg).pc = "read"
           /\ Started(op, arg).files = manual
<1>1. manual \in SUBSET Versions
    BY DEF RunsOK
<1>2. IdleRun \in RunType /\ IdleRun.todo = <<>>
    BY IdleRunOK DEF RunOK, IdleRun
<1>3. /\ Started(op, arg) \in RunType /\ Started(op, arg).pc = "read"
      /\ Started(op, arg).files = manual /\ Started(op, arg).todo = <<>>
  <2> DEFINE Args == Versions \cup (0..Cardinality(Versions))
  <2>1. arg \in Args /\ RunType = [pc : {"idle", "read", "script", "ledger"}, op : {"up", "down"},
                                  arg : Args, files : SUBSET Versions, todo : Seq(Versions)]
      BY DEF RunType
  <2> HIDE DEF Args
  <2>2. QED
      BY <1>1, <1>2, <2>1 DEF Started
<1>4. Elems(<<>>) = {}
    BY DEF Elems
<1>5. QED
    BY <1>3, <1>4 DEF RunOK

LEMMA ScriptedOK ==
    ASSUME RunsOK, NEW i \in Runners, runs[i].pc = "script"
    PROVE  /\ RunOK(Scripted(i)) /\ Scripted(i).pc = "ledger"
           /\ Scripted(i).op = runs[i].op /\ Scripted(i).todo = runs[i].todo
           /\ Scripted(i).files = runs[i].files
<1>1. runs[i] \in RunType /\ RunOK(runs[i])
    BY DEF RunsOK
<1>2. /\ Scripted(i) \in RunType /\ Scripted(i).pc = "ledger"
      /\ Scripted(i).op = runs[i].op /\ Scripted(i).todo = runs[i].todo
      /\ Scripted(i).files = runs[i].files
    BY <1>1 DEF Scripted, RunType
<1>3. QED
    BY <1>1, <1>2 DEF RunOK

LEMMA AdvancedOK ==
    ASSUME RunsOK, NEW i \in Runners, runs[i].pc = "ledger"
    PROVE  /\ RunOK(Advanced(i))
           /\ \/ Advanced(i) = IdleRun
              \/ /\ Advanced(i).pc = "script" /\ Advanced(i).op = runs[i].op
                 /\ Advanced(i).todo = Tail(runs[i].todo)
                 /\ Advanced(i).files = runs[i].files
<1>1. CASE Len(runs[i].todo) = 1
    BY <1>1, IdleRunOK DEF Advanced
<1>2. CASE Len(runs[i].todo) # 1
  <2> DEFINE s == runs[i].todo
  <2>1. runs[i] \in RunType /\ RunOK(runs[i]) /\ s \in Seq(Versions) /\ s # <<>>
      BY RunParts DEF RunsOK
  <2>2. /\ Tail(s) \in Seq(Versions) /\ Tail(s) # <<>>
        /\ Elems(Tail(s)) \subseteq Elems(s)
      BY <1>2, <2>1, HeadTail
  <2>3. Advanced(i) = [runs[i] EXCEPT !.pc = "script", !.todo = Tail(s)]
      BY <1>2 DEF Advanced
  <2> HIDE DEF s
  <2>4. /\ Advanced(i) \in RunType /\ Advanced(i).pc = "script"
        /\ Advanced(i).op = runs[i].op /\ Advanced(i).todo = Tail(s)
        /\ Advanced(i).files = runs[i].files
      BY <2>1, <2>2, <2>3 DEF RunType
  <2>5. Elems(s) \subseteq runs[i].files
      BY <2>1 DEF RunOK, s
  <2>6. RunOK(Advanced(i))
      BY <2>2, <2>4, <2>5 DEF RunOK
  <2>7. QED
      BY <2>4, <2>6 DEF s
<1>3. QED
    BY <1>1, <1>2

(***************************************************************************)
(* One action of a run, as its effect.                                     *)
(***************************************************************************)
LEMMA StartEffect ==
    ASSUME NEW i \in Runners, NEW op, NEW arg, Start(i, op, arg)
    PROVE  /\ Continue(i, Started(op, arg)) /\ ~Active(i)
           /\ overlapped' = (overlapped \/ \E j \in Runners : Active(j))
           /\ UNCHANGED <<manual, tables, ledger, torn, late>>
    BY DEF Start, Started, authored, database

LEMMA ScriptEffect ==
    ASSUME NEW i \in Runners, RunScript(i)
    PROVE  LET v == Head(runs[i].todo) IN
           /\ runs[i].pc = "script"
           /\ UNCHANGED <<manual, ledger, late, overlapped>>
           /\ \/ Continue(i, IdleRun) /\ UNCHANGED <<tables, torn>>
              \/ /\ Continue(i, Scripted(i)) /\ tables' = Altered(runs[i].op, v)
                 /\ torn' = IF Contended(i, v) THEN torn \cup {v} ELSE torn \ {v}
              \/ /\ Continue(i, IdleRun) /\ tables' = Altered(runs[i].op, v)
                 /\ torn' = torn \cup {v}
    BY DEF RunScript, Scripted, authored

LEMMA WriteEffect ==
    ASSUME NEW i \in Runners, WriteLedger(i)
    PROVE  LET v == Head(runs[i].todo) IN
           /\ runs[i].pc = "ledger" /\ Continue(i, Advanced(i))
           /\ ledger' = IF runs[i].op = "up" THEN ledger \cup {v} ELSE ledger \ {v}
           /\ torn' = IF Contended(i, v) THEN torn \cup {v} ELSE torn
           /\ UNCHANGED <<manual, tables, late, overlapped>>
    BY DEF WriteLedger, Advanced, authored

LEMMA CrashEffect ==
    ASSUME NEW i \in Runners, RunCrash(i)
    PROVE  /\ runs[i].pc \in {"script", "ledger"} /\ Continue(i, IdleRun)
           /\ torn' = IF runs[i].pc = "ledger" THEN torn \cup {Head(runs[i].todo)} ELSE torn
           /\ UNCHANGED <<manual, tables, ledger, late, overlapped>>
    BY DEF RunCrash, authored, database

LEMMA StepRunsOK ==
    ASSUME RunsOK, [Next]_vars
    PROVE  RunsOK'
<1> HIDE DEF RunType
<1>1. ASSUME UNCHANGED <<manual, tables, ledger, runs>> PROVE RunsOK'
    BY <1>1 DEF RunsOK, TablesOK
<1>2. CASE Aside
    BY <1>1, <1>2 DEF Aside
<1>3. CASE DeployFile
    BY <1>3, DeployEffect DEF RunsOK
<1>4. ASSUME NEW v \in Versions, EditManual(v) PROVE RunsOK'
  <2>1. UNCHANGED <<tables, ledger, runs>> /\ manual' \subseteq manual \cup {v}
      BY <1>4 DEF EditManual, Author, database
  <2>2. QED
      BY <2>1 DEF RunsOK, TablesOK
<1>5. ASSUME NEW i \in Runners, NEW run, RunOK(run), Continue(i, run), TablesOK',
             ledger' \subseteq Versions, UNCHANGED manual
      PROVE  RunsOK'
  <2>1. runs' \in [Runners -> RunType] /\ \A j \in Runners : RunOK(runs'[j])
      BY <1>5, ContinueOK
  <2>2. QED
      BY <1>5, <2>1 DEF RunsOK
<1>6. TablesOK /\ ledger \subseteq Versions
    BY DEF RunsOK
<1>7. ASSUME NEW i \in Runners, NEW op \in {"up", "down"},
             NEW arg \in Versions \cup (0..Cardinality(Versions)), Start(i, op, arg)
      PROVE  RunsOK'
  <2>1. TablesOK' /\ UNCHANGED <<manual, ledger>>
      BY <1>6, <1>7, StartEffect DEF TablesOK
  <2>2. QED
      BY <1>5, <1>6, <1>7, <2>1, StartEffect, StartedOK
<1>8. ASSUME NEW i \in Runners, ReadLedger(i) PROVE RunsOK'
  <2>1. TablesOK' /\ UNCHANGED <<manual, ledger>>
      BY <1>6, <1>8 DEF ReadLedger, authored, database, TablesOK
  <2>2. QED
      BY <1>5, <1>6, <1>8, <2>1, ReadLedgerEffect
<1>9. ASSUME NEW i \in Runners, RunScript(i) PROVE RunsOK'
  <2>1. UNCHANGED <<manual, ledger>> /\ runs[i].pc = "script"
      BY <1>9, ScriptEffect
  <2>2. Head(runs[i].todo) \in Versions /\ runs[i].op \in {"up", "down"}
      BY <2>1, RunParts
  <2>3. TablesOK'
    <3>1. CASE UNCHANGED tables
        BY <1>6, <3>1 DEF TablesOK
    <3>2. CASE tables' = Altered(runs[i].op, Head(runs[i].todo))
        BY <1>6, <2>2, <3>2, AlteredEffect
    <3>3. QED
        BY <1>9, <3>1, <3>2, ScriptEffect
  <2>4. QED
      BY <1>5, <1>6, <1>9, <2>1, <2>3, ScriptEffect, ScriptedOK, IdleRunOK
<1>10. ASSUME NEW i \in Runners, WriteLedger(i) PROVE RunsOK'
  <2>1. UNCHANGED <<manual, tables>> /\ runs[i].pc = "ledger"
      BY <1>10, WriteEffect
  <2>2. Head(runs[i].todo) \in Versions
      BY <2>1, RunParts
  <2>3. ledger' \subseteq Versions /\ TablesOK'
      BY <1>6, <1>10, <2>1, <2>2, WriteEffect DEF TablesOK
  <2>4. QED
      BY <1>5, <1>10, <2>1, <2>3, WriteEffect, AdvancedOK
<1>11. ASSUME NEW i \in Runners, RunCrash(i) PROVE RunsOK'
  <2>1. TablesOK' /\ UNCHANGED <<manual, ledger>>
      BY <1>6, <1>11, CrashEffect DEF TablesOK
  <2>2. QED
      BY <1>5, <1>6, <1>11, <2>1, CrashEffect, IdleRunOK
<1>12. QED
    BY <1>2, <1>3, <1>4, <1>7, <1>8, <1>9, <1>10, <1>11, NextIsAction

LEMMA InitRunsOK == Init => RunsOK
<1> SUFFICES ASSUME Init PROVE RunsOK
    OBVIOUS
<1>1. manual \subseteq Versions /\ ledger = {} /\ runs = [i \in Runners |-> IdleRun]
    BY DEF Init
<1>2. IdleRun \in RunType /\ RunOK(IdleRun)
    BY IdleRunOK DEF RunOK
<1>3. runs \in [Runners -> RunType] /\ \A i \in Runners : RunOK(runs[i])
  <2> HIDE DEF RunType
  <2>1. QED
      BY <1>1, <1>2
<1>4. TablesOK
  <2> DEFINE R == {{}} \cup {schema[r] : r \in Resources}
             T == [exists : BOOLEAN, refs : R, cols : SUBSET Versions]
  <2>1. /\ NoTable \in T
        /\ \A r \in Resources : [exists |-> TRUE, refs |-> schema[r], cols |-> {}] \in T
      BY DEF NoTable
  <2>2. \A r \in Resources : tables[r] \in T
      BY <2>1 DEF Init
  <2>3. tables = [r \in Resources |-> tables[r]]
      BY DEF Init
  <2>4. tables \in [Resources -> T]
    <3> HIDE DEF T
    <3>1. QED
        BY <2>2, <2>3
  <2>5. QED
      BY <2>4 DEF TablesOK
<1>5. QED
    BY <1>1, <1>3, <1>4 DEF RunsOK

LEMMA RunsAlwaysOK == Spec => []RunsOK
<1>1. Init => RunsOK
    BY InitRunsOK
<1>2. RunsOK /\ [Next]_vars => RunsOK'
    BY StepRunsOK
<1>3. QED
    BY <1>1, <1>2, PTL DEF Spec
-----------------------------------------------------------------------------
(***************************************************************************)
(* LedgerHonest.  A run that is about to write its ledger row has to find  *)
(* the column as its script left it: that is MatchInv, and a second run    *)
(* that disturbs it is contended, so that torn remembers it.               *)
(***************************************************************************)
Between(v) == \E i \in Runners : runs[i].pc = "ledger" /\ Head(runs[i].todo) = v

\* The other runs, and what a step of run i must leave them.
LEMMA OthersBetween ==
    ASSUME RunsOK, NEW i \in Runners, NEW run, RunOK(run), Continue(i, run), NEW v,
           Between(v), runs[i].pc = "ledger" => Head(runs[i].todo) # v
    PROVE  Between(v)'
<1>1. PICK j \in Runners : runs[j].pc = "ledger" /\ Head(runs[j].todo) = v
    BY DEF Between
<1>2. j # i
    BY <1>1
<1>3. runs'[j] = runs[j]
    BY <1>2, ContinueOK
<1>4. QED
    BY <1>1, <1>3 DEF Between

\* A step of run i that is neither behind a script nor becomes so.
LEMMA ElsewhereHonest ==
    ASSUME RunsOK, HonestInv, NEW i \in Runners, NEW run, RunOK(run), Continue(i, run),
           run.pc # "ledger", runs[i].pc # "ledger", UNCHANGED <<tables, ledger, torn>>
    PROVE  HonestInv'
<1>1. runs'[i] = run /\ \A j \in Runners \ {i} : runs'[j] = runs[j]
    BY ContinueOK
<1>2. \A v \in Versions : ColumnIn(tables', v) <=> ColumnIn(tables, v)
    BY DEF ColumnIn
<1>3. LedgerHonest'
  <2> SUFFICES ASSUME NEW v \in Versions
               PROVE  (v \in ledger' <=> ColumnIn(tables', v)) \/ v \in torn' \/ Between(v)'
      BY DEF LedgerHonest, Between, HasColumn, ColumnIn
  <2>1. (v \in ledger <=> ColumnIn(tables, v)) \/ v \in torn \/ Between(v)
      BY DEF HonestInv, LedgerHonest, Between, HasColumn, ColumnIn
  <2>2. QED
      BY <1>2, <2>1, OthersBetween
<1>4. MatchInv'
  <2> SUFFICES ASSUME NEW j \in Runners, runs'[j].pc = "ledger"
               PROVE  \/ ColumnIn(tables', Head(runs'[j].todo)) <=> runs'[j].op = "up"
                      \/ Head(runs'[j].todo) \in torn'
      BY DEF MatchInv, HasColumn, ColumnIn
  <2>1. runs'[j] = runs[j]
      BY <1>1
  <2>2. Head(runs[j].todo) \in Versions
      BY <2>1, RunParts
  <2>3. \/ ColumnIn(tables, Head(runs[j].todo)) <=> runs[j].op = "up"
        \/ Head(runs[j].todo) \in torn
      BY <2>1 DEF HonestInv, MatchInv, HasColumn, ColumnIn
  <2>4. QED
      BY <2>1, <2>3 DEF ColumnIn
<1>5. QED
    BY <1>3, <1>4 DEF HonestInv

LEMMA DeployHonest ==
    ASSUME RunsOK, HonestInv, DeployFile
    PROVE  HonestInv'
<1>1. /\ torn \subseteq torn' /\ UNCHANGED <<ledger, runs>>
      /\ \A v \in Versions : /\ ColumnIn(tables', v) => ColumnIn(tables, v)
                             /\ ColumnIn(tables, v) => ColumnIn(tables', v) \/ v \in torn'
    BY DeployEffect DEF RunsOK
<1>2. LedgerHonest'
    BY <1>1 DEF HonestInv, LedgerHonest, HasColumn, ColumnIn
<1>3. MatchInv'
  <2> SUFFICES ASSUME NEW j \in Runners, runs[j].pc = "ledger"
               PROVE  \/ ColumnIn(tables', Head(runs[j].todo)) <=> runs[j].op = "up"
                      \/ Head(runs[j].todo) \in torn'
      BY <1>1 DEF MatchInv, HasColumn, ColumnIn
  <2>1. Head(runs[j].todo) \in Versions
      BY RunParts
  <2> DEFINE v == Head(runs[j].todo)
  <2>2. (ColumnIn(tables, v) <=> runs[j].op = "up") \/ v \in torn
      BY DEF HonestInv, MatchInv, HasColumn, ColumnIn
  <2>3. /\ ColumnIn(tables', v) => ColumnIn(tables, v)
        /\ ColumnIn(tables, v) => ColumnIn(tables', v) \/ Head(runs[j].todo) \in torn'
      BY <1>1, <2>1
  <2>4. QED
      BY <1>1, <2>2, <2>3
<1>4. QED
    BY <1>2, <1>3 DEF HonestInv

(***************************************************************************)
(* A script that goes through, and one that fails behind its first         *)
(* statement.                                                              *)
(***************************************************************************)
LEMMA ScriptHonest ==
    ASSUME RunsOK, HonestInv, NEW i \in Runners, NEW run, RunOK(run), Continue(i, run),
           runs[i].pc = "script", UNCHANGED ledger,
           tables' = Altered(runs[i].op, Head(runs[i].todo)),
           \/ /\ run = Scripted(i)
              /\ torn' = IF Contended(i, Head(runs[i].todo)) THEN torn \cup {Head(runs[i].todo)}
                         ELSE torn \ {Head(runs[i].todo)}
           \/ run = IdleRun /\ torn' = torn \cup {Head(runs[i].todo)}
    PROVE  HonestInv'
<1> DEFINE v == Head(runs[i].todo)
<1>1. runs'[i] = run /\ \A j \in Runners \ {i} : runs'[j] = runs[j]
    BY ContinueOK
<1>2. v \in Versions /\ runs[i].op \in {"up", "down"}
    BY RunParts
<1>3. /\ ColumnIn(tables', v) <=> runs[i].op = "up"
      /\ \A w \in Versions \ {v} : ColumnIn(tables', w) <=> ColumnIn(tables, w)
    BY <1>2, AlteredEffect DEF RunsOK
<1>4. \/ run.pc = "ledger" /\ run.op = runs[i].op /\ run.todo = runs[i].todo
      \/ run.pc = "idle" /\ v \in torn'
    BY ScriptedOK, IdleRunOK
<1>5. \A w : w # v => (w \in torn' <=> w \in torn)
    OBVIOUS
<1>6. LedgerHonest'
  <2> SUFFICES ASSUME NEW w \in Versions
               PROVE  (w \in ledger' <=> ColumnIn(tables', w)) \/ w \in torn' \/ Between(w)'
      BY DEF LedgerHonest, Between, HasColumn, ColumnIn
  <2>1. CASE w = v
      BY <1>1, <1>4, <2>1 DEF Between
  <2>2. CASE w # v
    <3>1. (w \in ledger <=> ColumnIn(tables, w)) \/ w \in torn \/ Between(w)
        BY DEF HonestInv, LedgerHonest, Between, HasColumn, ColumnIn
    <3>2. ColumnIn(tables', w) <=> ColumnIn(tables, w)
        BY <1>3, <2>2
    <3>3. QED
        BY <1>5, <2>2, <3>1, <3>2, OthersBetween
  <2>3. QED
      BY <2>1, <2>2
<1>7. MatchInv'
  <2> SUFFICES ASSUME NEW j \in Runners, runs'[j].pc = "ledger"
               PROVE  \/ ColumnIn(tables', Head(runs'[j].todo)) <=> runs'[j].op = "up"
                      \/ Head(runs'[j].todo) \in torn'
      BY DEF MatchInv, HasColumn, ColumnIn
  <2>1. CASE j = i
    <3>1. runs'[j].op = runs[i].op /\ Head(runs'[j].todo) = v
        BY <1>1, <1>4, <2>1
    <3>2. ColumnIn(tables', Head(runs'[j].todo)) <=> ColumnIn(tables', v)
        BY <3>1 DEF ColumnIn
    <3>3. QED
        BY <1>3, <3>1, <3>2
  <2>2. CASE j # i
    <3> DEFINE w == Head(runs[j].todo)
    <3>1. runs'[j] = runs[j]
        BY <1>1, <2>2
    <3>2. w \in Versions /\ w \in Todo(j)
        BY <3>1, RunParts
    <3>3. (ColumnIn(tables, w) <=> runs[j].op = "up") \/ w \in torn
        BY <3>1 DEF HonestInv, MatchInv, HasColumn, ColumnIn
    <3>4. CASE w = v
      <4>1. Contended(i, v)
          BY <2>2, <3>2, <3>4 DEF Contended
      <4>2. QED
          BY <3>1, <3>4, <4>1
    <3>5. CASE w # v
      <4>1. ColumnIn(tables', w) <=> ColumnIn(tables, w)
          BY <1>3, <3>2, <3>5
      <4>2. ColumnIn(tables', Head(runs'[j].todo)) <=> ColumnIn(tables', w)
          BY <3>1 DEF ColumnIn
      <4>3. QED
          BY <1>5, <3>1, <3>3, <3>5, <4>1, <4>2
    <3>6. QED
        BY <3>4, <3>5
  <2>3. QED
      BY <2>1, <2>2
<1>8. QED
    BY <1>6, <1>7 DEF HonestInv

(***************************************************************************)
(* The ledger row, and a crash in front of it.                             *)
(***************************************************************************)
LEMMA LedgerRowHonest ==
    ASSUME RunsOK, HonestInv, NEW i \in Runners, NEW run, RunOK(run), Continue(i, run),
           runs[i].pc = "ledger", run.pc # "ledger", UNCHANGED tables,
           \/ /\ ledger' = IF runs[i].op = "up" THEN ledger \cup {Head(runs[i].todo)}
                           ELSE ledger \ {Head(runs[i].todo)}
              /\ torn' = IF Contended(i, Head(runs[i].todo)) THEN torn \cup {Head(runs[i].todo)}
                         ELSE torn
           \/ UNCHANGED ledger /\ torn' = torn \cup {Head(runs[i].todo)}
    PROVE  HonestInv'
<1> DEFINE v == Head(runs[i].todo)
<1>1. runs'[i] = run /\ \A j \in Runners \ {i} : runs'[j] = runs[j]
    BY ContinueOK
<1>2. \A w \in Versions : ColumnIn(tables', w) <=> ColumnIn(tables, w)
    BY DEF ColumnIn
<1>3. torn \subseteq torn' /\ \A w : w # v => (w \in ledger' <=> w \in ledger)
    OBVIOUS
<1>4. (ColumnIn(tables, v) <=> runs[i].op = "up") \/ v \in torn
    BY DEF HonestInv, MatchInv, HasColumn, ColumnIn
<1>5. v \in Versions
    BY RunParts
<1>6. LedgerHonest'
  <2> SUFFICES ASSUME NEW w \in Versions
               PROVE  (w \in ledger' <=> ColumnIn(tables', w)) \/ w \in torn' \/ Between(w)'
      BY DEF LedgerHonest, Between, HasColumn, ColumnIn
  <2>1. CASE w = v
    <3>1. (v \in ledger' <=> runs[i].op = "up") \/ v \in torn'
        OBVIOUS
    <3>2. QED
        BY <1>2, <1>3, <1>4, <1>5, <2>1, <3>1
  <2>2. CASE w # v
    <3>1. (w \in ledger <=> ColumnIn(tables, w)) \/ w \in torn \/ Between(w)
        BY DEF HonestInv, LedgerHonest, Between, HasColumn, ColumnIn
    <3>2. QED
        BY <1>2, <1>3, <2>2, <3>1, OthersBetween
  <2>3. QED
      BY <2>1, <2>2
<1>7. MatchInv'
  <2> SUFFICES ASSUME NEW j \in Runners, runs'[j].pc = "ledger"
               PROVE  \/ ColumnIn(tables', Head(runs'[j].todo)) <=> runs'[j].op = "up"
                      \/ Head(runs'[j].todo) \in torn'
      BY DEF MatchInv, HasColumn, ColumnIn
  <2>1. runs'[j] = runs[j]
      BY <1>1
  <2>2. \/ ColumnIn(tables, Head(runs[j].todo)) <=> runs[j].op = "up"
        \/ Head(runs[j].todo) \in torn
      BY <2>1 DEF HonestInv, MatchInv, HasColumn, ColumnIn
  <2>3. ColumnIn(tables', Head(runs'[j].todo)) <=> ColumnIn(tables, Head(runs[j].todo))
      BY <2>1 DEF ColumnIn
  <2>4. QED
      BY <1>3, <2>1, <2>2, <2>3
<1>8. QED
    BY <1>6, <1>7 DEF HonestInv

LEMMA StepHonest ==
    ASSUME RunsOK, HonestInv, [Next]_vars
    PROVE  HonestInv'
<1>1. ASSUME UNCHANGED <<tables, ledger, runs, torn>> PROVE HonestInv'
    BY <1>1 DEF HonestInv, LedgerHonest, MatchInv, HasColumn, ColumnIn
<1>2. CASE Aside
    BY <1>1, <1>2 DEF Aside
<1>3. CASE DeployFile
    BY <1>3, DeployHonest
<1>4. ASSUME NEW v \in Versions, EditManual(v) PROVE HonestInv'
    BY <1>1, <1>4 DEF EditManual, Author, database
<1>5. ASSUME NEW i \in Runners, NEW op \in {"up", "down"},
             NEW arg \in Versions \cup (0..Cardinality(Versions)), Start(i, op, arg)
      PROVE  HonestInv'
  <2>1. runs[i].pc # "ledger" /\ Started(op, arg).pc # "ledger"
      BY <1>5, StartEffect, StartedOK DEF Active
  <2>2. QED
      BY <1>5, <2>1, StartEffect, StartedOK, ElsewhereHonest
<1>6. ASSUME NEW i \in Runners, ReadLedger(i) PROVE HonestInv'
  <2>1. PICK run : RunOK(run) /\ Continue(i, run) /\ run.pc # "ledger"
      BY <1>6, ReadLedgerEffect, IdleRunOK
  <2>2. runs[i].pc # "ledger" /\ UNCHANGED <<tables, ledger, torn>>
      BY <1>6 DEF ReadLedger, database, history
  <2>3. QED
      BY <2>1, <2>2, ElsewhereHonest
<1>7. ASSUME NEW i \in Runners, RunScript(i) PROVE HonestInv'
  <2>1. runs[i].pc = "script" /\ UNCHANGED ledger
      BY <1>7, ScriptEffect
  <2>2. CASE Continue(i, IdleRun) /\ UNCHANGED <<tables, torn>>
      BY <2>1, <2>2, IdleRunOK, ElsewhereHonest
  <2>3. CASE ~ (Continue(i, IdleRun) /\ UNCHANGED <<tables, torn>>)
      BY <1>7, <2>1, <2>3, ScriptEffect, ScriptedOK, IdleRunOK, ScriptHonest
  <2>4. QED
      BY <2>2, <2>3
<1>8. ASSUME NEW i \in Runners, WriteLedger(i) PROVE HonestInv'
  <2>1. runs[i].pc = "ledger"
      BY <1>8, WriteEffect
  <2>2. RunOK(Advanced(i)) /\ Advanced(i).pc # "ledger"
      BY <2>1, AdvancedOK, IdleRunOK
  <2>3. QED
      BY <1>8, <2>1, <2>2, WriteEffect, LedgerRowHonest
<1>9. ASSUME NEW i \in Runners, RunCrash(i) PROVE HonestInv'
  <2>1. /\ runs[i].pc \in {"script", "ledger"} /\ Continue(i, IdleRun)
        /\ UNCHANGED <<tables, ledger>>
        /\ torn' = IF runs[i].pc = "ledger" THEN torn \cup {Head(runs[i].todo)} ELSE torn
      BY <1>9, CrashEffect
  <2>2. CASE runs[i].pc = "ledger"
      BY <2>1, <2>2, IdleRunOK, LedgerRowHonest
  <2>3. CASE runs[i].pc # "ledger"
      BY <2>1, <2>3, IdleRunOK, ElsewhereHonest
  <2>4. QED
      BY <2>2, <2>3
<1>10. QED
    BY <1>2, <1>3, <1>4, <1>5, <1>6, <1>7, <1>8, <1>9, NextIsAction

(***************************************************************************)
(* The ledger of "lazuli migrate" tells what is in the database, except    *)
(* where one of the four named events separated the two: for any number of *)
(* concurrent runs, and with db:migrate dropping tables under them.        *)
(***************************************************************************)
THEOREM LedgerIsHonest == Spec => []LedgerHonest
<1>1. Init => HonestInv
  <2> SUFFICES ASSUME Init PROVE HonestInv
      OBVIOUS
  <2>1. ledger = {} /\ \A i \in Runners : runs[i].pc = "idle"
      BY IdleRunOK DEF Init
  <2>2. \A r \in Resources : tables[r].cols = {}
      BY DEF Init, NoTable
  <2>3. \A v \in Versions : TableOf[v] \in Resources
      BY MigrationsAssumption
  <2>4. QED
      BY <2>1, <2>2, <2>3 DEF HonestInv, LedgerHonest, MatchInv, HasColumn, ColumnIn
<1>2. RunsOK /\ HonestInv /\ [Next]_vars => HonestInv'
    BY StepHonest
<1>3. HonestInv => LedgerHonest
    BY DEF HonestInv
<1>4. QED
    BY <1>1, <1>2, <1>3, RunsAlwaysOK, PTL DEF Spec
-----------------------------------------------------------------------------
(***************************************************************************)
(* NoGaps.  It is not enough that the ledger has no gap: the plan of the   *)
(* run under way must not be about to open one, whatever is edited while   *)
(* it waits for its confirmation and its scripts.                          *)
(***************************************************************************)
Gapless(files, applied, accounted) ==
    \A u \in files : \A v \in applied : u < v => u \in accounted

\* A step of the only run: what it has to keep.
LEMMA RunGaps ==
    ASSUME RunsOK, GapInv, NEW i \in Runners, NEW run, RunOK(run), Continue(i, run), Active(i),
           run.files = runs[i].files \/ run.files = {},
           UNCHANGED <<manual, late, overlapped>>,
           ~overlapped =>
               /\ Gapless(manual, ledger', ledger' \cup late)
               /\ run.pc \in {"script", "ledger"} =>
                     IF run.op = "up" THEN UpPlan(run.todo, manual, ledger' \cup late)
                     ELSE DownPlan(run.todo, ledger')
    PROVE  GapInv'
<1>1. runs'[i] = run /\ \A j \in Runners \ {i} : runs'[j] = runs[j]
    BY ContinueOK
<1>2. NoGaps'
    BY DEF NoGaps, Gapless
<1>3. FilesInv'
    BY <1>1 DEF GapInv, FilesInv
<1>4. PlanInv'
  <2> SUFFICES ASSUME ~overlapped
               PROVE  /\ \A j, k \in Runners : Active(j)' /\ Active(k)' => j = k
                      /\ \A j \in Runners : runs'[j].pc \in {"script", "ledger"} =>
                             IF runs'[j].op = "up"
                             THEN UpPlan(runs'[j].todo, manual, ledger' \cup late)
                             ELSE DownPlan(runs'[j].todo, ledger')
      BY DEF PlanInv
  <2>1. \A j \in Runners \ {i} : runs'[j].pc = "idle"
    <3>1. \A j \in Runners : Active(j) => j = i
        BY DEF GapInv, PlanInv
    <3>2. QED
        BY <1>1, <3>1 DEF Active
  <2>2. \A j \in Runners : Active(j)' => j = i
      BY <2>1 DEF Active
  <2>3. ASSUME NEW j \in Runners, runs'[j].pc \in {"script", "ledger"}
        PROVE  j = i
      BY <2>1, <2>3
  <2>4. QED
      BY <1>1, <2>2, <2>3
<1>5. QED
    BY <1>2, <1>3, <1>4 DEF GapInv

LEMMA StartGaps ==
    ASSUME RunsOK, GapInv, NEW i \in Runners, NEW op \in {"up", "down"},
           NEW arg \in Versions \cup (0..Cardinality(Versions)), Start(i, op, arg)
    PROVE  GapInv'
<1> DEFINE run == Started(op, arg)
<1>1. RunOK(run) /\ run.pc = "read" /\ run.files = manual
    BY StartedOK
<1>2. /\ Continue(i, run) /\ UNCHANGED <<manual, ledger, late>>
      /\ overlapped' = (overlapped \/ \E j \in Runners : Active(j))
    BY StartEffect
<1> HIDE DEF run
<1>3. runs'[i] = run /\ \A j \in Runners \ {i} : runs'[j] = runs[j]
    BY <1>1, <1>2, ContinueOK
<1>4. NoGaps'
    BY <1>2 DEF GapInv, NoGaps
<1>5. FilesInv'
    BY <1>1, <1>2, <1>3 DEF GapInv, FilesInv
<1>6. PlanInv'
  <2> SUFFICES ASSUME ~overlapped'
               PROVE  /\ \A j, k \in Runners : Active(j)' /\ Active(k)' => j = k
                      /\ \A j \in Runners : runs'[j].pc \notin {"script", "ledger"}
      BY DEF PlanInv
  <2>1. \A j \in Runners \ {i} : runs'[j].pc = "idle"
      BY <1>2, <1>3 DEF Active
  <2>2. QED
      BY <1>1, <1>3, <2>1 DEF Active
<1>7. QED
    BY <1>4, <1>5, <1>6 DEF GapInv

(***************************************************************************)
(* The author edits while runs wait: a version below what is applied or    *)
(* found is late from the start.                                           *)
(***************************************************************************)
LEMMA EditGaps ==
    ASSUME RunsOK, GapInv, NEW x \in Versions, EditManual(x)
    PROVE  GapInv'
<1>1. UNCHANGED <<ledger, runs, overlapped>>
    BY DEF EditManual, Author, database
<1>2. late \subseteq late'
    BY DEF EditManual
<1>3. ASSUME NEW u \in manual', NEW v, v > u,
             v \in ledger \/ \E i \in Runners : v \in runs[i].files
      PROVE  u \in manual \/ u \in late'
  <2>1. CASE u \in manual
      BY <2>1
  <2>2. CASE u \notin manual
    <3>1. u = x /\ x \notin manual
        BY <2>2 DEF EditManual
    <3>2. v \in ledger \cup UNION {runs[i].files : i \in Runners}
        BY <1>3
    <3>3. QED
        BY <1>3, <3>1, <3>2 DEF EditManual
  <2>3. QED
      BY <2>1, <2>2
<1>4. \A v \in Versions : v \in Nat
    BY MigrationsAssumption
<1>5. /\ ledger \subseteq Versions /\ manual' \subseteq Versions
      /\ \A i \in Runners : runs[i].files \subseteq Versions /\ Elems(runs[i].todo) \subseteq runs[i].files
  <2>1. manual \subseteq Versions /\ manual' \subseteq manual \cup {x}
      BY DEF EditManual, RunsOK
  <2>2. QED
      BY <2>1, RunParts DEF RunsOK, RunOK
<1>6. NoGaps'
  <2> SUFFICES ASSUME NEW u \in manual', NEW v \in ledger, u < v
               PROVE  u \in ledger \/ u \in late' \/ overlapped
      BY <1>1 DEF NoGaps
  <2>1. v > u
      BY <1>4, <1>5
  <2>2. QED
      BY <1>2, <1>3, <2>1 DEF GapInv, NoGaps
<1>7. FilesInv'
  <2> SUFFICES ASSUME NEW i \in Runners, NEW v \in runs[i].files, NEW u \in manual', u < v
               PROVE  u \in runs[i].files \cup late'
      BY <1>1 DEF FilesInv
  <2>1. v > u
      BY <1>4, <1>5
  <2>2. QED
      BY <1>2, <1>3, <2>1 DEF GapInv, FilesInv
<1>8. PlanInv'
  <2> SUFFICES ASSUME ~overlapped, NEW i \in Runners, runs[i].pc \in {"script", "ledger"}
               PROVE  IF runs[i].op = "up" THEN UpPlan(runs[i].todo, manual', ledger \cup late')
                      ELSE DownPlan(runs[i].todo, ledger)
      BY <1>1 DEF GapInv, PlanInv, Active
  <2>1. IF runs[i].op = "up" THEN UpPlan(runs[i].todo, manual, ledger \cup late)
        ELSE DownPlan(runs[i].todo, ledger)
      BY DEF GapInv, PlanInv
  <2>2. CASE runs[i].op # "up"
      BY <2>1, <2>2
  <2>3. CASE runs[i].op = "up"
    <3>1. UpPlan(runs[i].todo, manual, ledger \cup late)
        BY <2>1, <2>3
    <3>2. ASSUME NEW v \in Elems(runs[i].todo), NEW u \in manual', u < v
          PROVE  u \in (ledger \cup late') \cup Elems(runs[i].todo)
      <4>1. v > u /\ v \in runs[i].files
          BY <1>4, <1>5, <3>2
      <4>2. u \in manual \/ u \in late'
          BY <1>3, <4>1
      <4>3. QED
          BY <1>2, <3>1, <3>2, <4>2 DEF UpPlan
    <3>3. QED
        BY <2>3, <3>1, <3>2 DEF UpPlan
  <2>4. QED
      BY <2>2, <2>3
<1>9. QED
    BY <1>6, <1>7, <1>8 DEF GapInv

(***************************************************************************)
(* The plan is made: everything pending up to the target, or the newest.   *)
(***************************************************************************)
LEMMA ReadGaps ==
    ASSUME RunsOK, GapInv, NEW i \in Runners, ReadLedger(i)
    PROVE  GapInv'
<1>1. /\ runs[i].pc = "read"
      /\ UNCHANGED <<manual, ledger, late, overlapped>>
    BY DEF ReadLedger, authored, database, history
<1>2. Active(i)
    BY <1>1 DEF Active
<1>3. ~overlapped => Gapless(manual, ledger', ledger' \cup late)
    BY <1>1 DEF GapInv, NoGaps, Gapless
<1>4. PICK run :
        /\ RunOK(run) /\ Continue(i, run)
        /\ \/ run = IdleRun
           \/ /\ run.pc = "script" /\ run.op = runs[i].op /\ run.files = runs[i].files
              /\ runs[i].op = "up" => /\ Increasing(run.todo)
                                      /\ Elems(run.todo) = PendingUp(runs[i])
              /\ runs[i].op # "up" => /\ Decreasing(run.todo)
                                      /\ \A v \in Elems(run.todo) : \A w \in ledger :
                                             w > v => w \in Elems(run.todo)
    BY ReadLedgerEffect
<1>5. CASE run = IdleRun
    BY <1>1, <1>2, <1>3, <1>4, <1>5, IdleRunOK, RunGaps
<1>6. CASE run # IdleRun
  <2>1. CASE runs[i].op = "up"
    <3>1. ASSUME NEW v \in PendingUp(runs[i]), NEW u \in manual, u < v
          PROVE  u \in (ledger \cup late) \cup PendingUp(runs[i])
      <4>1. v \in runs[i].files /\ (runs[i].arg = 0 \/ v <= runs[i].arg)
          BY DEF PendingUp
      <4>2. u \in runs[i].files \cup late
          BY <3>1, <4>1 DEF GapInv, FilesInv
      <4>3. runs[i].arg \in Nat /\ u \in Nat /\ v \in Nat
          BY <4>1, RunParts, MigrationsAssumption DEF RunsOK
      <4>4. runs[i].arg = 0 \/ u <= runs[i].arg
          BY <3>1, <4>1, <4>3
      <4>5. QED
          BY <4>2, <4>4 DEF PendingUp
    <3>2. UpPlan(run.todo, manual, ledger' \cup late)
        BY <1>1, <1>4, <1>6, <2>1, <3>1 DEF UpPlan
    <3>3. QED
        BY <1>1, <1>2, <1>3, <1>4, <1>6, <2>1, <3>2, RunGaps
  <2>2. CASE runs[i].op # "up"
    <3>1. DownPlan(run.todo, ledger')
        BY <1>1, <1>4, <1>6, <2>2 DEF DownPlan
    <3>2. QED
        BY <1>1, <1>2, <1>3, <1>4, <1>6, <2>2, <3>1, RunGaps
  <2>3. QED
      BY <2>1, <2>2
<1>7. QED
    BY <1>5, <1>6

(***************************************************************************)
(* The ledger row of the head of the plan: everything below it is applied  *)
(* by now, or nothing above it is applied any more.                        *)
(***************************************************************************)
LEMMA WriteGaps ==
    ASSUME RunsOK, GapInv, NEW i \in Runners, WriteLedger(i)
    PROVE  GapInv'
<1> DEFINE s == runs[i].todo
           x == Head(s)
           run == Advanced(i)
<1>1. /\ runs[i].pc = "ledger" /\ Continue(i, run)
      /\ ledger' = IF runs[i].op = "up" THEN ledger \cup {x} ELSE ledger \ {x}
      /\ UNCHANGED <<manual, late, overlapped>>
    BY WriteEffect
<1>2. Active(i)
    BY <1>1 DEF Active
<1>3. s \in Seq(Versions) /\ s # <<>> /\ x \in Versions
    BY <1>1, RunParts
<1>4. /\ Elems(s) = {x} \cup Elems(Tail(s)) /\ x \in Elems(s)
      /\ Increasing(s) => Increasing(Tail(s)) /\ \A v \in Elems(Tail(s)) : x < v
      /\ Decreasing(s) => Decreasing(Tail(s)) /\ \A v \in Elems(Tail(s)) : x > v
    BY <1>3, HeadTail
<1>5. /\ RunOK(run)
      /\ \/ run.pc = "idle" /\ run.files = {}
         \/ /\ run.pc = "script" /\ run.op = runs[i].op
            /\ run.todo = Tail(s) /\ run.files = runs[i].files
    BY <1>1, AdvancedOK, IdleRunOK
<1>6. /\ \A v \in Versions : v \in Nat
      /\ ledger \subseteq Versions /\ manual \subseteq Versions
      /\ Elems(s) \subseteq Versions
  <2>1. Elems(s) \subseteq Versions
      BY <1>3 DEF Elems
  <2>2. QED
      BY <2>1, MigrationsAssumption DEF RunsOK
<1> HIDE DEF s, x, run
<1>7. ASSUME ~overlapped, runs[i].op = "up"
      PROVE  /\ Gapless(manual, ledger', ledger' \cup late)
             /\ UpPlan(Tail(s), manual, ledger' \cup late)
  <2>1. UpPlan(s, manual, ledger \cup late)
      BY <1>1, <1>7 DEF GapInv, PlanInv, s
  <2>2. ledger' = ledger \cup {x}
      BY <1>1, <1>7
  <2>3. Gapless(manual, ledger', ledger' \cup late)
    <3> SUFFICES ASSUME NEW u \in manual, NEW v \in ledger', u < v
                 PROVE  u \in ledger' \cup late
        BY DEF Gapless
    <3>1. CASE v \in ledger
        BY <1>7, <2>2, <3>1 DEF GapInv, NoGaps
    <3>2. CASE v = x
      <4>1. u \in (ledger \cup late) \cup Elems(s)
          BY <1>4, <2>1, <3>2 DEF UpPlan
      <4>2. u \notin Elems(Tail(s))
        <5>1. ASSUME u \in Elems(Tail(s)) PROVE FALSE
          <6>1. x < u
              BY <1>4, <2>1, <5>1 DEF UpPlan
          <6>2. x \in Nat /\ u \in Nat
              BY <1>3, <1>6
          <6>3. QED
              BY <3>2, <6>1, <6>2
        <5>2. QED
            BY <5>1
      <4>3. QED
          BY <1>4, <2>2, <4>1, <4>2
    <3>3. QED
        BY <2>2, <3>1, <3>2
  <2>4. UpPlan(Tail(s), manual, ledger' \cup late)
      BY <1>4, <2>1, <2>2 DEF UpPlan
  <2>5. QED
      BY <2>3, <2>4
<1>8. ASSUME ~overlapped, runs[i].op # "up"
      PROVE  /\ Gapless(manual, ledger', ledger' \cup late)
             /\ DownPlan(Tail(s), ledger')
  <2>1. DownPlan(s, ledger)
      BY <1>1, <1>8 DEF GapInv, PlanInv, s
  <2>2. ledger' = ledger \ {x}
      BY <1>1, <1>8
  <2>3. \A w \in ledger : ~ (w > x)
    <3> SUFFICES ASSUME NEW w \in ledger, w > x PROVE FALSE
        OBVIOUS
    <3>1. w \in Nat /\ x \in Nat
        BY <1>3, <1>6
    <3>2. w \in Elems(s)
        BY <1>4, <2>1 DEF DownPlan
    <3>3. w \in Elems(Tail(s))
        BY <1>4, <3>1, <3>2
    <3>4. x > w
        BY <1>4, <2>1, <3>3 DEF DownPlan
    <3>5. QED
        BY <3>1, <3>4
  <2>4. Gapless(manual, ledger', ledger' \cup late)
    <3> SUFFICES ASSUME NEW u \in manual, NEW v \in ledger', u < v
                 PROVE  u \in ledger' \cup late
        BY DEF Gapless
    <3>1. u \in ledger \cup late
        BY <1>8, <2>2 DEF GapInv, NoGaps
    <3>2. u # x
      <4>1. v \in ledger /\ v \in Nat /\ x \in Nat /\ ~ (v > x)
          BY <1>3, <1>6, <2>2, <2>3
      <4>2. QED
          BY <4>1
    <3>3. QED
        BY <2>2, <3>1, <3>2
  <2>5. DownPlan(Tail(s), ledger')
    <3> SUFFICES ASSUME NEW v \in Elems(Tail(s)), NEW w \in ledger', w > v
                 PROVE  w \in Elems(Tail(s))
        BY <1>4, <2>1 DEF DownPlan
    <3>1. v \in Elems(s) /\ w \in ledger /\ w # x
        BY <1>4, <2>2
    <3>2. QED
        BY <1>4, <2>1, <3>1 DEF DownPlan
  <2>6. QED
      BY <2>4, <2>5
<1>9. QED
    BY <1>1, <1>2, <1>5, <1>7, <1>8, RunGaps

\* A step of a run that leaves the ledger and its plan.
LEMMA OtherGaps ==
    ASSUME RunsOK, GapInv, NEW i \in Runners, NEW run, RunOK(run), Continue(i, run),
           runs[i].pc \in {"script", "ledger"}, UNCHANGED <<manual, ledger, late, overlapped>>,
           \/ run = IdleRun
           \/ run.op = runs[i].op /\ run.todo = runs[i].todo /\ run.files = runs[i].files
    PROVE  GapInv'
<1>1. Active(i)
    BY DEF Active
<1>2. ~overlapped => Gapless(manual, ledger', ledger' \cup late)
    BY DEF GapInv, NoGaps, Gapless
<1>3. ~overlapped => IF runs[i].op = "up" THEN UpPlan(runs[i].todo, manual, ledger' \cup late)
                     ELSE DownPlan(runs[i].todo, ledger')
    BY DEF GapInv, PlanInv
<1>4. QED
    BY <1>1, <1>2, <1>3, IdleRunOK, RunGaps

LEMMA StepGaps ==
    ASSUME RunsOK, GapInv, [Next]_vars
    PROVE  GapInv'
<1>1. ASSUME UNCHANGED <<manual, ledger, runs, late, overlapped>> PROVE GapInv'
    BY <1>1 DEF GapInv, NoGaps, FilesInv, PlanInv, Active
<1>2. CASE Aside
    BY <1>1, <1>2 DEF Aside
<1>3. CASE DeployFile
    BY <1>1, <1>3, DeployEffect DEF RunsOK
<1>4. ASSUME NEW i \in Runners, RunScript(i) PROVE GapInv'
  <2>1. runs[i].pc = "script" /\ UNCHANGED <<manual, ledger, late, overlapped>>
      BY <1>4, ScriptEffect
  <2>2. CASE Continue(i, IdleRun)
      BY <2>1, <2>2, IdleRunOK, OtherGaps
  <2>3. CASE Continue(i, Scripted(i))
      BY <2>1, <2>3, ScriptedOK, OtherGaps
  <2>4. QED
      BY <1>4, <2>2, <2>3, ScriptEffect
<1>5. ASSUME NEW i \in Runners, RunCrash(i) PROVE GapInv'
    BY <1>5, CrashEffect, IdleRunOK, OtherGaps
<1>6. QED
    BY <1>2, <1>3, <1>4, <1>5, NextIsAction, EditGaps, StartGaps, ReadGaps, WriteGaps

(***************************************************************************)
(* Ups to a target, rollbacks by steps, failing scripts and crashes in any *)
(* order leave no version unapplied below an applied one: only a file that *)
(* was written late, or two runs at once, can.                             *)
(***************************************************************************)
THEOREM NoGapIsLeft == Spec => []NoGaps
<1>1. Init => GapInv
  <2> SUFFICES ASSUME Init PROVE GapInv
      OBVIOUS
  <2>1. /\ ledger = {}
        /\ \A i \in Runners : runs[i].pc = "idle" /\ runs[i].files = {}
      BY IdleRunOK DEF Init
  <2>2. QED
      BY <2>1 DEF GapInv, NoGaps, FilesInv, PlanInv, Active
<1>2. RunsOK /\ GapInv /\ [Next]_vars => GapInv'
    BY StepGaps
<1>3. GapInv => NoGaps
    BY DEF GapInv
<1>4. QED
    BY <1>1, <1>2, <1>3, RunsAlwaysOK, PTL DEF Spec
-----------------------------------------------------------------------------
(***************************************************************************)
(* Every schema the author comes to is one, so that the sort is right on   *)
(* it.                                                                     *)
(***************************************************************************)
LEMMA SchemasAreSchemas ==
    ASSUME NEW s \in Schemas
    PROVE  IsSchema(s) /\ DOMAIN s \in SUBSET Resources
<1>1. PICK D \in SUBSET Resources : s \in [D -> SUBSET D]
    BY DEF Schemas
<1>2. DOMAIN s = D
    BY <1>1
<1>3. IsFiniteSet(D) /\ D \subseteq Nat
    BY <1>1, MigrationsAssumption, FS_Subset
<1>4. QED
    BY <1>1, <1>2, <1>3 DEF IsSchema

LEMMA SchemasIntro ==
    ASSUME NEW D \in SUBSET Resources, NEW s \in [D -> SUBSET D]
    PROVE  s \in Schemas
    BY DEF Schemas

SchemaOK == schema \in Schemas

LEMMA EditKeepsSchema ==
    ASSUME schema \in Schemas, EditSchema
    PROVE  schema' \in Schemas
<1> DEFINE D == DOMAIN schema
<1>1. D \in SUBSET Resources /\ schema \in [D -> SUBSET D]
    BY SchemasAreSchemas DEF IsSchema
<1>2. ASSUME NEW r \in Resources \ D,
             schema' = [q \in D \cup {r} |-> IF q = r THEN {} ELSE schema[q]]
      PROVE  schema' \in Schemas
  <2>1. schema' \in [D \cup {r} -> SUBSET (D \cup {r})]
      BY <1>1, <1>2
  <2>2. D \cup {r} \in SUBSET Resources
      BY <1>1
  <2>3. QED
      BY <2>1, <2>2, SchemasIntro
<1>3. ASSUME NEW r \in D, NEW t \in D,
             schema' = [schema EXCEPT ![r] = IF t \in @ THEN @ \ {t} ELSE @ \cup {t}]
      PROVE  schema' \in Schemas
  <2>1. schema' \in [D -> SUBSET D]
      BY <1>1, <1>3
  <2>2. QED
      BY <1>1, <2>1, SchemasIntro
<1>4. ASSUME NEW r \in D, \A q \in D : r \notin Targets(schema, q),
             schema' = [q \in D \ {r} |-> schema[q]]
      PROVE  schema' \in Schemas
  <2>1. \A q \in D \ {r} : schema[q] \in SUBSET (D \ {r})
      BY <1>1, <1>4 DEF Targets
  <2>2. schema' \in [D \ {r} -> SUBSET (D \ {r})]
      BY <1>4, <2>1
  <2>3. D \ {r} \in SUBSET Resources
      BY <1>1
  <2>4. QED
      BY <2>2, <2>3, SchemasIntro
<1>5. QED
    BY <1>2, <1>3, <1>4 DEF EditSchema

LEMMA StepKeepsSchema ==
    SchemaOK /\ [Next]_vars => SchemaOK'
<1> SUFFICES ASSUME schema \in Schemas, [Next]_vars PROVE schema' \in Schemas
    BY DEF SchemaOK
<1>1. CASE EditSchema
    BY <1>1, EditKeepsSchema
<1>2. CASE UNCHANGED vars
    BY <1>2 DEF vars, authored
<1>3. ASSUME NEW v \in Versions, EditManual(v) PROVE schema' \in Schemas
    BY <1>3 DEF EditManual
<1>4. CASE Generator
    BY <1>4 DEF Generator, GenerateClean, GenerateWrite, GenerateDone, GenerateCrash, authored
<1>5. CASE Deployer
    BY <1>5 DEF Deployer, DeployStart, DeployFile, DeployDone, DeployCrash, authored
<1>6. ASSUME NEW i \in Runners, Run(i) PROVE schema' \in Schemas
    BY <1>6 DEF Run, Start, ReadLedger, RunScript, WriteLedger, RunCrash, authored
<1>7. QED
    BY <1>1, <1>2, <1>3, <1>4, <1>5, <1>6 DEF Next

(***************************************************************************)
(* TargetsFirst: on the schemas the run enumerates and on every schema     *)
(* that any number of edits lead to.                                       *)
(***************************************************************************)
THEOREM TargetsAlwaysFirst == Spec => []TargetsFirst
<1>1. Init => SchemaOK
    BY MigrationsAssumption DEF Init, SchemaOK
<1>2. SchemaOK /\ [Next]_vars => SchemaOK'
    BY StepKeepsSchema
<1>3. SchemaOK => TargetsFirst
  <2>1. ASSUME NEW s \in SortInputs PROVE SortedTargetsFirst(s, TopoSort(s))
      BY TopoSortSound, MigrationsAssumption DEF IsSchema
  <2>2. ASSUME schema \in Schemas PROVE SortedTargetsFirst(schema, TopoSort(schema))
      BY <2>2, TopoSortSound, SchemasAreSchemas
  <2>3. QED
      BY <2>1, <2>2 DEF SchemaOK, TargetsFirst, TopoSortCorrect
<1>4. QED
    BY <1>1, <1>2, <1>3, PTL DEF Spec
-----------------------------------------------------------------------------
(***************************************************************************)
(* The files of a directory in the order of their names: all of them, each *)
(* once.  Counting the names before a file is one-to-one, since the order  *)
(* is strict and no two files have one name.                               *)
(***************************************************************************)
NamesOK(files) ==
    /\ files \subseteq FileType /\ IsFiniteSet(files)
    /\ \A f, g \in files : SameName(f, g) => f = g

ByName(s) == \A i, j \in 1..Len(s) : i < j => NameBefore(s[i], s[j])

LEMMA FileFields ==
    ASSUME NEW f \in FileType
    PROVE  f.n \in Nat /\ f.res \in Nat /\ f.res \in Resources /\ f.down \in BOOLEAN
<1>1. Cardinality(Resources) \in Nat
    BY MigrationsAssumption, FS_CardinalityType
<1>2. QED
    BY <1>1, MigrationsAssumption DEF FileType

LEMMA NameOrder ==
    /\ \A f \in FileType : ~NameBefore(f, f)
    /\ \A f, g, h \in FileType : NameBefore(f, g) /\ NameBefore(g, h) => NameBefore(f, h)
    /\ \A f, g \in FileType : NameBefore(f, g) => ~NameBefore(g, f)
    /\ \A f, g \in FileType : NameBefore(f, g) \/ NameBefore(g, f) \/ SameName(f, g)
<1>1. \A f \in FileType : f.n \in Nat /\ f.res \in Nat /\ f.down \in BOOLEAN
    BY FileFields
<1> HIDE DEF FileType
<1>2. \A f \in FileType : ~NameBefore(f, f)
    BY <1>1 DEF NameBefore
<1>3. \A f, g, h \in FileType : NameBefore(f, g) /\ NameBefore(g, h) => NameBefore(f, h)
    BY <1>1 DEF NameBefore
<1>4. \A f, g \in FileType : NameBefore(f, g) => ~NameBefore(g, f)
    BY <1>2, <1>3
<1>5. \A f, g \in FileType : NameBefore(f, g) \/ NameBefore(g, f) \/ SameName(f, g)
    BY <1>1 DEF NameBefore, SameName
<1>6. QED
    BY <1>2, <1>3, <1>4, <1>5

NamesBefore(files, f) == Cardinality({g \in files : NameBefore(g, f)})

LEMMA NamesBeforeMonotone ==
    ASSUME NEW files, NamesOK(files), NEW f \in files, NEW h \in files, NameBefore(f, h)
    PROVE  NamesBefore(files, f) < NamesBefore(files, h)
<1> DEFINE A == {g \in files : NameBefore(g, f)}
           B == {g \in files : NameBefore(g, h)}
<1>1. A \in SUBSET B
    BY NameOrder DEF NamesOK
<1>2. B \in SUBSET files
    OBVIOUS
<1>3. IsFiniteSet(B)
    BY <1>2, FS_Subset DEF NamesOK
<1>4. f \in B /\ f \notin A
    BY NameOrder DEF NamesOK
<1> HIDE DEF A, B
<1>5. /\ IsFiniteSet(A) /\ Cardinality(A) <= Cardinality(B)
      /\ Cardinality(B) = Cardinality(A) => B = A
    BY <1>1, <1>3, FS_Subset
<1>6. Cardinality(A) \in Nat /\ Cardinality(B) \in Nat
    BY <1>3, <1>5, FS_CardinalityType
<1>7. Cardinality(A) < Cardinality(B)
    BY <1>4, <1>5, <1>6
<1>8. QED
    BY <1>7 DEF NamesBefore, A, B

LEMMA NamesBeforeRange ==
    ASSUME NEW files, NamesOK(files), NEW f \in files
    PROVE  NamesBefore(files, f) \in 0..(Cardinality(files) - 1)
<1> DEFINE A == {g \in files : NameBefore(g, f)}
<1>1. A \in SUBSET files /\ f \notin A
    BY NameOrder DEF NamesOK
<1>2. IsFiniteSet(files)
    BY DEF NamesOK
<1> HIDE DEF A
<1>3. /\ IsFiniteSet(A) /\ Cardinality(A) <= Cardinality(files)
      /\ Cardinality(files) = Cardinality(A) => files = A
    BY <1>1, <1>2, FS_Subset
<1>4. Cardinality(A) \in Nat /\ Cardinality(files) \in Nat
    BY <1>2, <1>3, FS_CardinalityType
<1>5. Cardinality(A) \in 0..(Cardinality(files) - 1)
    BY <1>1, <1>3, <1>4
<1>6. QED
    BY <1>5 DEF NamesBefore, A

LEMMA SortedFilesProperties ==
    ASSUME NEW files, NamesOK(files)
    PROVE  /\ SortedFiles(files) \in Seq(files)
           /\ Elems(SortedFiles(files)) = files
           /\ ByName(SortedFiles(files))
<1> DEFINE c == Cardinality(files)
           I == 1..c
           f == [x \in files |-> NamesBefore(files, x) + 1]
           Nth(n) == CHOOSE x \in files : NamesBefore(files, x) = n - 1
           s == [n \in I |-> Nth(n)]
<1>1. c \in Nat /\ IsFiniteSet(files) /\ files \subseteq FileType
    BY FS_CardinalityType DEF NamesOK
<1>2. \A x \in files : NamesBefore(files, x) \in 0..(c - 1)
    BY NamesBeforeRange
<1>3. \A x, y \in files : NameBefore(x, y) => NamesBefore(files, x) < NamesBefore(files, y)
    BY NamesBeforeMonotone
<1>4. \A x, y \in files : NamesBefore(files, x) = NamesBefore(files, y) => x = y
  <2> SUFFICES ASSUME NEW x \in files, NEW y \in files,
                      NamesBefore(files, x) = NamesBefore(files, y)
               PROVE  x = y
      OBVIOUS
  <2>1. ~NameBefore(x, y) /\ ~NameBefore(y, x)
      BY <1>1, <1>2, <1>3
  <2>2. SameName(x, y)
      BY <1>1, <2>1, NameOrder
  <2>3. QED
      BY <2>2 DEF NamesOK
<1> HIDE DEF c
<1>5. \A x \in files : NamesBefore(files, x) \in Int
    BY <1>1, <1>2
<1>6. f \in [files -> I]
    BY <1>1, <1>2
<1>7. \A x, y \in files : f[x] = f[y] => x = y
    BY <1>4, <1>5
<1>8. IsFiniteSet(I) /\ Cardinality(I) = c
  <2>1. \A n \in Nat : IsFiniteSet(1..n) /\ Cardinality(1..n) = n
      BY FS_Interval
  <2>2. QED
      BY ONLY <1>1, <2>1
<1>9. f \in Surjection(files, I)
  <2> HIDE DEF f, I
  <2>1. f \in Injection(files, I)
      BY <1>6, <1>7 DEF Injection, IsInjective
  <2>2. QED
      BY <1>8, <2>1, FS_Injection DEF c
<1>10. \A n \in I : \E x \in files : NamesBefore(files, x) = n - 1
  <2> SUFFICES ASSUME NEW n \in I PROVE \E x \in files : NamesBefore(files, x) = n - 1
      OBVIOUS
  <2>1. PICK x \in files : f[x] = n
      BY <1>9 DEF Surjection
  <2>2. QED
      BY <1>1, <1>5, <2>1
<1>11. \A n \in I : Nth(n) \in files /\ NamesBefore(files, Nth(n)) = n - 1
    BY <1>10
<1>12. SortedFiles(files) = s
    BY DEF SortedFiles, NamesBefore, c
<1> HIDE DEF Nth
<1>13. s \in Seq(files) /\ Len(s) = c /\ \A n \in I : s[n] = Nth(n)
    BY <1>1, <1>11
<1>14. ASSUME NEW x \in files PROVE \E n \in I : s[n] = x
  <2>1. PICK n \in I : n - 1 = NamesBefore(files, x)
    <3>1. NamesBefore(files, x) + 1 \in I /\ (NamesBefore(files, x) + 1) - 1 = NamesBefore(files, x)
        BY <1>1, <1>2
    <3>2. QED
        BY <3>1
  <2>2. QED
      BY <1>4, <1>11, <1>13, <2>1
<1>15. ASSUME NEW i \in I, NEW j \in I, i < j PROVE NameBefore(s[i], s[j])
  <2>1. s[i] \in files /\ s[j] \in files
      BY <1>11, <1>13
  <2>2. NamesBefore(files, s[i]) = i - 1 /\ NamesBefore(files, s[j]) = j - 1
      BY <1>11, <1>13
  <2>3. s[i] # s[j]
    <3>1. i - 1 # j - 1
        BY <1>1, <1>15
    <3>2. QED
        BY <2>2, <3>1
  <2>4. ~NameBefore(s[j], s[i])
    <3>1. ~ (j - 1 < i - 1)
        BY <1>1, <1>15
    <3>2. QED
        BY <1>3, <2>1, <2>2, <3>1
  <2>5. ~SameName(s[i], s[j])
      BY <2>1, <2>3 DEF NamesOK
  <2>6. s[i] \in FileType /\ s[j] \in FileType
      BY <1>1, <2>1
  <2> HIDE DEF s
  <2>7. QED
      BY <2>4, <2>5, <2>6, NameOrder
<1> HIDE DEF s
<1>16. Elems(s) = files
    BY <1>11, <1>13, <1>14 DEF Elems
<1>17. ByName(s)
    BY <1>13, <1>15 DEF ByName
<1>18. QED
    BY <1>12, <1>13, <1>16, <1>17

\* The first file of a run and the rest.
LEMMA FirstFile ==
    ASSUME NEW s \in Seq(FileType), s # <<>>
    PROVE  /\ Head(s) \in FileType /\ Tail(s) \in Seq(FileType)
           /\ Elems(s) = {Head(s)} \cup Elems(Tail(s))
           /\ ByName(s) => ByName(Tail(s)) /\ \A f \in Elems(Tail(s)) : NameBefore(Head(s), f)
<1> DEFINE n == Len(s)
           t == Tail(s)
<1> HIDE DEF FileType
<1>1. n \in Nat \ {0} /\ Head(s) = s[1] /\ \A k \in 1..n : s[k] \in FileType
    OBVIOUS
<1>2. t \in Seq(FileType) /\ Len(t) = n - 1 /\ \A k \in 1..(n - 1) : t[k] = s[k + 1]
    OBVIOUS
<1> HIDE DEF t
<1>3. 1 \in 1..n /\ \A k \in 1..(n - 1) : k + 1 \in 1..n
    BY <1>1
<1>4. \A k \in 1..n : k = 1 \/ (k - 1 \in 1..(n - 1) /\ (k - 1) + 1 = k)
    BY <1>1
<1>5. \A k \in 1..n : k = 1 \/ t[k - 1] = s[k]
    BY <1>2, <1>4
<1>6. Elems(s) = {s[1]} \cup Elems(t)
  <2>1. ASSUME NEW v \in Elems(s) PROVE v \in {s[1]} \cup Elems(t)
    <3>1. PICK k \in 1..n : v = s[k]
        BY DEF Elems
    <3>2. k = 1 \/ (k - 1 \in 1..Len(t) /\ t[k - 1] = s[k])
        BY <1>2, <1>4, <1>5
    <3>3. QED
        BY <3>1, <3>2 DEF Elems
  <2>2. ASSUME NEW v \in Elems(t) PROVE v \in Elems(s)
    <3>1. PICK k \in 1..(n - 1) : v = t[k]
        BY <1>2 DEF Elems
    <3>2. k + 1 \in 1..Len(s) /\ v = s[k + 1]
        BY <1>2, <1>3, <3>1
    <3>3. QED
        BY <3>2 DEF Elems
  <2>3. s[1] \in Elems(s)
      BY <1>3 DEF Elems
  <2>4. QED
      BY <2>1, <2>2, <2>3
<1>7. ASSUME ByName(s) PROVE ByName(t) /\ \A f \in Elems(t) : NameBefore(s[1], f)
  <2>1. \A j, k \in 1..n : j < k => NameBefore(s[j], s[k])
      BY <1>7 DEF ByName
  <2>2. ASSUME NEW j \in 1..(n - 1), NEW k \in 1..(n - 1), j < k
        PROVE  NameBefore(t[j], t[k])
    <3>1. j + 1 < k + 1
        BY <2>2
    <3>2. QED
        BY <1>2, <1>3, <2>1, <3>1
  <2>3. ASSUME NEW k \in 1..(n - 1) PROVE NameBefore(s[1], t[k])
    <3>1. 1 < k + 1
        BY <1>1
    <3>2. QED
        BY <1>2, <1>3, <2>1, <3>1
  <2>4. QED
      BY <1>2, <2>2, <2>3 DEF ByName, Elems
<1>8. QED
    BY <1>1, <1>2, <1>3, <1>6, <1>7 DEF t
-----------------------------------------------------------------------------
(***************************************************************************)
(* The files codegen writes for a schema: an up and a down file for every  *)
(* resource, under one number, and the up files of the targets before.     *)
(***************************************************************************)
Files(s) == Elems(Emitted(s))

\* What leads into a cycle, and what refers to it, lead into a cycle.
LEMMA ReferrerOfCycle ==
    ASSUME NEW s, NEW r \in DOMAIN s, NEW t \in s[r] \ {r}, BehindCycle(s, t)
    PROVE  BehindCycle(s, r)
<1>1. PICK S \in SUBSET DOMAIN s : t \in S /\ \A q \in S : (s[q] \ {q}) \cap S # {}
    BY DEF BehindCycle
<1> DEFINE T == S \cup {r}
<1>2. T \in SUBSET DOMAIN s /\ r \in T
    OBVIOUS
<1>3. \A q \in T : (s[q] \ {q}) \cap T # {}
  <2> TAKE q \in T
  <2>1. CASE q \in S
      BY <1>1, <2>1
  <2>2. CASE q = r
      BY <1>1, <2>2
  <2>3. QED
      BY <2>1, <2>2
<1> HIDE DEF T
<1>4. QED
    BY <1>2, <1>3 DEF BehindCycle

\* A sequence has finitely many elements.
LEMMA ElemsFinite ==
    ASSUME NEW D, NEW o \in Seq(D)
    PROVE  IsFiniteSet(Elems(o))
<1> DEFINE I == 1..Len(o)
           E == Elems(o)
           f == [i \in I |-> o[i]]
<1>1. Len(o) \in Nat
    OBVIOUS
<1>2. IsFiniteSet(I)
  <2>1. \A n \in Nat : IsFiniteSet(1..n)
      BY FS_Interval
  <2>2. QED
      BY ONLY <1>1, <2>1
<1>3. f \in [I -> E] /\ \A e \in E : \E i \in I : f[i] = e
    BY DEF Elems
<1> HIDE DEF f, I, E
<1>4. f \in Surjection(I, E)
    BY <1>3 DEF Surjection
<1>5. QED
    BY <1>2, <1>4, FS_Surjection DEF E

LEMMA TopoSortIsSequence ==
    ASSUME NEW s, IsSchema(s)
    PROVE  TopoSort(s) \in Seq(DOMAIN s)
<1> DEFINE D == DOMAIN s
<1>1. PICK k : k = Kahn(s)[Cardinality(D)]
    OBVIOUS
<1> DEFINE R == D \ Range(k)
<1>2. k \in Seq(D)
    BY <1>1, KahnEnds DEF Ordered
<1>3. R \in SUBSET D /\ IsFiniteSet(D) /\ D \subseteq Nat
    BY DEF IsSchema
<1>4. IsFiniteSet(R) /\ R \in SUBSET Nat
  <2> HIDE DEF R
  <2>1. QED
      BY <1>3, FS_Subset
<1>5. Ascending(R) \in Seq(R)
  <2> HIDE DEF R
  <2>1. QED
      BY <1>4, AscendingProperties
<1>6. TopoSort(s) = k \o Ascending(R)
    BY <1>1 DEF TopoSort
<1> HIDE DEF R
<1>7. Ascending(R) \in Seq(D)
    BY <1>3, <1>5
<1>8. QED
    BY <1>2, <1>6, <1>7

LEMMA OrderIsPermutation ==
    ASSUME NEW s \in Schemas
    PROVE  LET o == TopoSort(s) IN
             /\ o \in Seq(DOMAIN s) /\ Len(o) = Cardinality(DOMAIN s)
             /\ \A i, j \in 1..Len(o) : o[i] = o[j] => i = j
             /\ \A r \in DOMAIN s : \E i \in 1..Len(o) : o[i] = r
             /\ Len(o) \in Nat /\ Len(o) <= Cardinality(Resources)
             /\ Cardinality(Resources) \in Nat
<1> DEFINE D == DOMAIN s
           o == TopoSort(s)
           I == 1..Len(o)
           f == [i \in I |-> o[i]]
<1>1. IsSchema(s) /\ D \in SUBSET Resources
    BY SchemasAreSchemas
<1>2. IsFiniteSet(D) /\ Cardinality(D) \in Nat
    BY <1>1, FS_CardinalityType DEF IsSchema
<1>3. Cardinality(Resources) \in Nat /\ Cardinality(D) <= Cardinality(Resources)
    BY <1>1, MigrationsAssumption, FS_CardinalityType, FS_Subset
<1>4. Len(o) = Cardinality(D) /\ Range(o) = D
    BY <1>1, TopoSortSound DEF SortedTargetsFirst
<1>5. o \in Seq(D)
    BY <1>1, TopoSortIsSequence
<1> HIDE DEF o, D
<1>6. f \in [I -> D] /\ \A r \in D : \E i \in I : f[i] = r
    BY <1>4, <1>5 DEF Range
<1>7. IsFiniteSet(I) /\ Cardinality(I) = Len(o)
  <2>1. \A n \in Nat : IsFiniteSet(1..n) /\ Cardinality(1..n) = n
      BY FS_Interval
  <2>2. QED
      BY ONLY <1>2, <1>4, <2>1
<1>8. f \in Injection(I, D)
  <2> HIDE DEF f, I
  <2>1. f \in Surjection(I, D)
      BY <1>6 DEF Surjection
  <2>2. QED
      BY <1>4, <1>7, <2>1, FS_Surjection
<1>9. \A i, j \in I : o[i] = o[j] => i = j
    BY <1>8 DEF Injection, IsInjective
<1>10. \A r \in D : \E i \in I : o[i] = r
    BY <1>6
<1>11. QED
    BY <1>2, <1>3, <1>4, <1>5, <1>9, <1>10 DEF o, D

LEMMA EmittedFiles ==
    ASSUME NEW s \in Schemas
    PROVE  /\ Emitted(s) \in Seq(FileType)
           /\ NamesOK(Files(s))
           /\ \A f \in Files(s) : f.res \in DOMAIN s /\ f.refs = s[f.res]
           /\ \A f, g \in Files(s) : f.res = g.res => f.n = g.n
           /\ \A r \in DOMAIN s : \E f \in Files(s) : f.res = r /\ ~f.down
           /\ \A f \in Files(s) : \A t \in s[f.res] \ {f.res} :
                \/ BehindCycle(s, f.res)
                \/ \E g \in Files(s) : g.res = t /\ ~g.down /\ NameBefore(g, f)
<1> DEFINE o == TopoSort(s)
           L == Len(o)
           File(n, down) == [n |-> n, res |-> o[n], down |-> down, refs |-> s[o[n]]]
           ups == [n \in 1..L |-> File(n, FALSE)]
           downs == [n \in 1..L |-> File(n, TRUE)]
           e == Emitted(s)
<1>1. /\ o \in Seq(DOMAIN s) /\ L \in Nat /\ L <= Cardinality(Resources)
      /\ Cardinality(Resources) \in Nat
      /\ \A i, j \in 1..L : o[i] = o[j] => i = j
      /\ \A r \in DOMAIN s : \E i \in 1..L : o[i] = r
    BY OrderIsPermutation
<1>2. IsSchema(s) /\ DOMAIN s \in SUBSET Resources
    BY SchemasAreSchemas
<1>3. \A i \in DOMAIN o : \A t \in s[o[i]] \ {o[i]} :
          BehindCycle(s, o[i]) \/ \E j \in 1..(i - 1) : o[j] = t
    BY <1>2, TopoSortSound DEF SortedTargetsFirst
<1>4. e = ups \o downs
    BY DEF Emitted
<1> HIDE DEF o
<1>5. \A n \in 1..L : o[n] \in DOMAIN s /\ n \in 1..Cardinality(Resources)
    BY <1>1
<1>6. \A n \in 1..L, down \in BOOLEAN : File(n, down) \in FileType
  <2> SUFFICES ASSUME NEW n \in 1..L, NEW down \in BOOLEAN PROVE File(n, down) \in FileType
      OBVIOUS
  <2>1. o[n] \in Resources /\ s[o[n]] \in SUBSET Resources
      BY <1>2, <1>5 DEF IsSchema
  <2>2. QED
      BY <1>5, <2>1 DEF FileType
<1> HIDE DEF L, FileType, File
<1>7. ups \in Seq(FileType) /\ downs \in Seq(FileType) /\ Len(ups) = L /\ Len(downs) = L
  <2>1. \A n \in 1..L : File(n, FALSE) \in FileType /\ File(n, TRUE) \in FileType
      BY <1>6
  <2>2. L \in Nat
      BY <1>1
  <2>3. ups \in [1..L -> FileType] /\ downs \in [1..L -> FileType]
      BY <2>1, Zenon
  <2> HIDE DEF ups, downs
  <2>4. QED
      BY <2>2, <2>3
<1>8. \A n \in 1..L : ups[n] = File(n, FALSE) /\ downs[n] = File(n, TRUE)
    OBVIOUS
<1> HIDE DEF ups, downs
<1>9. /\ e \in Seq(FileType) /\ Len(e) = L + L
      /\ \A i \in 1..L : e[i] = ups[i]
      /\ \A i \in (L + 1)..(L + L) : e[i] = downs[i - L]
  <2>1. L \in Nat
      BY <1>1
  <2>2. ups \o downs \in Seq(FileType) /\ Len(ups \o downs) = L + L
      BY ONLY <1>7, <2>1
  <2>3. \A i \in 1..L : (ups \o downs)[i] = ups[i]
      BY ONLY <1>7, <2>1
  <2>4. \A i \in (L + 1)..(L + L) : (ups \o downs)[i] = downs[i - L]
      BY ONLY <1>7, <2>1
  <2>5. QED
      BY <1>4, <2>2, <2>3, <2>4
<1> HIDE DEF e
<1>10. ASSUME NEW f \in Elems(e)
       PROVE  \E n \in 1..L, down \in BOOLEAN : f = File(n, down)
  <2>1. PICK i \in 1..(L + L) : f = e[i]
      BY <1>9 DEF Elems
  <2>2. CASE i \in 1..L
      BY <1>8, <1>9, <2>1, <2>2
  <2>3. CASE i \in (L + 1)..(L + L)
    <3>1. i - L \in 1..L
        BY <1>1, <2>3
    <3>2. QED
        BY <1>8, <1>9, <2>1, <2>3, <3>1
  <2>4. QED
      BY <1>1, <2>2, <2>3
<1>11. ASSUME NEW n \in 1..L PROVE File(n, FALSE) \in Elems(e)
  <2>1. e[n] = File(n, FALSE)
      BY <1>8, <1>9
  <2>2. n \in 1..(L + L)
      BY <1>1
  <2>3. QED
      BY <1>9, <2>1, <2>2 DEF Elems
<1>12. \A n \in 1..L, down \in BOOLEAN :
          /\ File(n, down).n = n /\ File(n, down).res = o[n]
          /\ File(n, down).down = down /\ File(n, down).refs = s[o[n]]
    BY DEF File
<1>13. Files(s) = Elems(e)
    BY DEF Files, e
<1>14. NamesOK(Elems(e))
  <2>1. Elems(e) \subseteq FileType
      BY <1>9 DEF Elems
  <2>2. \A f, g \in Elems(e) : SameName(f, g) => f = g
    <3> SUFFICES ASSUME NEW f \in Elems(e), NEW g \in Elems(e), SameName(f, g) PROVE f = g
        OBVIOUS
    <3>1. PICK n \in 1..L, d \in BOOLEAN : f = File(n, d)
        BY <1>10
    <3>2. PICK m \in 1..L, c \in BOOLEAN : g = File(m, c)
        BY <1>10
    <3>3. n = m /\ d = c
        BY <1>12, <3>1, <3>2 DEF SameName
    <3>4. QED
        BY <3>1, <3>2, <3>3
  <2>3. IsFiniteSet(Elems(e))
      BY <1>9, ElemsFinite
  <2>4. QED
      BY <2>1, <2>2, <2>3 DEF NamesOK
<1>15. \A f \in Elems(e) : f.res \in DOMAIN s /\ f.refs = s[f.res]
    BY <1>5, <1>10, <1>12
<1>16. \A f, g \in Elems(e) : f.res = g.res => f.n = g.n
  <2> SUFFICES ASSUME NEW f \in Elems(e), NEW g \in Elems(e), f.res = g.res PROVE f.n = g.n
      OBVIOUS
  <2>1. PICK n \in 1..L, d \in BOOLEAN : f = File(n, d)
      BY <1>10
  <2>2. PICK m \in 1..L, c \in BOOLEAN : g = File(m, c)
      BY <1>10
  <2>3. f.n = n /\ g.n = m /\ o[n] = o[m]
      BY <1>12, <2>1, <2>2
  <2>4. QED
      BY <1>1, <2>3
<1>17. ASSUME NEW r \in DOMAIN s PROVE \E f \in Elems(e) : f.res = r /\ ~f.down
  <2>1. PICK n \in 1..L : o[n] = r
      BY <1>1
  <2>2. File(n, FALSE).res = r /\ ~File(n, FALSE).down
      BY <1>12, <2>1
  <2>3. QED
      BY <1>11, <2>2
<1>18. ASSUME NEW f \in Elems(e), NEW t \in s[f.res] \ {f.res}, ~BehindCycle(s, f.res)
       PROVE  \E g \in Elems(e) : g.res = t /\ ~g.down /\ NameBefore(g, f)
  <2>1. PICK n \in 1..L, d \in BOOLEAN : f = File(n, d)
      BY <1>10
  <2>2. f.n = n /\ f.res = o[n]
      BY <1>12, <2>1
  <2>3. n \in DOMAIN o
      BY <1>1 DEF L
  <2>4. PICK j \in 1..(n - 1) : o[j] = t
      BY <1>3, <1>18, <2>2, <2>3
  <2>5. j \in 1..L /\ j < n
      BY <1>1, <2>4
  <2>6. PICK g \in Elems(e) : g = File(j, FALSE)
      BY <1>11, <2>5
  <2>7. g.n = j /\ g.res = t /\ ~g.down
      BY <1>12, <2>4, <2>5, <2>6
  <2>8. NameBefore(g, f)
      BY <2>2, <2>5, <2>7 DEF NameBefore
  <2>9. QED
      BY <2>7, <2>8
<1>19. QED
    BY <1>9, <1>13, <1>14, <1>15, <1>16, <1>17, <1>18 DEF e
-----------------------------------------------------------------------------
(***************************************************************************)
(* The values of what generate and db:migrate work on.                     *)
(***************************************************************************)
TableType == [exists : BOOLEAN, refs : SUBSET Resources, cols : SUBSET Versions]
GenType == [pc : {"idle", "write"}, todo : Seq(FileType), of : Schemas]
DeployType == [pc : {"idle", "run"}, glob : Seq(FileType), clean : BOOLEAN,
               created : SUBSET Resources]

FilesOK ==
    /\ SchemaOK
    /\ NamesOK(dir)
    /\ gen \in GenType
    /\ deploy \in DeployType
    /\ tables \in [Resources -> TableType]

\* What a run of "lazuli migrate" leaves to the other programs: all of the
\* files, and of a table all but its columns.
ColumnsOnly ==
    /\ UNCHANGED <<schema, dir, gen, deploy>>
    /\ tables' \in [Resources -> TableType]
    /\ \A r \in Resources : /\ tables'[r].exists = tables[r].exists
                            /\ tables'[r].refs = tables[r].refs

LEMMA FilesActions ==
    ASSUME RunsOK, FilesOK, [Next]_vars
    PROVE  \/ ColumnsOnly
           \/ EditSchema /\ UNCHANGED <<dir, gen, deploy, tables>>
           \/ GenerateClean \/ GenerateWrite \/ GenerateDone \/ GenerateCrash
           \/ DeployStart \/ DeployFile \/ DeployDone \/ DeployCrash
<1>1. ASSUME UNCHANGED <<schema, dir, gen, deploy, tables>> PROVE ColumnsOnly
    BY <1>1 DEF ColumnsOnly, FilesOK
<1>2. CASE UNCHANGED vars
    BY <1>1, <1>2 DEF vars, authored, database
<1>3. CASE EditSchema
    BY <1>3 DEF EditSchema, Author, database
<1>4. ASSUME NEW v \in Versions, EditManual(v) PROVE ColumnsOnly
    BY <1>1, <1>4 DEF EditManual, Author, database
<1>5. ASSUME NEW i \in Runners, RunScript(i) PROVE ColumnsOnly
  <2> DEFINE v == Head(runs[i].todo)
             op == runs[i].op
             r == TableOf[v]
             cols == IF op = "up" THEN tables[r].cols \cup {v} ELSE tables[r].cols \ {v}
  <2>1. UNCHANGED <<schema, dir, gen, deploy>>
      BY <1>5 DEF RunScript, authored
  <2>2. v \in Versions
      BY <1>5, ScriptEffect, RunParts
  <2>3. CASE UNCHANGED tables
      BY <1>1, <2>1, <2>3
  <2>4. CASE tables' = Altered(op, v)
    <3>1. tables' = [tables EXCEPT ![r].cols = cols]
        BY <2>4 DEF Altered
    <3>2. r \in Resources
        BY <2>2, MigrationsAssumption
    <3>3. tables \in [Resources -> TableType]
        BY DEF FilesOK
    <3>4. cols \in SUBSET Versions
      <4>1. tables[r].cols \in SUBSET Versions
          BY <3>2, <3>3 DEF TableType
      <4>2. QED
          BY <2>2, <4>1
    <3> HIDE DEF cols, r
    <3>5. tables' \in [Resources -> TableType]
        BY <3>1, <3>2, <3>3, <3>4 DEF TableType
    <3>6. \A q \in Resources : /\ tables'[q].exists = tables[q].exists
                               /\ tables'[q].refs = tables[q].refs
        BY <3>1, <3>2, <3>3 DEF TableType
    <3>7. QED
        BY <2>1, <3>5, <3>6 DEF ColumnsOnly
  <2>5. QED
      BY <1>5, <2>3, <2>4, ScriptEffect
<1>6. ASSUME NEW i \in Runners, Run(i) PROVE ColumnsOnly
  <2>1. CASE RunScript(i)
      BY <1>5, <2>1
  <2>2. CASE \E v \in Versions \cup {0} : Start(i, "up", v)
      BY <1>1, <2>2 DEF Start, authored, database
  <2>3. CASE \E n \in 1..Cardinality(Versions) : Start(i, "down", n)
      BY <1>1, <2>3 DEF Start, authored, database
  <2>4. CASE ReadLedger(i)
      BY <1>1, <2>4 DEF ReadLedger, authored, database
  <2>5. CASE WriteLedger(i)
      BY <1>1, <2>5 DEF WriteLedger, authored
  <2>6. CASE RunCrash(i)
      BY <1>1, <2>6 DEF RunCrash, authored, database
  <2>7. QED
      BY <1>6, <2>1, <2>2, <2>3, <2>4, <2>5, <2>6 DEF Run
<1>7. QED
    BY <1>2, <1>3, <1>4, <1>6 DEF Next, Generator, Deployer

\* db:migrate ends where the file is gone; otherwise psql runs what the file
\* of that name now says.
LEMMA DeployFileEffect ==
    ASSUME FilesOK, DeployFile
    PROVE  /\ UNCHANGED <<schema, dir, gen>> /\ deploy.pc = "run" /\ deploy.glob # <<>>
           /\ \/ deploy' = NoDeploy /\ UNCHANGED tables
              \/ \E f \in dir : /\ SameName(f, Head(deploy.glob))
                                /\ IF f.down THEN DropTable(f) ELSE CreateTable(f)
<1> DEFINE now == {f \in dir : SameName(f, Head(deploy.glob))}
<1>1. UNCHANGED <<schema, dir, gen>> /\ deploy.pc = "run" /\ deploy.glob # <<>>
    BY DEF DeployFile, authored
<1>2. CASE now = {}
    BY <1>1, <1>2 DEF DeployFile
<1>3. CASE now # {}
  <2>1. PICK f : f = CHOOSE g \in now : TRUE
      OBVIOUS
  <2>2. f \in now
      BY <1>3, <2>1
  <2>3. IF f.down THEN DropTable(f) ELSE CreateTable(f)
      BY <1>3, <2>1 DEF DeployFile
  <2>4. QED
      BY <1>1, <2>2, <2>3
<1>4. QED
    BY <1>2, <1>3

LEMMA NoGenOK == NoGen \in GenType /\ NoDeploy \in DeployType /\ NoTable \in TableType
<1>1. <<>> \in Schemas
  <2>1. <<>> \in [{} -> SUBSET {}]
      OBVIOUS
  <2>2. QED
      BY <2>1, SchemasIntro
<1>2. QED
    BY <1>1 DEF NoGen, NoDeploy, NoTable, GenType, DeployType, TableType

LEMMA StepFilesOK ==
    ASSUME RunsOK, FilesOK, [Next]_vars
    PROVE  FilesOK'
<1> HIDE DEF FileType
<1>1. /\ schema \in Schemas /\ NamesOK(dir) /\ gen \in GenType /\ deploy \in DeployType
      /\ tables \in [Resources -> TableType]
    BY DEF FilesOK, SchemaOK
<1>2. SchemaOK'
    BY StepKeepsSchema DEF FilesOK
<1>3. CASE ColumnsOnly
    BY <1>1, <1>2, <1>3 DEF ColumnsOnly, FilesOK
<1>4. CASE EditSchema /\ UNCHANGED <<dir, gen, deploy, tables>>
    BY <1>1, <1>2, <1>4 DEF FilesOK
<1>5. Disturb(deploy) \in DeployType
    BY <1>1 DEF DeployType, Disturb
<1>6. ASSUME NEW d \in SUBSET dir PROVE NamesOK(d)
    BY <1>1, <1>6, FS_Subset DEF NamesOK
<1>7. CASE GenerateClean
  <2>1. dir' = {} /\ UNCHANGED tables /\ deploy' = Disturb(deploy)
        /\ gen' = [pc |-> "write", todo |-> Emitted(schema), of |-> schema]
      BY <1>7 DEF GenerateClean, database
  <2>2. Emitted(schema) \in Seq(FileType)
      BY <1>1, EmittedFiles
  <2>3. gen' \in GenType
      BY <1>1, <2>1, <2>2 DEF GenType
  <2>4. NamesOK(dir')
      BY <1>6, <2>1
  <2>5. QED
      BY <1>1, <1>2, <1>5, <2>1, <2>3, <2>4 DEF FilesOK
<1>8. CASE GenerateWrite
  <2> DEFINE h == Head(gen.todo)
             kept == {f \in dir : ~SameName(f, h)}
  <2>1. gen.todo # <<>> /\ dir' = kept \cup {h} /\ gen' = [gen EXCEPT !.todo = Tail(@)]
        /\ UNCHANGED <<deploy, tables>>
      BY <1>8 DEF GenerateWrite, database
  <2>2. gen.todo \in Seq(FileType)
      BY <1>1 DEF GenType
  <2>3. h \in FileType /\ Tail(gen.todo) \in Seq(FileType)
      BY <2>1, <2>2, FirstFile
  <2>4. gen' \in GenType
      BY <1>1, <2>1, <2>3 DEF GenType
  <2>5. NamesOK(kept)
      BY <1>6
  <2> HIDE DEF h
  <2>6. NamesOK(kept \cup {h})
    <3>1. IsFiniteSet(kept \cup {h})
        BY <2>5, FS_AddElement DEF NamesOK
    <3>2. \A f, g \in kept \cup {h} : SameName(f, g) => f = g
        BY <2>5 DEF NamesOK, SameName
    <3>3. QED
        BY <2>3, <2>5, <3>1, <3>2 DEF NamesOK
  <2>7. QED
      BY <1>1, <1>2, <2>1, <2>4, <2>6 DEF FilesOK
<1>9. CASE GenerateDone
    BY <1>1, <1>2, <1>9 DEF GenerateDone, FilesOK, GenType, database
<1>10. CASE GenerateCrash
  <2>1. gen' = NoGen /\ deploy' = Disturb(deploy) /\ UNCHANGED tables /\ dir' \in SUBSET dir
      BY <1>10 DEF GenerateCrash, database
  <2>2. QED
      BY <1>1, <1>2, <1>5, <1>6, <2>1, NoGenOK DEF FilesOK
<1>11. CASE DeployStart
  <2>1. /\ UNCHANGED <<dir, gen, tables>>
        /\ deploy' = [pc |-> "run", glob |-> SortedFiles(dir), created |-> {},
                      clean |-> gen.pc = "idle" /\ gen # NoGen]
      BY <1>11 DEF DeployStart, database
  <2>2. SortedFiles(dir) \in Seq(FileType)
    <3>1. SortedFiles(dir) \in Seq(dir) /\ dir \subseteq FileType
        BY <1>1, SortedFilesProperties DEF NamesOK
    <3>2. QED
        BY <3>1
  <2>3. (gen.pc = "idle" /\ gen # NoGen) \in BOOLEAN
      OBVIOUS
  <2>4. deploy' \in DeployType
      BY <2>1, <2>2, <2>3 DEF DeployType
  <2>5. QED
      BY <1>1, <1>2, <2>1, <2>4 DEF FilesOK
<1>12. CASE DeployFile
  <2>1. UNCHANGED <<dir, gen>> /\ deploy.glob # <<>>
      BY <1>12, DeployFileEffect
  <2>2. CASE deploy' = NoDeploy /\ UNCHANGED tables
      BY <1>1, <1>2, <2>1, <2>2, NoGenOK DEF FilesOK
  <2>3. ASSUME NEW f \in dir, IF f.down THEN DropTable(f) ELSE CreateTable(f) PROVE FilesOK'
    <3>1. f \in FileType /\ f.res \in Resources /\ f.refs \in SUBSET Resources
        BY <1>1, <2>3 DEF NamesOK, FileType
    <3>2. deploy.glob \in Seq(FileType)
        BY <1>1 DEF DeployType
    <3>3. Tail(deploy.glob) \in Seq(FileType)
        BY <2>1, <3>2, FirstFile
    <3>4. deploy' \in DeployType
      <4>1. \/ deploy' = [deploy EXCEPT !.glob = Tail(@)]
            \/ deploy' = [deploy EXCEPT !.glob = Tail(@), !.created = @ \cup {f.res}]
          BY <2>3 DEF DropTable, CreateTable
      <4>2. CASE deploy' = [deploy EXCEPT !.glob = Tail(@)]
          BY <1>1, <3>3, <4>2 DEF DeployType
      <4>3. CASE deploy' = [deploy EXCEPT !.glob = Tail(@), !.created = @ \cup {f.res}]
        <5>1. deploy.created \cup {f.res} \in SUBSET Resources
            BY <1>1, <3>1 DEF DeployType
        <5>2. deploy' = [deploy EXCEPT !.glob = Tail(deploy.glob),
                                       !.created = deploy.created \cup {f.res}]
            BY <4>3
        <5>3. QED
            BY <1>1, <3>3, <5>1, <5>2 DEF DeployType
      <4>4. QED
          BY <4>1, <4>2, <4>3
    <3>5. [exists |-> TRUE, refs |-> f.refs, cols |-> {}] \in TableType /\ NoTable \in TableType
        BY <3>1, NoGenOK DEF TableType
    <3>6. tables' \in [Resources -> TableType]
      <4>1. \/ UNCHANGED tables
            \/ tables' = [tables EXCEPT ![f.res] = NoTable]
            \/ tables' = [tables EXCEPT ![f.res] = [exists |-> TRUE, refs |-> f.refs, cols |-> {}]]
          BY <2>3 DEF DropTable, CreateTable
      <4> HIDE DEF TableType
      <4>2. QED
          BY <1>1, <3>1, <3>5, <4>1
    <3>7. QED
        BY <1>1, <1>2, <2>1, <3>4, <3>6 DEF FilesOK
  <2>4. QED
      BY <1>12, <2>2, <2>3, DeployFileEffect
<1>13. CASE DeployDone
    BY <1>1, <1>2, <1>13 DEF DeployDone, FilesOK, DeployType, database
<1>14. CASE DeployCrash
    BY <1>1, <1>2, <1>14, NoGenOK DEF DeployCrash, FilesOK, database
<1>15. QED
    BY <1>3, <1>4, <1>7, <1>8, <1>9, <1>10, <1>11, <1>12, <1>13, <1>14, FilesActions

LEMMA InitFilesOK == Init => FilesOK
<1> SUFFICES ASSUME Init PROVE FilesOK
    OBVIOUS
<1>1. /\ schema \in Schemas /\ dir = Range(Emitted(schema))
      /\ gen = [NoGen EXCEPT !.of = schema] /\ deploy = NoDeploy
    BY MigrationsAssumption DEF Init
<1>2. NamesOK(Files(schema)) /\ Emitted(schema) \in Seq(FileType)
    BY <1>1, EmittedFiles
<1>3. dir = Files(schema)
    BY <1>1, <1>2, RangeElems DEF Files
<1>4. gen \in GenType /\ deploy \in DeployType
    BY <1>1, NoGenOK DEF GenType
<1>5. tables \in [Resources -> TableType]
  <2>1. DOMAIN schema \in SUBSET Resources /\ schema \in [DOMAIN schema -> SUBSET DOMAIN schema]
      BY <1>1, SchemasAreSchemas DEF IsSchema
  <2>2. \A r \in DOMAIN schema : schema[r] \in SUBSET Resources
      BY <2>1
  <2>3. \A r \in DOMAIN schema : [exists |-> TRUE, refs |-> schema[r], cols |-> {}] \in TableType
      BY <2>2 DEF TableType
  <2> HIDE DEF TableType
  <2>4. CASE tables = [r \in Resources |-> NoTable]
      BY <2>4, NoGenOK
  <2>5. CASE tables = [r \in Resources |->
                        IF r \in DOMAIN schema
                        THEN [exists |-> TRUE, refs |-> schema[r], cols |-> {}] ELSE NoTable]
    <3>1. \A r \in Resources :
             (IF r \in DOMAIN schema
              THEN [exists |-> TRUE, refs |-> schema[r], cols |-> {}] ELSE NoTable) \in TableType
        BY <2>3, NoGenOK
    <3>2. QED
        BY <2>5, <3>1
  <2>6. QED
      BY <2>4, <2>5 DEF Init
<1>6. QED
    BY <1>1, <1>2, <1>3, <1>4, <1>5 DEF FilesOK, SchemaOK

(***************************************************************************)
(* The type invariant: of the files of the generated directory no two have *)
(* one name, and a run of "lazuli migrate" with work to do has a file.     *)
(***************************************************************************)
THEOREM TypeCorrect == Spec => []TypeOK
<1>1. Init => FilesOK
    BY InitFilesOK
<1>2. RunsOK /\ FilesOK /\ [Next]_vars => FilesOK'
    BY StepFilesOK
<1>3. RunsOK /\ FilesOK => TypeOK
  <2> SUFFICES ASSUME RunsOK, FilesOK PROVE TypeOK
      OBVIOUS
  <2> HIDE DEF FileType, RunType
  <2>1. manual \subseteq Versions /\ ledger \subseteq Versions
        /\ \A i \in Runners : runs[i] \in RunType /\ RunOK(runs[i])
      BY DEF RunsOK
  <2>2. \A i \in Runners : runs[i].pc \in {"script", "ledger"} => runs[i].todo # <<>>
      BY <2>1 DEF RunOK
  <2>3. /\ schema \in Schemas /\ dir \subseteq FileType
        /\ \A f, g \in dir : SameName(f, g) => f = g
        /\ tables \in [Resources -> TableType]
      BY DEF FilesOK, SchemaOK, NamesOK
  <2>4. gen.pc \in {"idle", "write"} /\ gen.todo \in Seq(FileType) /\ gen.of \in Schemas
      BY DEF FilesOK, GenType
  <2>5. /\ deploy.pc \in {"idle", "run"} /\ deploy.glob \in Seq(FileType)
        /\ deploy.clean \in BOOLEAN /\ deploy.created \subseteq Resources
      BY DEF FilesOK, DeployType
  <2>6. QED
      BY <2>1, <2>2, <2>3, <2>4, <2>5 DEF TypeOK, TableType
<1>4. QED
    BY <1>1, <1>2, <1>3, RunsAlwaysOK, PTL DEF Spec
-----------------------------------------------------------------------------
(***************************************************************************)
(* DeployCompletes.  Outside a generation the directory holds exactly what *)
(* codegen emitted, and a clean run of db:migrate works through it by name:*)
(* what is done comes before what is to do, its tables are there, and what *)
(* was created is as the schema has it.  A down file drops no table that   *)
(* is done, since the up file of its resource comes right after it; an up  *)
(* file finds the tables of its targets, whose files came before it.       *)
(***************************************************************************)
GenInv ==
    /\ gen.pc = "idle" /\ gen # NoGen => dir = Files(gen.of)
    /\ gen.pc = "write" => dir \cup Elems(gen.todo) = Files(gen.of)
    /\ deploy.clean => gen.pc = "idle" /\ gen # NoGen

Done == Files(gen.of) \ Elems(deploy.glob)

Split ==
    /\ Elems(deploy.glob) \subseteq Files(gen.of) /\ ByName(deploy.glob)
    /\ \A f \in Done, g \in Elems(deploy.glob) : NameBefore(f, g)

Deployed ==
    /\ \A f \in Done : ~f.down => tables[f.res].exists \/ BehindCycle(gen.of, f.res)
    /\ \A r \in deploy.created : /\ tables[r].refs = gen.of[r]
                                 /\ \E f \in Done : f.res = r /\ ~f.down

DeployInv ==
    /\ GenInv
    /\ deploy.clean /\ deploy.pc = "run" => Split /\ Deployed
    /\ DeployCompletes

LEMMA GenerateKeeps ==
    ASSUME FilesOK, DeployInv,
           GenerateClean \/ GenerateWrite \/ GenerateDone \/ GenerateCrash
    PROVE  DeployInv'
<1> HIDE DEF FileType
<1>1. gen \in GenType /\ deploy \in DeployType /\ schema \in Schemas /\ NamesOK(dir)
    BY DEF FilesOK, SchemaOK
<1>2. Disturb(deploy).clean = FALSE
    BY <1>1 DEF Disturb, DeployType
<1>3. CASE GenerateClean
  <2>1. dir' = {} /\ deploy' = Disturb(deploy)
        /\ gen' = [pc |-> "write", todo |-> Emitted(schema), of |-> schema]
      BY <1>3 DEF GenerateClean
  <2>2. gen'.pc = "write" /\ gen'.todo = Emitted(schema) /\ gen'.of = schema
      BY <2>1
  <2>3. dir' \cup Elems(gen'.todo) = Files(gen'.of)
      BY <2>1, <2>2 DEF Files
  <2>4. ~deploy'.clean
      BY <1>2, <2>1
  <2>5. QED
      BY <2>2, <2>3, <2>4 DEF DeployInv, GenInv, DeployCompletes
<1>4. ASSUME gen.pc = "write" PROVE ~deploy.clean /\ dir \cup Elems(gen.todo) = Files(gen.of)
    BY <1>4 DEF DeployInv, GenInv
<1>5. CASE GenerateWrite
  <2> DEFINE h == Head(gen.todo)
  <2>1. /\ gen.pc = "write" /\ gen.todo # <<>> /\ UNCHANGED deploy
        /\ dir' = {f \in dir : ~SameName(f, h)} \cup {h}
        /\ gen' = [gen EXCEPT !.todo = Tail(@)]
      BY <1>5 DEF GenerateWrite
  <2>2. gen.todo \in Seq(FileType) /\ gen.of \in Schemas
      BY <1>1 DEF GenType
  <2>3. Elems(gen.todo) = {h} \cup Elems(Tail(gen.todo))
      BY <2>1, <2>2, FirstFile
  <2>4. gen'.pc = "write" /\ gen'.todo = Tail(gen.todo) /\ gen'.of = gen.of
      BY <1>1, <2>1 DEF GenType
  <2>5. \A f, g \in Files(gen.of) : SameName(f, g) => f = g
      BY <2>2, EmittedFiles DEF NamesOK
  <2> HIDE DEF h
  <2>6. dir' = dir \cup {h}
      BY <1>4, <2>1, <2>3, <2>5
  <2>7. dir' \cup Elems(gen'.todo) = Files(gen'.of)
      BY <1>4, <2>1, <2>3, <2>4, <2>6
  <2>8. ~deploy'.clean
      BY <1>4, <2>1
  <2>9. QED
      BY <2>4, <2>7, <2>8 DEF DeployInv, GenInv, DeployCompletes
<1>6. CASE GenerateDone
  <2>1. gen.pc = "write" /\ gen.todo = <<>> /\ UNCHANGED <<dir, deploy>>
        /\ gen' = [gen EXCEPT !.pc = "idle"]
      BY <1>6 DEF GenerateDone
  <2>2. gen'.pc = "idle" /\ gen'.of = gen.of
      BY <1>1, <2>1 DEF GenType
  <2>3. Elems(gen.todo) = {}
      BY <2>1 DEF Elems
  <2>4. dir' = Files(gen'.of) /\ ~deploy'.clean
      BY <1>4, <2>1, <2>2, <2>3
  <2>5. QED
      BY <2>2, <2>4 DEF DeployInv, GenInv, DeployCompletes
<1>7. CASE GenerateCrash
  <2>1. gen' = NoGen /\ deploy' = Disturb(deploy)
      BY <1>7 DEF GenerateCrash
  <2>2. ~deploy'.clean /\ gen'.pc = "idle"
      BY <1>2, <2>1 DEF NoGen
  <2>3. QED
      BY <2>1, <2>2 DEF DeployInv, GenInv, DeployCompletes
<1>8. QED
    BY <1>3, <1>5, <1>6, <1>7

LEMMA DeployStartKeeps ==
    ASSUME FilesOK, DeployInv, DeployStart
    PROVE  DeployInv'
<1> HIDE DEF FileType
<1>1. /\ UNCHANGED <<dir, gen>>
      /\ deploy' = [pc |-> "run", glob |-> SortedFiles(dir), created |-> {},
                    clean |-> gen.pc = "idle" /\ gen # NoGen]
    BY DEF DeployStart
<1>2. deploy'.pc = "run" /\ deploy'.glob = SortedFiles(dir) /\ deploy'.created = {}
      /\ (deploy'.clean <=> gen.pc = "idle" /\ gen # NoGen)
    BY <1>1
<1>3. GenInv'
    BY <1>1, <1>2 DEF DeployInv, GenInv
<1>4. ASSUME deploy'.clean PROVE (Split /\ Deployed)'
  <2>1. dir = Files(gen'.of)
      BY <1>1, <1>2, <1>4 DEF DeployInv, GenInv
  <2>2. Elems(deploy'.glob) = dir /\ ByName(deploy'.glob)
      BY <1>2, SortedFilesProperties DEF FilesOK
  <2>3. Done' = {}
      BY <2>1, <2>2 DEF Done
  <2>4. QED
      BY <1>2, <2>1, <2>2, <2>3 DEF Split, Deployed
<1>5. DeployCompletes'
    BY <1>2 DEF DeployCompletes
<1>6. QED
    BY <1>3, <1>4, <1>5 DEF DeployInv

(***************************************************************************)
(* One file of a clean run.                                                *)
(***************************************************************************)
LEMMA CleanFileKeeps ==
    ASSUME FilesOK, DeployInv, deploy.clean, deploy.pc = "run", deploy.glob # <<>>,
           UNCHANGED <<dir, gen>>,
           NEW h, h = Head(deploy.glob), IF h.down THEN DropTable(h) ELSE CreateTable(h)
    PROVE  deploy'.clean /\ deploy'.pc = "run" /\ (Split /\ Deployed)'
<1> HIDE DEF FileType
<1> DEFINE E == Files(gen.of)
           s == gen.of
<1>1. /\ gen \in GenType /\ deploy \in DeployType /\ tables \in [Resources -> TableType]
    BY DEF FilesOK
<1>2. s \in Schemas /\ deploy.glob \in Seq(FileType)
    BY <1>1 DEF GenType, DeployType
<1>3. /\ E \subseteq FileType
      /\ \A f \in E : f.res \in DOMAIN s /\ f.refs = s[f.res]
      /\ \A f, g \in E : f.res = g.res => f.n = g.n
      /\ \A f \in E : \A t \in s[f.res] \ {f.res} :
            \/ BehindCycle(s, f.res)
            \/ \E g \in E : g.res = t /\ ~g.down /\ NameBefore(g, f)
    BY <1>2, EmittedFiles DEF NamesOK
<1>4. Split /\ Deployed
    BY DEF DeployInv
<1>5. /\ Elems(deploy.glob) = {h} \cup Elems(Tail(deploy.glob))
      /\ ByName(Tail(deploy.glob)) /\ \A f \in Elems(Tail(deploy.glob)) : NameBefore(h, f)
    BY <1>2, <1>4, FirstFile DEF Split
<1>6. h \in E /\ h \in FileType /\ h.res \in Resources /\ h.down \in BOOLEAN
    BY <1>3, <1>4, <1>5, FileFields DEF Split
<1>7. h \notin Elems(Tail(deploy.glob))
    BY <1>5, <1>6, NameOrder
<1>8. /\ deploy'.pc = "run" /\ deploy'.clean /\ deploy'.glob = Tail(deploy.glob)
      /\ deploy'.created \in {deploy.created, deploy.created \cup {h.res}}
      /\ h.down => deploy'.created = deploy.created
  <2>1. \/ deploy' = [deploy EXCEPT !.glob = Tail(@)]
        \/ deploy' = [deploy EXCEPT !.glob = Tail(@), !.created = @ \cup {h.res}] /\ ~h.down
      BY DEF DropTable, CreateTable
  <2>2. CASE deploy' = [deploy EXCEPT !.glob = Tail(@)]
      BY <1>1, <2>2 DEF DeployType
  <2>3. CASE deploy' = [deploy EXCEPT !.glob = Tail(@), !.created = @ \cup {h.res}] /\ ~h.down
      BY <1>1, <2>3 DEF DeployType
  <2>4. QED
      BY <2>1, <2>2, <2>3
<1>9. Done' = Done \cup {h}
    BY <1>4, <1>5, <1>6, <1>7, <1>8 DEF Done, Split
<1>10. Split'
  <2>1. Elems(deploy'.glob) \subseteq Files(gen'.of) /\ ByName(deploy'.glob)
      BY <1>4, <1>5, <1>8 DEF Split
  <2>2. \A f \in Done', g \in Elems(deploy'.glob) : NameBefore(f, g)
      BY <1>4, <1>5, <1>8, <1>9 DEF Split
  <2>3. QED
      BY <2>1, <2>2 DEF Split
\* The up files that are done are of other resources than h.
<1>11. ASSUME NEW f \in Done, ~f.down, h.down PROVE f.res # h.res
  <2>1. SUFFICES ASSUME f.res = h.res PROVE FALSE
      OBVIOUS
  <2>2. f \in E /\ f \in FileType
      BY <1>3 DEF Done
  <2>3. f.n = h.n
      BY <1>3, <1>6, <2>1, <2>2
  <2>4. NameBefore(h, f)
      BY <1>11, <2>1, <2>3 DEF NameBefore
  <2>5. NameBefore(f, h)
      BY <1>4, <1>5 DEF Split
  <2>6. QED
      BY <1>6, <2>2, <2>4, <2>5, NameOrder
\* The targets of an up file have their tables.
<1>12. ASSUME ~BehindCycle(s, h.res), NEW t \in h.refs \ {h.res} PROVE tables[t].exists
  <2>1. PICK g \in E : g.res = t /\ ~g.down /\ NameBefore(g, h)
      BY <1>3, <1>6, <1>12
  <2>2. g \in Done
    <3>1. g \in FileType /\ g # h /\ ~NameBefore(h, g)
        BY <1>3, <1>6, <2>1, NameOrder
    <3>2. g \notin Elems(deploy.glob)
        BY <1>5, <3>1
    <3>3. QED
        BY <3>2 DEF Done
  <2>3. tables[t].exists \/ BehindCycle(s, t)
      BY <1>4, <2>1, <2>2 DEF Deployed
  <2>4. ~BehindCycle(s, t)
      BY <1>3, <1>6, <1>12, ReferrerOfCycle
  <2>5. QED
      BY <2>3, <2>4
<1>13. Deployed'
  <2> DEFINE new == [exists |-> TRUE, refs |-> h.refs, cols |-> {}]
  <2>1. CASE h.down
    <3>1. UNCHANGED tables \/ tables' = [tables EXCEPT ![h.res] = NoTable]
        BY <2>1 DEF DropTable
    <3>2. \A r \in Resources : r # h.res => tables'[r] = tables[r]
        BY <1>1, <3>1
    <3>3. \A f \in Done : ~f.down => tables'[f.res] = tables[f.res]
      <4>1. \A f \in Done : f.res \in Resources
          BY <1>3, FileFields DEF Done
      <4>2. QED
          BY <1>11, <2>1, <3>2, <4>1
    <3>4. \A f \in Done' : ~f.down => tables'[f.res].exists \/ BehindCycle(gen'.of, f.res)
        BY <1>4, <1>9, <2>1, <3>3 DEF Deployed
    <3>5. ASSUME NEW r \in deploy'.created
          PROVE  tables'[r].refs = gen'.of[r] /\ \E f \in Done' : f.res = r /\ ~f.down
      <4>1. r \in deploy.created
          BY <1>8, <2>1
      <4>2. PICK f \in Done : f.res = r /\ ~f.down
          BY <1>4, <4>1 DEF Deployed
      <4>3. QED
          BY <1>4, <1>9, <3>3, <4>1, <4>2 DEF Deployed
    <3>6. QED
        BY <3>4, <3>5 DEF Deployed
  <2>2. CASE ~h.down
    <3>1. \/ /\ tables' = [tables EXCEPT ![h.res] = new]
             /\ deploy'.created = deploy.created \cup {h.res}
          \/ /\ UNCHANGED tables /\ deploy'.created = deploy.created
             /\ tables[h.res].exists \/ \E t \in h.refs \ {h.res} : ~tables[t].exists
      <4>1. CreateTable(h)
          BY <2>2
      <4>2. Targets([r \in {h.res} |-> h.refs], h.res) = h.refs \ {h.res}
          BY DEF Targets
      <4>3. CASE tables' = [tables EXCEPT ![h.res] = new]
                 /\ deploy' = [deploy EXCEPT !.glob = Tail(@), !.created = @ \cup {h.res}]
          BY <1>1, <4>3 DEF DeployType
      <4>4. CASE /\ UNCHANGED tables /\ deploy' = [deploy EXCEPT !.glob = Tail(@)]
                 /\ tables[h.res].exists \/ \E t \in h.refs \ {h.res} : ~tables[t].exists
          BY <1>1, <4>4 DEF DeployType
      <4>5. QED
          BY <4>1, <4>2, <4>3, <4>4 DEF CreateTable
    <3>2. CASE tables' = [tables EXCEPT ![h.res] = new]
               /\ deploy'.created = deploy.created \cup {h.res}
      <4>1. /\ tables'[h.res].exists /\ tables'[h.res].refs = h.refs
            /\ \A r \in Resources : r # h.res => tables'[r] = tables[r]
          BY <1>1, <1>6, <3>2
      <4>2. h.refs = gen'.of[h.res]
          BY <1>3, <1>6
      <4>3. \A f \in Done : f.res \in Resources
          BY <1>3, FileFields DEF Done
      <4>4. ASSUME NEW f \in Done', ~f.down
            PROVE  tables'[f.res].exists \/ BehindCycle(gen'.of, f.res)
        <5>1. CASE f.res = h.res
            BY <4>1, <5>1
        <5>2. CASE f.res # h.res
            BY <1>4, <1>9, <4>1, <4>3, <4>4, <5>2 DEF Deployed
        <5>3. QED
            BY <5>1, <5>2
      <4>5. ASSUME NEW r \in deploy'.created
            PROVE  tables'[r].refs = gen'.of[r] /\ \E f \in Done' : f.res = r /\ ~f.down
        <5>1. CASE r = h.res
            BY <1>9, <2>2, <4>1, <4>2, <5>1
        <5>2. CASE r # h.res
          <6>1. r \in deploy.created
              BY <3>2, <4>5, <5>2
          <6>2. PICK f \in Done : f.res = r /\ ~f.down
              BY <1>4, <6>1 DEF Deployed
          <6>3. r \in Resources
              BY <4>3, <6>2
          <6>4. QED
              BY <1>4, <1>9, <4>1, <5>2, <6>1, <6>2, <6>3 DEF Deployed
        <5>3. QED
            BY <5>1, <5>2
      <4>6. QED
          BY <4>4, <4>5 DEF Deployed
    <3>3. CASE /\ UNCHANGED tables /\ deploy'.created = deploy.created
               /\ tables[h.res].exists \/ \E t \in h.refs \ {h.res} : ~tables[t].exists
      <4>1. tables[h.res].exists \/ BehindCycle(s, h.res)
          BY <1>12, <3>3
      <4>2. QED
          BY <1>4, <1>9, <3>3, <4>1 DEF Deployed
    <3>4. QED
        BY <3>1, <3>2, <3>3
  <2>3. QED
      BY <1>6, <2>1, <2>2
<1>14. QED
    BY <1>8, <1>10, <1>13

LEMMA DeployFileKeeps ==
    ASSUME FilesOK, DeployInv, DeployFile
    PROVE  DeployInv'
<1> HIDE DEF FileType
<1>1. /\ UNCHANGED <<dir, gen>> /\ deploy.pc = "run" /\ deploy.glob # <<>>
      /\ \/ deploy' = NoDeploy /\ UNCHANGED tables
         \/ \E f \in dir : /\ SameName(f, Head(deploy.glob))
                           /\ IF f.down THEN DropTable(f) ELSE CreateTable(f)
    BY DeployFileEffect
<1>2. CASE deploy' = NoDeploy
  <2>1. ~deploy'.clean
      BY <1>2 DEF NoDeploy
  <2>2. QED
      BY <1>1, <2>1 DEF DeployInv, GenInv, DeployCompletes
<1>3. ASSUME NEW f \in dir, SameName(f, Head(deploy.glob)),
             IF f.down THEN DropTable(f) ELSE CreateTable(f)
      PROVE  DeployInv'
  <2>1. deploy \in DeployType /\ gen \in GenType
      BY DEF FilesOK
  <2>2. deploy'.clean = deploy.clean /\ deploy'.pc = "run"
    <3>1. \/ deploy' = [deploy EXCEPT !.glob = Tail(@)]
          \/ deploy' = [deploy EXCEPT !.glob = Tail(@), !.created = @ \cup {f.res}]
        BY <1>3 DEF DropTable, CreateTable
    <3>2. CASE deploy' = [deploy EXCEPT !.glob = Tail(@)]
        BY <1>1, <2>1, <3>2 DEF DeployType
    <3>3. CASE deploy' = [deploy EXCEPT !.glob = Tail(@), !.created = @ \cup {f.res}]
        BY <1>1, <2>1, <3>3 DEF DeployType
    <3>4. QED
        BY <3>1, <3>2, <3>3
  <2>3. GenInv'
      BY <1>1, <2>2 DEF DeployInv, GenInv
  <2>4. DeployCompletes'
      BY <2>2 DEF DeployCompletes
  <2>5. ASSUME deploy.clean PROVE (Split /\ Deployed)'
    <3>1. dir = Files(gen.of)
        BY <2>5 DEF DeployInv, GenInv
    <3>2. gen.of \in Schemas /\ deploy.glob \in Seq(FileType)
        BY <2>1 DEF GenType, DeployType
    <3>3. Head(deploy.glob) \in Files(gen.of)
      <4>1. Head(deploy.glob) \in Elems(deploy.glob)
          BY <1>1, <3>2, FirstFile
      <4>2. QED
          BY <1>1, <2>5, <4>1 DEF DeployInv, Split
    <3>4. f = Head(deploy.glob)
        BY <1>3, <3>1, <3>2, <3>3, EmittedFiles DEF NamesOK
    <3>5. QED
        BY <1>1, <1>3, <2>5, <3>4, CleanFileKeeps
  <2>6. QED
      BY <2>2, <2>3, <2>4, <2>5 DEF DeployInv
<1>4. QED
    BY <1>1, <1>2, <1>3

LEMMA DeployDoneKeeps ==
    ASSUME FilesOK, DeployInv, DeployDone
    PROVE  DeployInv'
<1> HIDE DEF FileType
<1>1. deploy \in DeployType /\ gen \in GenType
    BY DEF FilesOK
<1>2. /\ deploy.pc = "run" /\ deploy.glob = <<>> /\ UNCHANGED <<dir, gen, tables>>
      /\ deploy' = [deploy EXCEPT !.pc = "idle"]
    BY DEF DeployDone, database
<1>3. deploy'.pc = "idle" /\ deploy'.clean = deploy.clean /\ deploy'.created = deploy.created
    BY <1>1, <1>2 DEF DeployType
<1>4. GenInv'
    BY <1>2, <1>3 DEF DeployInv, GenInv
<1>5. ASSUME deploy.clean PROVE DeployCompletes'
  <2>1. Deployed
      BY <1>2, <1>5 DEF DeployInv
  <2>2. Done = Files(gen.of)
    <3>1. Elems(deploy.glob) = {}
        BY <1>2 DEF Elems
    <3>2. QED
        BY <3>1 DEF Done
  <2>3. \A r \in DOMAIN gen.of : \E f \in Files(gen.of) : f.res = r /\ ~f.down
      BY <1>1, EmittedFiles DEF GenType
  <2>4. \A r \in DOMAIN gen.of : /\ tables[r].exists \/ BehindCycle(gen.of, r)
                                 /\ r \in deploy.created => tables[r].refs = gen.of[r]
      BY <2>1, <2>2, <2>3 DEF Deployed
  <2>5. QED
      BY <1>2, <1>3, <2>4 DEF DeployCompletes
<1>6. QED
    BY <1>3, <1>4, <1>5 DEF DeployInv, DeployCompletes

LEMMA StepDeployInv ==
    ASSUME RunsOK, FilesOK, DeployInv, [Next]_vars
    PROVE  DeployInv'
<1>1. CASE ColumnsOnly
  <2>1. /\ UNCHANGED <<dir, gen, deploy>>
        /\ \A r \in Resources : /\ tables'[r].exists = tables[r].exists
                                /\ tables'[r].refs = tables[r].refs
      BY <1>1 DEF ColumnsOnly
  <2>2. gen.of \in Schemas /\ deploy.created \in SUBSET Resources
      BY DEF FilesOK, GenType, DeployType
  <2>3. DOMAIN gen.of \in SUBSET Resources /\ Files(gen.of) \subseteq FileType
      BY <2>2, SchemasAreSchemas, EmittedFiles DEF NamesOK
  <2>4. GenInv'
      BY <2>1 DEF DeployInv, GenInv
  <2>5. DeployCompletes'
    <3>1. DeployCompletes
        BY DEF DeployInv
    <3>2. QED
        BY <2>1, <2>3, <3>1 DEF DeployCompletes
  <2>6. Split => Split'
      BY <2>1 DEF Split, Done
  <2>7. Deployed => Deployed'
    <3>1. \A f \in Done : f.res \in Resources
        BY <2>3, FileFields DEF Done
    <3>2. Done' = Done
        BY <2>1 DEF Done
    <3>3. QED
        BY <2>1, <2>2, <3>1, <3>2 DEF Deployed
  <2>8. QED
      BY <2>1, <2>4, <2>5, <2>6, <2>7 DEF DeployInv
<1>2. CASE EditSchema /\ UNCHANGED <<dir, gen, deploy, tables>>
    BY <1>2 DEF DeployInv, GenInv, Split, Deployed, Done, DeployCompletes
<1>3. CASE GenerateClean \/ GenerateWrite \/ GenerateDone \/ GenerateCrash
    BY <1>3, GenerateKeeps
<1>4. CASE DeployStart
    BY <1>4, DeployStartKeeps
<1>5. CASE DeployFile
    BY <1>5, DeployFileKeeps
<1>6. CASE DeployDone
    BY <1>6, DeployDoneKeeps
<1>7. CASE DeployCrash
  <2>1. deploy' = NoDeploy /\ UNCHANGED <<dir, gen>>
      BY <1>7 DEF DeployCrash
  <2>2. ~deploy'.clean
      BY <2>1 DEF NoDeploy
  <2>3. QED
      BY <2>1, <2>2 DEF DeployInv, GenInv, DeployCompletes
<1>8. QED
    BY <1>1, <1>2, <1>3, <1>4, <1>5, <1>6, <1>7, FilesActions

(***************************************************************************)
(* A run of db:migrate over a whole generation leaves a table for every    *)
(* resource that does not lead into a cycle, and every table it created as *)
(* the schema has it, whatever it found in the database.                   *)
(***************************************************************************)
THEOREM CleanDeployCompletes == Spec => []DeployCompletes
<1>1. Init => DeployInv
  <2> SUFFICES ASSUME Init PROVE DeployInv
      OBVIOUS
  <2>1. /\ schema \in Schemas /\ dir = Range(Emitted(schema))
        /\ gen = [NoGen EXCEPT !.of = schema] /\ deploy = NoDeploy
      BY MigrationsAssumption DEF Init
  <2>2. ~deploy.clean /\ gen.pc = "idle" /\ gen.of = schema
      BY <2>1 DEF NoGen, NoDeploy
  <2>3. dir = Files(gen.of)
    <3>1. Emitted(schema) \in Seq(FileType)
        BY <2>1, EmittedFiles
    <3>2. QED
        BY <2>1, <2>2, <3>1, RangeElems DEF Files
  <2>4. QED
      BY <2>2, <2>3 DEF DeployInv, GenInv, DeployCompletes
<1>2. RunsOK /\ FilesOK /\ DeployInv /\ [Next]_vars => DeployInv'
    BY StepDeployInv
<1>3. DeployInv => DeployCompletes
    BY DEF DeployInv
<1>4. Init => FilesOK
    BY InitFilesOK
<1>5. RunsOK /\ FilesOK /\ [Next]_vars => FilesOK'
    BY StepFilesOK
<1>6. QED
    BY <1>1, <1>2, <1>3, <1>4, <1>5, RunsAlwaysOK, PTL DEF Spec
=============================================================================
