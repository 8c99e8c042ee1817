------------------------- MODULE RateLimiterProofs -------------------------
(***************************************************************************)
(* Proofs about the rate limit store, for any buckets, limits, windows and *)
(* idle times and any number of concurrent calls.                          *)
(***************************************************************************)
EXTENDS RateLimiter, FiniteSetTheorems, TLAPS

LEMMA Times ==
    ASSUME NEW a \in Int, NEW b \in Int, NEW c \in Int, a <= b, c >= 0
    PROVE  a * c <= b * c
<1>1. (b - a) * c >= 0
    OBVIOUS
<1>2. (b - a) * c = b * c - a * c
    OBVIOUS
<1>3. a * c \in Int /\ b * c \in Int
    OBVIOUS
<1>4. QED
    BY <1>1, <1>2, <1>3

LEMMA ProductType ==
    ASSUME NEW a \in Nat, NEW b \in Nat
    PROVE  a * b \in Nat /\ (a = 0 => a * b = 0)
    OBVIOUS

LEMMA Euclid ==
    ASSUME NEW a \in Nat, NEW b \in Nat \ {0}
    PROVE  /\ a \div b \in Nat /\ a % b \in Nat
           /\ a = (a \div b) * b + (a % b)
           /\ a % b < b
<1>1. a \div b \in Int /\ a % b \in 0..(b - 1) /\ a = b * (a \div b) + (a % b)
    OBVIOUS
<1>2. b * (a \div b) = (a \div b) * b
    BY <1>1
<1>3. a \div b >= 0
  <2> SUFFICES ASSUME a \div b <= -1 PROVE FALSE
      BY <1>1
  <2>1. (a \div b) * b <= (-1) * b
      BY <1>1, Times
  <2>2. QED
      BY <1>1, <1>2, <2>1
<1>4. QED
    BY <1>1, <1>2, <1>3

(***************************************************************************)
(* The bound on a product carries over to the quotient.                    *)
(***************************************************************************)
LEMMA Quotient ==
    ASSUME NEW n \in Nat, NEW l \in Nat, NEW r \in Nat \ {0}, NEW d \in Nat,
           n * r <= l * r + d
    PROVE  n <= l + d \div r
<1> DEFINE q == d \div r
           m == d % r
<1>1. q \in Nat /\ m \in Nat /\ d = q * r + m /\ m < r
    BY Euclid
<1> HIDE DEF q, m
<1>2. SUFFICES ASSUME n >= l + q + 1 PROVE FALSE
    BY <1>1 DEF q
<1>3. (l + q + 1) * r <= n * r
    BY <1>1, <1>2, Times
<1>4. (l + q + 1) * r = l * r + q * r + r
    BY <1>1
<1>5. l * r \in Nat /\ q * r \in Nat /\ n * r \in Nat
    BY <1>1
<1>6. QED
    BY <1>1, <1>3, <1>4, <1>5

(***************************************************************************)
(* A token is worth a positive time, and Limit tokens fill the window.     *)
(***************************************************************************)
LEMMA RefillBounds ==
    ASSUME NEW b \in Buckets
    PROVE  /\ Refill(b) \in Nat \ {0}
           /\ Limit[b] * Refill(b) = Window[b]
           /\ Refill(b) <= Window[b]
           /\ Window[b] \in Nat \ {0} /\ Limit[b] \in Nat \ {0}
<1> DEFINE w == Window[b]
           l == Limit[b]
           q == w \div l
<1>1. w \in Nat \ {0} /\ l \in Nat \ {0} /\ l <= w /\ w % l = 0
    BY RateLimiterAssumption
<1>2. Refill(b) = q
    BY DEF Refill
<1> HIDE DEF w, l
<1>3. q \in Nat /\ w = q * l
  <2>1. w \div l \in Nat /\ w = (w \div l) * l + (w % l)
      BY <1>1, Euclid
  <2>2. (w \div l) * l \in Int
      BY <1>1, <2>1
  <2>3. QED
      BY <1>1, <2>1, <2>2
<1> HIDE DEF q
<1>4. q # 0
    BY <1>1, <1>3
<1>5. q * 1 <= q * l
    BY <1>1, <1>3
<1>6. q * l = l * q
    BY <1>1, <1>3
<1>7. QED
    BY <1>1, <1>2, <1>3, <1>4, <1>5, <1>6 DEF w, l
-----------------------------------------------------------------------------
LEMMA NextIsAction ==
    ASSUME [Next]_vars
    PROVE  \/ Tick \/ UNCHANGED vars
           \/ \E c \in Callers : \/ \E b \in Buckets : ReadClock(c, b)
                                 \/ Admit(c) \/ Refuse(c)
    BY DEF Next

LEMMA SomeBucket == (CHOOSE b \in Buckets : TRUE) \in Buckets
    BY RateLimiterAssumption

LEMMA InitTypeOK == Init => TypeOK
    BY RefillBounds, SomeBucket DEF Init, TypeOK

(***************************************************************************)
(* What advance returns: never more than the burst, at most what has       *)
(* refilled since the bucket was last seen, and never less than it had.    *)
(***************************************************************************)
Later(b, t) == IF t < lastSeen[b] THEN 0 ELSE t - lastSeen[b]

LEMMA TokensBounds ==
    ASSUME TypeOK, NEW b \in Buckets, NEW t \in Nat
    PROVE  /\ Tokens(b, t) \in Nat
           /\ Tokens(b, t) <= Window[b]
           /\ Later(b, t) \in Nat
           /\ b \in limiters => Tokens(b, t) <= level[b] + Later(b, t)
           /\ b \in limiters => \/ Tokens(b, t) = Window[b]
                                \/ Tokens(b, t) = level[b] + Later(b, t)
           /\ b \notin limiters => Tokens(b, t) = Window[b]
<1>1. level[b] \in Nat /\ lastSeen[b] \in Nat /\ Window[b] \in Nat
    BY RefillBounds DEF TypeOK
<1>2. Later(b, t) \in Nat
    BY <1>1 DEF Later
<1>3. Tokens(b, t) = IF b \notin limiters \/ level[b] + Later(b, t) > Window[b]
                     THEN Window[b] ELSE level[b] + Later(b, t)
    BY DEF Tokens, Later
<1> HIDE DEF Later
<1>4. QED
    BY <1>1, <1>2, <1>3

(***************************************************************************)
(* What both outcomes of Allow do to the bucket and the call.              *)
(***************************************************************************)
LEMMA EnterTypeOK ==
    ASSUME TypeOK, NEW c \in Callers, NEW b \in Buckets, NEW tokens \in Nat,
           tokens <= Window[b], at[c] # 0, Enter(c, b, tokens)
    PROVE  /\ now' = now /\ now \in Nat \ {0} /\ at[c] \in 1..now
           /\ level' \in [Buckets -> Nat]
           /\ \A x \in Buckets : level'[x] = IF x = b THEN tokens ELSE level[x]
           /\ \A x \in Buckets : level'[x] <= Window[x]
           /\ lastSeen' \in [Buckets -> Nat]
           /\ \A x \in Buckets : lastSeen'[x] = IF x = b THEN at[c] ELSE lastSeen[x]
           /\ \A x \in Buckets : lastSeen'[x] <= now
           /\ at' \in [Callers -> 0..now]
           /\ target' \in [Callers -> Buckets]
           /\ late' \in [Buckets -> Nat]
           /\ \A x \in Buckets : late'[x] = IF x = b THEN late[b] + (now - at[c]) ELSE late[x]
<1>1. now' = now /\ now \in Nat \ {0} /\ at[c] \in 1..now
    BY DEF TypeOK, Enter
<1>2. /\ level' \in [Buckets -> Nat]
      /\ \A x \in Buckets : level'[x] = IF x = b THEN tokens ELSE level[x]
    BY DEF TypeOK, Enter
<1>3. \A x \in Buckets : level'[x] <= Window[x]
    BY <1>2 DEF TypeOK
<1>4. /\ lastSeen' \in [Buckets -> Nat]
      /\ \A x \in Buckets : lastSeen'[x] = IF x = b THEN at[c] ELSE lastSeen[x]
    BY <1>1 DEF TypeOK, Enter
<1>5. \A x \in Buckets : lastSeen'[x] <= now
    BY <1>1, <1>4 DEF TypeOK
<1>6. at' \in [Callers -> 0..now]
    BY <1>1 DEF TypeOK, Enter
<1>7. target' \in [Callers -> Buckets]
    BY SomeBucket DEF TypeOK, Enter
<1>8. /\ late' \in [Buckets -> Nat]
      /\ \A x \in Buckets : late'[x] = IF x = b THEN late[b] + (now - at[c]) ELSE late[x]
    BY <1>1 DEF TypeOK, Enter
<1>9. QED
    BY <1>1, <1>2, <1>3, <1>4, <1>5, <1>6, <1>7, <1>8

(***************************************************************************)
(* A call in the mutex, whichever way it ends.                             *)
(***************************************************************************)
LEMMA CallParts ==
    ASSUME TypeOK, NEW c \in Callers, Admit(c) \/ Refuse(c)
    PROVE  /\ target[c] \in Buckets
           /\ at[c] # 0 /\ at[c] \in Nat
           /\ Tokens(target[c], at[c]) \in Nat
           /\ Tokens(target[c], at[c]) <= Window[target[c]]
<1>1. target[c] \in Buckets /\ at[c] # 0 /\ at[c] \in Nat
    BY DEF TypeOK, Admit, Refuse
<1>2. QED
    BY <1>1, TokensBounds

LEMMA AdmitParts ==
    ASSUME TypeOK, NEW c \in Callers, Admit(c)
    PROVE  /\ Tokens(target[c], at[c]) - Refill(target[c]) \in Nat
           /\ Tokens(target[c], at[c]) - Refill(target[c]) <= Window[target[c]]
           /\ Enter(c, target[c], Tokens(target[c], at[c]) - Refill(target[c]))
<1>1. Tokens(target[c], at[c]) >= Refill(target[c])
    BY DEF Admit
<1>2. Refill(target[c]) \in Nat /\ Window[target[c]] \in Nat
    BY CallParts, RefillBounds
<1>3. Enter(c, target[c], Tokens(target[c], at[c]) - Refill(target[c]))
    BY DEF Admit
<1>4. QED
    BY <1>1, <1>2, <1>3, CallParts

(***************************************************************************)
(* The history is a finite set of numbered admissions, none in the future, *)
(* so that every admission adds a new element.                             *)
(***************************************************************************)
HistoryInv ==
    \A b \in Buckets :
        /\ IsFiniteSet(admitted[b])
        /\ \A x \in admitted[b] : x[1] <= now /\ x[2] <= Cardinality(admitted[b])

\* The element the next admission of b adds.
NewElement(b) == <<now, Cardinality(admitted[b]) + 1>>

LEMMA NewAdmission ==
    ASSUME TypeOK, HistoryInv, NEW c \in Callers, Admit(c)
    PROVE  LET b == target[c] IN
           /\ Cardinality(admitted[b]) \in Nat
           /\ NewElement(b) \in Nat \X Nat
           /\ NewElement(b) \notin admitted[b]
           /\ admitted' = [admitted EXCEPT ![b] = @ \cup {NewElement(b)}]
           /\ admitted'[b] = admitted[b] \cup {NewElement(b)}
           /\ \A x \in Buckets \ {b} : admitted'[x] = admitted[x]
<1> DEFINE b == target[c]
           n == Cardinality(admitted[b])
<1>1. b \in Buckets
    BY CallParts
<1>2. n \in Nat
    BY <1>1, FS_CardinalityType DEF HistoryInv
<1>3. NewElement(b) \in Nat \X Nat
    BY <1>2 DEF NewElement, TypeOK
<1>4. \A x \in admitted[b] : x \in Nat \X Nat /\ x[2] <= n
    BY <1>1 DEF HistoryInv, TypeOK
<1>5. NewElement(b)[2] = n + 1
    BY DEF NewElement
<1>6. NewElement(b) \notin admitted[b]
  <2> HIDE DEF n
  <2>1. QED
      BY <1>2, <1>4, <1>5
<1>7. admitted' = [admitted EXCEPT ![b] = @ \cup {NewElement(b)}]
    BY DEF Admit, NewElement
<1>8. QED
  <2> HIDE DEF NewElement
  <2>1. QED
      BY <1>1, <1>2, <1>3, <1>6, <1>7 DEF TypeOK

LEMMA StepHistory ==
    ASSUME TypeOK, HistoryInv, [Next]_vars
    PROVE  HistoryInv'
<1>1. CASE now' \in Nat /\ now <= now' /\ UNCHANGED admitted
    BY <1>1 DEF HistoryInv, TypeOK
<1>2. CASE \/ Tick \/ UNCHANGED vars
           \/ \E c \in Callers : Refuse(c) \/ \E b \in Buckets : ReadClock(c, b)
  <2>1. now \in Nat /\ (now' = now \/ now' = now + 1) /\ UNCHANGED admitted
      BY <1>2 DEF Tick, vars, Refuse, Enter, ReadClock, TypeOK
  <2>2. QED
      BY <2>1, <1>1
<1>3. ASSUME NEW c \in Callers, Admit(c) PROVE HistoryInv'
  <2> DEFINE b == target[c]
             e == NewElement(b)
             n == Cardinality(admitted[b])
  <2>1. b \in Buckets /\ now' = now /\ now \in Nat
      BY <1>3, CallParts DEF Admit, Enter, TypeOK
  <2>2. /\ n \in Nat /\ e \notin admitted[b]
        /\ admitted'[b] = admitted[b] \cup {e}
        /\ \A x \in Buckets \ {b} : admitted'[x] = admitted[x]
      BY <1>3, NewAdmission
  <2>3. e[1] = now /\ e[2] = n + 1
      BY DEF NewElement
  <2>4. /\ IsFiniteSet(admitted[b])
        /\ \A x \in admitted[b] : x[1] <= now /\ x[2] \in Nat /\ x[2] <= n
      BY <2>1 DEF HistoryInv, TypeOK
  <2> HIDE DEF e
  <2>5. IsFiniteSet(admitted'[b]) /\ Cardinality(admitted'[b]) = n + 1
      BY <2>2, <2>4, FS_AddElement
  <2> HIDE DEF n, b
  <2>6. \A x \in admitted'[b] : x[1] <= now' /\ x[2] <= Cardinality(admitted'[b])
    <3> SUFFICES ASSUME NEW x \in admitted'[b]
                 PROVE  x[1] <= now /\ x[2] <= n + 1
        BY <2>1, <2>5
    <3>1. CASE x = e
        BY <3>1, <2>1, <2>2, <2>3
    <3>2. CASE x # e
      <4>1. x \in admitted[b]
          BY <3>2, <2>2
      <4>2. QED
          BY <4>1, <2>2, <2>4
    <3>3. QED
        BY <3>1, <3>2
  <2>7. QED
      BY <2>1, <2>2, <2>5, <2>6 DEF HistoryInv
<1>4. QED
    BY <1>2, <1>3, NextIsAction

LEMMA StepTypeOK ==
    ASSUME TypeOK, HistoryInv, [Next]_vars
    PROVE  TypeOK'
<1>1. CASE Tick \/ UNCHANGED vars
  <2>1. CASE UNCHANGED vars
      BY <2>1 DEF vars, TypeOK
  <2>2. CASE Tick
    <3>1. now' = now + 1 /\ now \in Nat \ {0}
        BY <2>2 DEF Tick, TypeOK
    <3>2. 0..now \subseteq 0..now'
        BY <3>1
    <3>3. lastGC' \in 0..now' /\ at' \in [Callers -> 0..now']
        BY <2>2, <3>2 DEF Tick, TypeOK
    <3>4. \A b \in Buckets : lastSeen'[b] <= now'
        BY <2>2, <3>1 DEF Tick, TypeOK
    <3>5. QED
        BY <2>2, <3>1, <3>3, <3>4 DEF Tick, TypeOK
  <2>3. QED
      BY <1>1, <2>1, <2>2
<1>2. ASSUME NEW c \in Callers, NEW b \in Buckets, ReadClock(c, b) PROVE TypeOK'
  <2>1. now \in 0..now
      BY DEF TypeOK
  <2>2. at' \in [Callers -> 0..now] /\ target' \in [Callers -> Buckets]
      BY <1>2, <2>1 DEF ReadClock, TypeOK
  <2>3. QED
      BY <1>2, <2>2 DEF ReadClock, TypeOK
<1>3. ASSUME NEW c \in Callers, Admit(c) PROVE TypeOK'
  <2> DEFINE b == target[c]
             tokens == Tokens(b, at[c]) - Refill(b)
  <2>1. b \in Buckets /\ at[c] # 0 /\ tokens \in Nat /\ tokens <= Window[b]
        /\ Enter(c, b, tokens)
      BY <1>3, CallParts, AdmitParts
  <2>2. /\ now' = now /\ now \in Nat \ {0} /\ at[c] \in 1..now
        /\ level' \in [Buckets -> Nat]
        /\ \A x \in Buckets : level'[x] <= Window[x]
        /\ lastSeen' \in [Buckets -> Nat]
        /\ \A x \in Buckets : lastSeen'[x] <= now
        /\ at' \in [Callers -> 0..now]
        /\ target' \in [Callers -> Buckets]
        /\ late' \in [Buckets -> Nat]
    <3> HIDE DEF b, tokens
    <3>1. QED
        BY <2>1, EnterTypeOK
  <2>3. limiters' \subseteq Buckets
      BY <1>3, <2>1 DEF Admit, TypeOK
  <2>4. lastGC' \in 0..now
      BY <1>3, <2>2 DEF Admit, TypeOK
  <2>5. retryAt' \in [Buckets -> Nat]
      BY <1>3 DEF Admit, TypeOK
  <2>6. admitted' \in [Buckets -> SUBSET (Nat \X Nat)]
    <3> DEFINE e == NewElement(b)
    <3>1. e \in Nat \X Nat /\ admitted' = [admitted EXCEPT ![b] = @ \cup {e}]
        BY <1>3, NewAdmission
    <3> HIDE DEF e
    <3>2. QED
        BY <2>1, <3>1 DEF TypeOK
  <2>7. QED
    <3> HIDE DEF b, tokens
    <3>1. QED
        BY <2>2, <2>3, <2>4, <2>5, <2>6 DEF TypeOK
<1>4. ASSUME NEW c \in Callers, Refuse(c) PROVE TypeOK'
  <2> DEFINE b == target[c]
             tokens == Tokens(b, at[c])
  <2>1. /\ b \in Buckets /\ at[c] # 0 /\ tokens \in Nat /\ tokens <= Window[b]
        /\ tokens < Refill(b) /\ Enter(c, b, tokens)
        /\ retryAt' = [retryAt EXCEPT ![b] = at[c] + (Refill(b) - tokens)]
        /\ UNCHANGED <<limiters, lastGC, admitted>>
      BY <1>4, CallParts DEF Refuse
  <2>2. Refill(b) \in Nat
      BY <2>1, RefillBounds
  <2> HIDE DEF b, tokens
  <2>3. /\ now' = now /\ now \in Nat \ {0} /\ at[c] \in 1..now
        /\ level' \in [Buckets -> Nat]
        /\ \A x \in Buckets : level'[x] <= Window[x]
        /\ lastSeen' \in [Buckets -> Nat]
        /\ \A x \in Buckets : lastSeen'[x] <= now
        /\ at' \in [Callers -> 0..now]
        /\ target' \in [Callers -> Buckets]
        /\ late' \in [Buckets -> Nat]
      BY <2>1, EnterTypeOK
  <2>4. at[c] + (Refill(b) - tokens) \in Nat
      BY <2>1, <2>2, <2>3
  <2>5. retryAt' \in [Buckets -> Nat]
      BY <2>1, <2>4 DEF TypeOK
  <2>6. QED
      BY <2>1, <2>3, <2>5 DEF TypeOK
<1>5. QED
    BY <1>1, <1>2, <1>3, <1>4, NextIsAction

LEMMA TypesAlways == Spec => [](TypeOK /\ HistoryInv)
<1>1. Init => HistoryInv
    BY FS_EmptySet DEF Init, HistoryInv
<1>2. TypeOK /\ HistoryInv /\ [Next]_vars => TypeOK' /\ HistoryInv'
    BY StepTypeOK, StepHistory
<1>3. QED
    BY <1>1, <1>2, InitTypeOK, PTL DEF Spec

(***************************************************************************)
(* A bucket never holds more than its burst nor less than nothing, and no  *)
(* time in the store is ahead of the clock, in whatever order the calls    *)
(* that have read the clock take the mutex.                                *)
(***************************************************************************)
THEOREM RateLimiterTypeCorrect == Spec => []TypeOK
    BY TypesAlways, PTL
-----------------------------------------------------------------------------
(***************************************************************************)
(* The retry time.  While the bucket is in the map it is the moment its    *)
(* level reaches one token, and a refused call moves neither.              *)
(***************************************************************************)
RetryInv ==
    \A b \in limiters :
        retryAt[b] # 0 => retryAt[b] + level[b] = lastSeen[b] + Refill(b)

LEMMA StepRetry ==
    ASSUME TypeOK, RetryInv, [Next]_vars
    PROVE  RetryInv'
<1>1. CASE \/ Tick \/ UNCHANGED vars
           \/ \E c \in Callers : \E b \in Buckets : ReadClock(c, b)
  <2>1. UNCHANGED <<limiters, retryAt, level, lastSeen>>
      BY <1>1 DEF Tick, vars, ReadClock
  <2>2. QED
      BY <2>1 DEF RetryInv, Refill
<1>2. ASSUME NEW c \in Callers, Admit(c), NEW x \in limiters', retryAt'[x] # 0
      PROVE  retryAt'[x] + level'[x] = lastSeen'[x] + Refill(x)
  <2> DEFINE b == target[c]
  <2>1. b \in Buckets /\ retryAt' = [retryAt EXCEPT ![b] = 0] /\ limiters' \subseteq limiters \cup {b}
      BY <1>2, CallParts DEF Admit
  <2>2. x # b
      BY <1>2, <2>1 DEF TypeOK
  <2>3. x \in limiters /\ x \in Buckets /\ retryAt'[x] = retryAt[x]
      BY <1>2, <2>1, <2>2 DEF TypeOK
  <2>4. level'[x] = level[x] /\ lastSeen'[x] = lastSeen[x]
    <3> DEFINE tokens == Tokens(b, at[c]) - Refill(b)
    <3>1. at[c] # 0 /\ tokens \in Nat /\ tokens <= Window[b] /\ Enter(c, b, tokens)
        BY <1>2, CallParts, AdmitParts
    <3> HIDE DEF tokens, b
    <3>2. QED
        BY <2>1, <2>2, <2>3, <3>1, EnterTypeOK
  <2>5. QED
      BY <1>2, <2>3, <2>4 DEF RetryInv
<1>3. ASSUME NEW c \in Callers, Refuse(c), NEW x \in limiters', retryAt'[x] # 0
      PROVE  retryAt'[x] + level'[x] = lastSeen'[x] + Refill(x)
  <2> DEFINE b == target[c]
             tokens == Tokens(b, at[c])
  <2>1. /\ b \in Buckets /\ at[c] # 0 /\ tokens \in Nat /\ tokens <= Window[b]
        /\ tokens < Refill(b) /\ Enter(c, b, tokens)
        /\ retryAt' = [retryAt EXCEPT ![b] = at[c] + (Refill(b) - tokens)]
        /\ limiters' = limiters /\ at[c] \in Nat
      BY <1>3, CallParts DEF Refuse
  <2> HIDE DEF b, tokens
  <2>2. /\ \A y \in Buckets : level'[y] = IF y = b THEN tokens ELSE level[y]
        /\ \A y \in Buckets : lastSeen'[y] = IF y = b THEN at[c] ELSE lastSeen[y]
      BY <2>1, EnterTypeOK
  <2>3. x \in Buckets /\ x \in limiters
      BY <1>3, <2>1 DEF TypeOK
  <2>4. CASE x = b
    <3>1. retryAt'[x] = at[c] + (Refill(b) - tokens)
        BY <2>1, <2>4 DEF TypeOK
    <3>2. Refill(b) \in Nat
        BY <2>1, RefillBounds
    <3>3. QED
        BY <2>1, <2>2, <2>4, <3>1, <3>2
  <2>5. CASE x # b
    <3>1. retryAt'[x] = retryAt[x]
        BY <2>1, <2>3, <2>5 DEF TypeOK
    <3>2. QED
        BY <1>3, <2>2, <2>3, <2>5, <3>1 DEF RetryInv
  <2>6. QED
      BY <2>4, <2>5
<1>4. QED
  <2>1. CASE \E c \in Callers : Admit(c)
      BY <2>1, <1>2 DEF RetryInv, Refill
  <2>2. CASE \E c \in Callers : Refuse(c)
      BY <2>2, <1>3 DEF RetryInv, Refill
  <2>3. QED
      BY <1>1, <2>1, <2>2, NextIsAction

LEMMA RetryInvImplies ==
    ASSUME TypeOK, RetryInv
    PROVE  RetryAfterSuffices
<1> SUFFICES ASSUME NEW b \in Buckets, retryAt[b] # 0, now >= retryAt[b]
             PROVE  Tokens(b, now) >= Refill(b)
    BY DEF RetryAfterSuffices
<1>1. Refill(b) \in Nat /\ Window[b] \in Nat /\ Refill(b) <= Window[b]
    BY RefillBounds
<1>2. /\ now \in Nat /\ lastSeen[b] \in Nat /\ lastSeen[b] <= now
      /\ level[b] \in Nat /\ retryAt[b] \in Nat
    BY DEF TypeOK
<1>3. CASE b \notin limiters
    BY <1>1, <1>2, <1>3, TokensBounds
<1>4. CASE b \in limiters
  <2>1. Later(b, now) = now - lastSeen[b]
      BY <1>2 DEF Later
  <2>2. retryAt[b] + level[b] = lastSeen[b] + Refill(b)
      BY <1>4 DEF RetryInv
  <2>3. Tokens(b, now) = Window[b] \/ Tokens(b, now) = level[b] + (now - lastSeen[b])
      BY <1>2, <1>4, <2>1, TokensBounds
  <2>4. QED
      BY <1>1, <1>2, <2>2, <2>3
<1>5. QED
    BY <1>3, <1>4

(***************************************************************************)
(* A client that waits for the retryAfter Allow returned is admitted       *)
(* unless another call took the token meanwhile, for any limits and        *)
(* windows, however the sweeps and the late calls interleave.              *)
(***************************************************************************)
THEOREM RetryIsEnough == Spec => []RetryAfterSuffices
<1>1. Init => RetryInv
    BY DEF Init, RetryInv
<1>2. TypeOK /\ RetryInv /\ [Next]_vars => RetryInv'
    BY StepRetry
<1>3. TypeOK /\ RetryInv => RetryAfterSuffices
    BY RetryInvImplies
<1>4. QED
    BY <1>1, <1>2, <1>3, RateLimiterTypeCorrect, PTL DEF Spec
-----------------------------------------------------------------------------
(***************************************************************************)
(* The admission bound.  Since(b, from) counts the admissions from a time  *)
(* on.  Once there is one, they and what the bucket still holds are worth  *)
(* no more than a full window plus what has refilled up to the time the    *)
(* bucket was last seen, plus what late calls refilled twice.  A swept     *)
(* bucket keeps the account of the moment its window had passed: what a    *)
(* full new bucket adds has been paid for.                                 *)
(***************************************************************************)
Since(b, from) == Cardinality({x \in admitted[b] : from <= x[1]})

Account(b, from) ==
    IF b \in limiters
    THEN Since(b, from) * Refill(b) + level[b] + from <= Window[b] + lastSeen[b] + late[b]
    ELSE Since(b, from) * Refill(b) + from <= now + late[b]

AccountInv ==
    \A b \in Buckets : \A from \in Nat : Since(b, from) = 0 \/ Account(b, from)

\* AdmissionBound without the division, and for every stretch of time.
StretchInv ==
    \A b \in Buckets : \A from, to \in Nat :
        from <= to => Admissions(b, from, to) * Refill(b) <= Window[b] + (to - from) + late[b]

\* What OwnWindowRespected says of one step.
OwnWindow == \A b \in limiters \ limiters' : now - lastSeen[b] >= Window[b]

LEMMA CountsType ==
    ASSUME TypeOK, HistoryInv, NEW b \in Buckets, NEW from \in Nat, NEW to \in Nat
    PROVE  Since(b, from) \in Nat /\ Admissions(b, from, to) \in Nat
<1>1. IsFiniteSet(admitted[b])
    BY DEF HistoryInv
<1>2. /\ {x \in admitted[b] : from <= x[1]} \in SUBSET admitted[b]
      /\ {x \in admitted[b] : from <= x[1] /\ x[1] <= to} \in SUBSET admitted[b]
    OBVIOUS
<1>3. /\ IsFiniteSet({x \in admitted[b] : from <= x[1]})
      /\ IsFiniteSet({x \in admitted[b] : from <= x[1] /\ x[1] <= to})
    BY ONLY <1>1, <1>2, FS_Subset
<1>4. QED
    BY ONLY <1>3, FS_CardinalityType DEF Since, Admissions

\* An admission at now counts from every earlier time on, and no later one.
LEMMA SinceAfterAdmit ==
    ASSUME TypeOK, HistoryInv, NEW c \in Callers, Admit(c), NEW from \in Nat,
           NEW b \in Buckets, b = target[c]
    PROVE  Since(b, from)' = IF from <= now THEN Since(b, from) + 1 ELSE Since(b, from)
<1> DEFINE e == NewElement(b)
           S == {x \in admitted[b] : from <= x[1]}
<1>1. /\ b \in Buckets
      /\ e \notin admitted[b] /\ admitted'[b] = admitted[b] \cup {e}
    BY CallParts, NewAdmission
<1>2. e[1] = now
    BY DEF NewElement
<1>3. {x \in admitted'[b] : from <= x[1]} = IF from <= now THEN S \cup {e} ELSE S
  <2> HIDE DEF e
  <2>1. QED
      BY <1>1, <1>2
<1>4. IsFiniteSet(S)
  <2>1. IsFiniteSet(admitted[b]) /\ S \in SUBSET admitted[b]
      BY <1>1 DEF HistoryInv
  <2> HIDE DEF S
  <2>2. QED
      BY <2>1, FS_Subset
<1>5. e \notin S
    BY <1>1
<1>6. Cardinality(S \cup {e}) = Cardinality(S) + 1
  <2> HIDE DEF e, S
  <2>1. QED
      BY <1>4, <1>5, FS_AddElement
<1>7. QED
    BY <1>3, <1>6 DEF Since

LEMMA QuietAccount ==
    ASSUME TypeOK, HistoryInv, AccountInv,
           \/ Tick \/ UNCHANGED vars
           \/ \E c \in Callers : \E b \in Buckets : ReadClock(c, b)
    PROVE  AccountInv'
<1>1. /\ UNCHANGED <<limiters, level, lastSeen, late, admitted>>
      /\ now \in Nat /\ (now' = now \/ now' = now + 1)
    BY DEF Tick, vars, ReadClock, TypeOK
<1> SUFFICES ASSUME NEW b \in Buckets, NEW from \in Nat, Since(b, from)' # 0
             PROVE  Account(b, from)'
    BY DEF AccountInv
<1>2. Since(b, from)' = Since(b, from)
    BY <1>1 DEF Since
<1>3. Account(b, from)
    BY <1>2 DEF AccountInv
<1>4. Since(b, from) * Refill(b) \in Nat /\ late[b] \in Nat
  <2>1. Since(b, from) \in Nat /\ Refill(b) \in Nat /\ late[b] \in Nat
      BY CountsType, RefillBounds DEF TypeOK
  <2>2. QED
      BY <2>1
<1>5. CASE b \in limiters
    BY <1>1, <1>2, <1>3, <1>5 DEF Account, Refill
<1>6. CASE b \notin limiters
    BY <1>1, <1>2, <1>3, <1>4, <1>6 DEF Account, Refill
<1>7. QED
    BY <1>5, <1>6

\* The other buckets, when a call for one of them is in the mutex.
LEMMA OtherAccount ==
    ASSUME TypeOK, HistoryInv, AccountInv, OwnWindow,
           NEW b \in Buckets, NEW from \in Nat, Since(b, from) # 0,
           limiters' \cap {b} \subseteq limiters,
           now' = now, level'[b] = level[b], lastSeen'[b] = lastSeen[b],
           late'[b] = late[b], admitted'[b] = admitted[b]
    PROVE  Account(b, from)'
<1>1. Since(b, from)' = Since(b, from)
    BY DEF Since
<1>2. Account(b, from)
    BY DEF AccountInv
<1>3. Since(b, from) * Refill(b) \in Nat
  <2>1. Since(b, from) \in Nat /\ Refill(b) \in Nat
      BY CountsType, RefillBounds
  <2>2. QED
      BY <2>1
<1>4. /\ level[b] \in Nat /\ lastSeen[b] \in Nat /\ late[b] \in Nat /\ now \in Nat
      /\ Window[b] \in Nat
    BY RefillBounds DEF TypeOK
<1>5. CASE b \in limiters'
    BY <1>1, <1>2, <1>5 DEF Account, Refill
<1>6. CASE b \in limiters /\ b \notin limiters'
  <2>1. now - lastSeen[b] >= Window[b]
      BY <1>6 DEF OwnWindow
  <2>2. Since(b, from) * Refill(b) + level[b] + from <= Window[b] + lastSeen[b] + late[b]
      BY <1>2, <1>6 DEF Account
  <2>3. Since(b, from) * Refill(b) + from <= now + late[b]
      BY <1>3, <1>4, <2>1, <2>2
  <2>4. QED
      BY <1>1, <1>6, <2>3 DEF Account, Refill
<1>7. CASE b \notin limiters /\ b \notin limiters'
    BY <1>1, <1>2, <1>7 DEF Account, Refill
<1>8. QED
    BY <1>5, <1>6, <1>7

(***************************************************************************)
(* The account of the bucket a call is for, before the call pays: what it  *)
(* finds is covered, the time it waited for the mutex included.            *)
(***************************************************************************)
LEMMA OwnAccount ==
    ASSUME TypeOK, HistoryInv, AccountInv, NEW b \in Buckets, NEW from \in Nat,
           NEW t \in 1..now, from <= now
    PROVE  Since(b, from) * Refill(b) + Tokens(b, t) + from <= Window[b] + now + late[b]
<1> DEFINE p == Since(b, from) * Refill(b)
           tokens == Tokens(b, t)
<1>1. /\ level[b] \in Nat /\ lastSeen[b] \in Nat /\ lastSeen[b] <= now /\ late[b] \in Nat
      /\ now \in Nat /\ t \in Nat /\ t <= now /\ Window[b] \in Nat
    BY RefillBounds DEF TypeOK
<1>2. tokens \in Nat /\ tokens <= Window[b]
    BY <1>1, TokensBounds
<1>3. p \in Nat /\ (Since(b, from) = 0 => p = 0)
  <2>1. Since(b, from) \in Nat /\ Refill(b) \in Nat
      BY CountsType, RefillBounds
  <2>2. QED
      BY <2>1
<1>4. CASE Since(b, from) = 0
  <2> HIDE DEF p, tokens
  <2>1. QED
      BY <1>1, <1>2, <1>3, <1>4 DEF p, tokens
<1>5. CASE Since(b, from) # 0 /\ b \in limiters
  <2>1. p + level[b] + from <= Window[b] + lastSeen[b] + late[b]
      BY <1>5 DEF AccountInv, Account
  <2>2. tokens <= level[b] + (IF t < lastSeen[b] THEN 0 ELSE t - lastSeen[b])
      BY <1>1, <1>5, TokensBounds DEF Later
  <2> HIDE DEF p, tokens
  <2>3. p + tokens + from <= Window[b] + now + late[b]
      BY <1>1, <1>2, <1>3, <2>1, <2>2
  <2>4. QED
      BY <2>3 DEF p, tokens
<1>6. CASE Since(b, from) # 0 /\ b \notin limiters
  <2>1. p + from <= now + late[b]
      BY <1>6 DEF AccountInv, Account
  <2> HIDE DEF p, tokens
  <2>2. p + tokens + from <= Window[b] + now + late[b]
      BY <1>1, <1>2, <1>3, <2>1
  <2>3. QED
      BY <2>2 DEF p, tokens
<1>7. QED
    BY <1>4, <1>5, <1>6

LEMMA AdmitAccount ==
    ASSUME TypeOK, HistoryInv, AccountInv, OwnWindow, NEW c \in Callers, Admit(c)
    PROVE  AccountInv'
<1> DEFINE b == target[c]
           tokens == Tokens(b, at[c])
           r == Refill(b)
<1>1. b \in Buckets /\ at[c] # 0 /\ tokens \in Nat /\ tokens <= Window[b]
    BY CallParts
<1>2. tokens - r \in Nat /\ tokens - r <= Window[b] /\ Enter(c, b, tokens - r)
    BY AdmitParts
<1>3. /\ now' = now /\ now \in Nat \ {0} /\ at[c] \in 1..now
      /\ \A x \in Buckets : level'[x] = IF x = b THEN tokens - r ELSE level[x]
      /\ \A x \in Buckets : lastSeen'[x] = IF x = b THEN at[c] ELSE lastSeen[x]
      /\ \A x \in Buckets : late'[x] = IF x = b THEN late[b] + (now - at[c]) ELSE late[x]
  <2> HIDE DEF b, tokens, r
  <2>1. QED
      BY <1>1, <1>2, EnterTypeOK
<1>4. b \in limiters' /\ limiters' \subseteq limiters \cup {b}
    BY DEF Admit, Expired
<1>5. r \in Nat \ {0} /\ Window[b] \in Nat
    BY <1>1, RefillBounds
<1>6. ASSUME NEW x \in Buckets, x # b, NEW from \in Nat, Since(x, from)' # 0
      PROVE  Account(x, from)'
  <2>1. admitted'[x] = admitted[x]
      BY <1>6, NewAdmission
  <2>2. Since(x, from)' = Since(x, from)
      BY <2>1 DEF Since
  <2>3. QED
    <3> HIDE DEF b
    <3>1. limiters' \cap {x} \subseteq limiters
        BY <1>6, <1>4
    <3>2. level'[x] = level[x] /\ lastSeen'[x] = lastSeen[x] /\ late'[x] = late[x]
        BY <1>6, <1>3
    <3>3. QED
        BY <1>6, <1>3, <2>1, <2>2, <3>1, <3>2, OtherAccount
<1>7. ASSUME NEW y \in Buckets, y = b, NEW from \in Nat, Since(y, from)' # 0
      PROVE  Account(y, from)'
  <2>1. Since(y, from)' = IF from <= now THEN Since(y, from) + 1 ELSE Since(y, from)
      BY <1>7, SinceAfterAdmit
  <2>2. Since(y, from) \in Nat
      BY CountsType
  <2>3. from <= now
    <3> SUFFICES ASSUME from > now PROVE FALSE
        BY <1>3
    <3>1. {x \in admitted[y] : from <= x[1]} = {}
        BY <1>3 DEF HistoryInv, TypeOK
    <3>2. Since(y, from) = 0
        BY <3>1, FS_EmptySet DEF Since
    <3>3. QED
        BY <1>7, <2>1, <3>2, <1>3
  <2> DEFINE n == Since(y, from)
  <2>4. /\ level[y] \in Nat /\ lastSeen[y] \in Nat /\ lastSeen[y] <= now /\ late[y] \in Nat
        /\ at[c] \in Nat /\ at[c] <= now
      BY <1>3 DEF TypeOK
  <2>5. n * r + tokens + from <= Window[y] + now + late[y]
      BY <1>3, <1>7, <2>3, OwnAccount
  <2>6. (n + 1) * r + (tokens - r) = n * r + tokens
    <3> HIDE DEF n, r, tokens, b
    <3>1. n \in Nat
        BY <2>2 DEF n
    <3>2. QED
        BY <3>1, <1>1, <1>5
  <2>7. Since(y, from)' = n + 1
      BY <2>1, <2>3
  <2>8. /\ level'[y] = tokens - r /\ lastSeen'[y] = at[c]
        /\ late'[y] = late[y] + (now - at[c]) /\ y \in limiters' /\ Refill(y) = r
      BY <1>3, <1>4, <1>7
  <2>9. Since(y, from)' * Refill(y) + level'[y] + from <= Window[y] + lastSeen'[y] + late'[y]
    <3> HIDE DEF n, r, tokens, b
    <3>1. n * r \in Nat /\ r \in Nat /\ tokens \in Nat /\ Window[y] \in Nat
      <4>1. n \in Nat
          BY <2>2 DEF n
      <4>2. QED
          BY <4>1, <1>1, <1>5, <1>7
    <3>2. (n + 1) * r + (tokens - r) + from <= Window[y] + at[c] + (late[y] + (now - at[c]))
        BY <1>3, <2>4, <2>5, <2>6, <3>1
    <3>3. QED
        BY <3>2, <2>7, <2>8
  <2>10. QED
      BY <2>8, <2>9 DEF Account, Refill
<1>8. QED
    BY <1>1, <1>6, <1>7 DEF AccountInv

LEMMA RefuseAccount ==
    ASSUME TypeOK, HistoryInv, AccountInv, OwnWindow, NEW c \in Callers, Refuse(c)
    PROVE  AccountInv'
<1> DEFINE b == target[c]
           tokens == Tokens(b, at[c])
<1>1. b \in Buckets /\ at[c] # 0 /\ tokens \in Nat /\ tokens <= Window[b]
    BY CallParts
<1>2. Enter(c, b, tokens) /\ UNCHANGED <<limiters, admitted>>
    BY DEF Refuse
<1>3. /\ now' = now /\ now \in Nat \ {0} /\ at[c] \in 1..now
      /\ \A x \in Buckets : level'[x] = IF x = b THEN tokens ELSE level[x]
      /\ \A x \in Buckets : lastSeen'[x] = IF x = b THEN at[c] ELSE lastSeen[x]
      /\ \A x \in Buckets : late'[x] = IF x = b THEN late[b] + (now - at[c]) ELSE late[x]
  <2> HIDE DEF b, tokens
  <2>1. QED
      BY <1>1, <1>2, EnterTypeOK
<1>4. b \in limiters
  <2> SUFFICES ASSUME b \notin limiters PROVE FALSE
      OBVIOUS
  <2>1. at[c] \in Nat
      BY <1>3
  <2>2. tokens = Window[b]
      BY <1>1, <2>1, TokensBounds
  <2>3. tokens < Refill(b)
      BY DEF Refuse
  <2>4. Refill(b) <= Window[b] /\ Refill(b) \in Nat /\ Window[b] \in Nat
      BY <1>1, RefillBounds
  <2>5. QED
      BY <2>2, <2>3, <2>4
<1> SUFFICES ASSUME NEW x \in Buckets, NEW from \in Nat, Since(x, from)' # 0
             PROVE  Account(x, from)'
    BY DEF AccountInv
<1>5. Since(x, from)' = Since(x, from)
    BY <1>2 DEF Since
<1>6. CASE x # b
  <2> HIDE DEF b
  <2>1. limiters' \cap {x} \subseteq limiters
      BY <1>2
  <2>2. level'[x] = level[x] /\ lastSeen'[x] = lastSeen[x] /\ late'[x] = late[x]
      BY <1>6, <1>3
  <2>3. QED
      BY <1>2, <1>3, <1>5, <2>1, <2>2, OtherAccount
<1>7. CASE x = b
  <2>1. from <= now
    <3> SUFFICES ASSUME from > now PROVE FALSE
        BY <1>3
    <3>1. {z \in admitted[x] : from <= z[1]} = {}
        BY <1>3 DEF HistoryInv, TypeOK
    <3>2. Since(x, from) = 0
        BY <3>1, FS_EmptySet DEF Since
    <3>3. QED
        BY <1>5, <3>2
  <2> DEFINE p == Since(x, from) * Refill(x)
  <2>2. p + tokens + from <= Window[x] + now + late[x]
      BY <1>3, <1>7, <2>1, OwnAccount
  <2>3. p \in Nat /\ Window[x] \in Nat /\ late[x] \in Nat /\ at[c] \in Nat
    <3>1. Since(x, from) \in Nat /\ Refill(x) \in Nat /\ Window[x] \in Nat
        BY CountsType, RefillBounds
    <3>2. QED
        BY <3>1, <1>3 DEF TypeOK
  <2>4. p + tokens + from <= Window[x] + at[c] + (late[x] + (now - at[c]))
    <3> HIDE DEF p, tokens, b
    <3>1. QED
        BY <1>1, <1>3, <2>2, <2>3
  <2>5. /\ level'[x] = tokens /\ lastSeen'[x] = at[c]
        /\ late'[x] = late[x] + (now - at[c]) /\ x \in limiters'
      BY <1>2, <1>3, <1>4, <1>7
  <2>6. QED
      BY <1>5, <2>4, <2>5 DEF Account, Refill
<1>8. QED
    BY <1>6, <1>7

LEMMA StepAccount ==
    ASSUME TypeOK, HistoryInv, AccountInv, [Next]_vars, [OwnWindow]_vars
    PROVE  AccountInv'
<1>1. CASE UNCHANGED vars
    BY <1>1, QuietAccount
<1>2. CASE OwnWindow
    BY <1>2, NextIsAction, QuietAccount, AdmitAccount, RefuseAccount
<1>3. QED
    BY <1>1, <1>2

(***************************************************************************)
(* Every stretch of time: an admission within it is the last one so far,   *)
(* so the account from its beginning bounds it.                            *)
(***************************************************************************)
LEMMA StepStretch ==
    ASSUME TypeOK, HistoryInv, StretchInv, TypeOK', HistoryInv', AccountInv', [Next]_vars
    PROVE  StretchInv'
<1> SUFFICES ASSUME NEW b \in Buckets, NEW from \in Nat, NEW to \in Nat, from <= to
             PROVE  (Admissions(b, from, to) * Refill(b)
                        <= Window[b] + (to - from) + late[b])'
    BY DEF StretchInv
<1> DEFINE n == Admissions(b, from, to)
           r == Refill(b)
<1>1. r \in Nat /\ Window[b] \in Nat
    BY RefillBounds
<1>2. late[b] \in Nat /\ late'[b] \in Nat /\ now \in Nat /\ now' \in Nat
    BY DEF TypeOK
<1>3. n * r <= Window[b] + (to - from) + late[b] /\ n \in Nat /\ n' \in Nat
  <2>1. n \in Nat
      BY CountsType
  <2>2. n' \in Nat
    <3>1. IsFiniteSet(admitted'[b])
        BY DEF HistoryInv
    <3>2. {x \in admitted'[b] : from <= x[1] /\ x[1] <= to} \in SUBSET admitted'[b]
        OBVIOUS
    <3>3. IsFiniteSet({x \in admitted'[b] : from <= x[1] /\ x[1] <= to})
        BY ONLY <3>1, <3>2, FS_Subset
    <3>4. QED
        BY ONLY <3>3, FS_CardinalityType DEF Admissions
  <2>3. QED
      BY <2>1, <2>2 DEF StretchInv
<1>4. late[b] <= late'[b]
  <2>1. CASE UNCHANGED late
      BY <2>1, <1>2
  <2>2. ASSUME NEW c \in Callers, NEW tokens, Enter(c, target[c], tokens)
        PROVE  late[b] <= late'[b]
    <3>1. late' = [late EXCEPT ![target[c]] = @ + (now - at[c])]
        BY <2>2 DEF Enter
    <3>2. at[c] \in 0..now
        BY DEF TypeOK
    <3>3. QED
        BY <3>1, <3>2, <1>2 DEF TypeOK
  <2>3. QED
      BY <2>1, <2>2, NextIsAction DEF Tick, vars, ReadClock, Admit, Refuse
<1>5. CASE n' = n
  <2> HIDE DEF n, r
  <2>1. n * r \in Nat
      BY <1>1, <1>3
  <2>2. n' * r <= Window[b] + (to - from) + late'[b]
      BY <1>1, <1>2, <1>3, <1>4, <1>5, <2>1
  <2>3. QED
      BY <2>2 DEF n, r, Refill
<1>6. ASSUME NEW c \in Callers, Admit(c), b = target[c], from <= now, now <= to
      PROVE  n' * r <= Window[b] + (to - from) + late'[b]
  <2>1. now' = now
      BY <1>6 DEF Admit, Enter
  <2>2. {x \in admitted'[b] : from <= x[1] /\ x[1] <= to} = {x \in admitted'[b] : from <= x[1]}
    <3>1. \A x \in admitted'[b] : x[1] \in Nat /\ x[1] <= now
        BY <2>1 DEF HistoryInv, TypeOK
    <3>2. QED
        BY <3>1, <1>2, <1>6
  <2>3. n' = Since(b, from)'
      BY <2>2 DEF Admissions, Since
  <2>4. b \in limiters'
      BY <1>6 DEF Admit, Expired
  <2>5. \/ n' = 0
        \/ n' * r + level'[b] + from <= Window[b] + lastSeen'[b] + late'[b]
      BY <2>3, <2>4 DEF AccountInv, Account, Refill
  <2>6. level'[b] \in Nat /\ lastSeen'[b] \in Nat /\ lastSeen'[b] <= now'
      BY DEF TypeOK
  <2> HIDE DEF n, r
  <2>7. n' * r \in Nat /\ (n' = 0 => n' * r = 0)
    <3>1. n' \in Nat /\ r \in Nat
        BY <1>1, <1>3
    <3>2. QED
        BY ONLY <3>1, ProductType
  <2>8. QED
      BY <1>1, <1>2, <1>6, <2>1, <2>5, <2>6, <2>7
<1>7. n' = n \/ \E c \in Callers : Admit(c) /\ b = target[c] /\ from <= now /\ now <= to
  <2>1. CASE UNCHANGED admitted
      BY <2>1 DEF Admissions
  <2>2. ASSUME NEW c \in Callers, Admit(c), ~ (b = target[c] /\ from <= now /\ now <= to)
        PROVE  n' = n
    <3>1. CASE b # target[c]
      <4>1. admitted'[b] = admitted[b]
          BY <2>2, <3>1, NewAdmission
      <4>2. QED
          BY <4>1 DEF Admissions
    <3>2. CASE b = target[c]
      <4> DEFINE e == NewElement(b)
      <4>1. admitted'[b] = admitted[b] \cup {e}
          BY <2>2, <3>2, NewAdmission
      <4>2. e[1] = now
          BY DEF NewElement
      <4> HIDE DEF e
      <4>3. ~ (from <= e[1] /\ e[1] <= to)
          BY <2>2, <3>2, <4>2
      <4>4. {x \in admitted'[b] : from <= x[1] /\ x[1] <= to}
                = {x \in admitted[b] : from <= x[1] /\ x[1] <= to}
          BY <4>1, <4>3
      <4>5. QED
          BY <4>4 DEF Admissions
    <3>3. QED
        BY <3>1, <3>2
  <2>3. QED
      BY <2>1, <2>2, NextIsAction DEF Tick, vars, ReadClock, Refuse
<1>8. QED
  <2>1. CASE \E c \in Callers : Admit(c) /\ b = target[c] /\ from <= now /\ now <= to
      BY <2>1, <1>6 DEF Refill
  <2>2. QED
      BY <2>1, <1>5, <1>7

LEMMA StretchImplies ==
    ASSUME TypeOK, HistoryInv, StretchInv
    PROVE  AdmissionBound
<1> SUFFICES ASSUME NEW b \in Buckets, NEW from \in 1..MaxTime, NEW to \in 1..MaxTime,
                    from <= to
             PROVE  Admissions(b, from, to) <= Limit[b] + ((to - from + late[b]) \div Refill(b))
    BY DEF AdmissionBound
<1>1. from \in Nat /\ to \in Nat
    BY RateLimiterAssumption
<1> DEFINE n == Admissions(b, from, to)
           d == to - from + late[b]
           r == Refill(b)
           l == Limit[b]
<1>2. n \in Nat
    BY <1>1, CountsType
<1>3. r \in Nat \ {0} /\ l \in Nat /\ l * r = Window[b]
    BY RefillBounds
<1>4. d \in Nat /\ late[b] \in Nat
    BY <1>1 DEF TypeOK
<1>5. n * r <= Window[b] + (to - from) + late[b]
    BY <1>1 DEF StretchInv
<1>6. n * r <= l * r + d
    BY <1>1, <1>3, <1>4, <1>5
<1> HIDE DEF n, d, r, l
<1>7. n <= l + d \div r
    BY <1>2, <1>3, <1>4, <1>6, Quotient
<1>8. QED
    BY <1>7 DEF n, d, r, l

(***************************************************************************)
(* The promise of Store holds for any buckets and any number of concurrent *)
(* calls as long as a sweep removes a bucket only after the bucket's own   *)
(* window has passed, which is what the comment on rateLimitIdleTTL says   *)
(* of gcLocked.  (The run rate_mixed shows gcLocked breaking that.)        *)
(***************************************************************************)
THEOREM OwnWindowSuffices == Spec /\ OwnWindowRespected => []AdmissionBound
<1>1. Init => AccountInv /\ StretchInv
  <2> SUFFICES ASSUME Init PROVE AccountInv /\ StretchInv
      OBVIOUS
  <2>1. \A b \in Buckets : \A from, to \in Nat : Since(b, from) = 0 /\ Admissions(b, from, to) = 0
    <3> SUFFICES ASSUME NEW b \in Buckets, NEW from \in Nat, NEW to \in Nat
                 PROVE  Since(b, from) = 0 /\ Admissions(b, from, to) = 0
        OBVIOUS
    <3>1. /\ {x \in admitted[b] : from <= x[1]} = {}
          /\ {x \in admitted[b] : from <= x[1] /\ x[1] <= to} = {}
        BY DEF Init
    <3>2. QED
        BY <3>1, FS_EmptySet DEF Since, Admissions
  <2>2. AccountInv
      BY <2>1 DEF AccountInv
  <2>3. StretchInv
    <3> SUFFICES ASSUME NEW b \in Buckets, NEW from \in Nat, NEW to \in Nat, from <= to
                 PROVE  0 * Refill(b) <= Window[b] + (to - from) + late[b]
        BY <2>1 DEF StretchInv
    <3>1. Refill(b) \in Nat /\ Window[b] \in Nat /\ late[b] = 0
        BY RefillBounds DEF Init
    <3>2. QED
        BY <3>1
  <2>4. QED
      BY <2>2, <2>3
<1>2. /\ TypeOK /\ HistoryInv /\ AccountInv /\ StretchInv
      /\ [Next]_vars /\ [OwnWindow]_vars
      => AccountInv' /\ StretchInv'
    BY StepTypeOK, StepHistory, StepAccount, StepStretch
<1>3. TypeOK /\ HistoryInv /\ StretchInv => AdmissionBound
    BY StretchImplies
<1>4. QED
    BY <1>1, <1>2, <1>3, TypesAlways, PTL DEF Spec, OwnWindowRespected, OwnWindow

(***************************************************************************)
(* No bucket's window longer than what a sweep by another bucket's call    *)
(* waits for.                                                              *)
(***************************************************************************)
WindowsCompatible == \A b, x \in Buckets : Window[x] <= Window[b] \/ Window[x] <= IdleTTL

(***************************************************************************)
(* Where every window is within the idle time, or all windows are the      *)
(* same, gcLocked keeps what its comment says.                             *)
(***************************************************************************)
THEOREM CompatibleSweep == WindowsCompatible => (Spec => OwnWindowRespected)
<1> SUFFICES ASSUME WindowsCompatible PROVE Spec => OwnWindowRespected
    OBVIOUS
<1>1. ASSUME TypeOK, [Next]_vars PROVE [OwnWindow]_vars
  <2> SUFFICES ASSUME NEW x \in limiters, x \notin limiters'
               PROVE  now - lastSeen[x] >= Window[x]
      BY DEF OwnWindow
  <2>1. PICK c \in Callers : Admit(c)
      BY <1>1, NextIsAction DEF Tick, vars, ReadClock, Refuse
  <2> DEFINE b == target[c]
             ttl == IF Window[b] > IdleTTL THEN Window[b] ELSE IdleTTL
  <2>2. b \in Buckets /\ x \in Buckets /\ at[c] \in 0..now /\ now \in Nat
      BY <1>1, <2>1, CallParts DEF TypeOK
  <2>3. x \in Expired(b, at[c])
      BY <2>1 DEF Admit
  <2>4. at[c] - lastSeen[x] >= ttl
      BY <2>3 DEF Expired
  <2>5. Window[b] \in Nat /\ Window[x] \in Nat /\ IdleTTL \in Nat /\ lastSeen[x] \in Nat
      BY <1>1, <2>2, RefillBounds, RateLimiterAssumption DEF TypeOK
  <2>6. Window[x] <= Window[b] \/ Window[x] <= IdleTTL
      BY <1>1, <2>2 DEF WindowsCompatible
  <2> HIDE DEF b
  <2>7. QED
      BY <2>2, <2>4, <2>5, <2>6
<1>2. QED
    BY <1>1, RateLimiterTypeCorrect, PTL DEF Spec, OwnWindowRespected, OwnWindow

(***************************************************************************)
(* So with compatible windows no client is admitted more often than its    *)
(* policy allows, sweeps, late calls and all.                              *)
(***************************************************************************)
THEOREM AdmissionsBounded == WindowsCompatible => (Spec => []AdmissionBound)
    BY OwnWindowSuffices, CompatibleSweep, PTL
=============================================================================
