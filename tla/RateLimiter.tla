---------------------------- MODULE RateLimiter ----------------------------
(***************************************************************************)
(* The in-memory rate limit store of the Go runtime (ratelimit.go): one    *)
(* token bucket per key, all buckets in one map under one mutex, idle      *)
(* buckets removed by a sweep that an admitted request triggers.           *)
(*                                                                         *)
(* Command.Handle and RateLimitMiddleware call Allow.  A call reads the    *)
(* clock and only then takes the mutex, so calls enter in any order of     *)
(* their times; under the mutex it is one step.  Time is in units that     *)
(* divide every window/limit, and tokens are counted in time: a token is   *)
(* worth Refill(b) units, a full bucket holds Window[b].                   *)
(***************************************************************************)
EXTENDS Integers, FiniteSets

CONSTANTS
    Callers,     \* concurrent calls of Allow
    Buckets,     \* bucket keys (policy and caller)
    Limit,       \* RateLimitSpec.Limit of each bucket's policy
    Window,      \* RateLimitSpec.Window
    IdleTTL,     \* rateLimitIdleTTL, one minute
    GCInterval,  \* rateLimitGCInterval, one minute
    MaxTime,     \* bound on the clock
    MaxLate      \* bound on late, for each bucket

ASSUME RateLimiterAssumption ==
    /\ Buckets # {}
    /\ Limit \in [Buckets -> Nat \ {0}]
    /\ Window \in [Buckets -> Nat \ {0}]
    /\ \A b \in Buckets : Limit[b] <= Window[b] /\ Window[b] % Limit[b] = 0
    /\ IdleTTL \in Nat \ {0}
    /\ GCInterval \in Nat
    /\ MaxTime \in Nat
    /\ MaxLate \in Nat

VARIABLES
    now,       \* the clock, from 1 (0 is Go's zero time)
    limiters,  \* keys with an entry in the map
    level,     \* tokens of each bucket at lastSeen, in time units
    lastSeen,  \* time of the last call for the bucket, as that call read it
    lastGC,    \* time of the last sweep
    at,        \* the time each call has read (0: not calling)
    target,    \* the bucket each call is for
    late,      \* history: how long the calls for each bucket waited for the mutex
    admitted,  \* history: <<time, n>> for the n-th admission of each bucket
    retryAt    \* history: when the last refused caller was told to retry (0: none)

vars == <<now, limiters, level, lastSeen, lastGC, at, target, late, admitted, retryAt>>

\* rate.Every(window / limit)
Refill(b) == Window[b] \div Limit[b]

Init ==
    /\ now = 1
    /\ limiters = {}
    /\ level = [b \in Buckets |-> 0]
    /\ lastSeen = [b \in Buckets |-> 0]
    /\ lastGC = 0
    /\ at = [c \in Callers |-> 0]
    /\ target = [c \in Callers |-> CHOOSE b \in Buckets : TRUE]
    /\ late = [b \in Buckets |-> 0]
    /\ admitted = [b \in Buckets |-> {}]
    /\ retryAt = [b \in Buckets |-> 0]

Tick ==
    /\ now < MaxTime
    /\ now' = now + 1
    /\ UNCHANGED <<limiters, level, lastSeen, lastGC, at, target, late, admitted, retryAt>>

\* Allow up to the mutex: now := time.Now().
ReadClock(c, b) ==
    /\ at[c] = 0
    /\ at' = [at EXCEPT ![c] = now]
    /\ target' = [target EXCEPT ![c] = b]
    /\ UNCHANGED <<now, limiters, level, lastSeen, lastGC, late, admitted, retryAt>>

\* Mutant: tokens pile up while a bucket is idle.
TokensUncapped(b, t) ==
    IF b \notin limiters THEN Window[b]
    ELSE level[b] + (IF t < lastSeen[b] THEN 0 ELSE t - lastSeen[b])

(***************************************************************************)
(* rate.Limiter.advance: a new bucket is full, an old one has refilled up  *)
(* to its burst; a time before the last one adds nothing.                  *)
(***************************************************************************)
Tokens(b, t) ==
    LET grown == level[b] + (IF t < lastSeen[b] THEN 0 ELSE t - lastSeen[b])
    IN  IF b \notin limiters \/ grown > Window[b] THEN Window[b] ELSE grown

\* Mutant: a sweep keeps a bucket for the idle time only, however long its window.
ExpiredIgnoringWindow(b, t) == {x \in limiters \ {b} : t - lastSeen[x] >= IdleTTL}

\* gcLocked(now, window): the window is that of the call that sweeps.
Expired(b, t) ==
    LET ttl == IF Window[b] > IdleTTL THEN Window[b] ELSE IdleTTL
    IN  {x \in limiters \ {b} : t - lastSeen[x] >= ttl}

\* The bucket's new state, last seen at the time the call has read.
Enter(c, b, tokens) ==
    /\ late[b] + (now - at[c]) <= MaxLate
    /\ level' = [level EXCEPT ![b] = tokens]
    /\ lastSeen' = [lastSeen EXCEPT ![b] = at[c]]
    /\ late' = [late EXCEPT ![b] = @ + (now - at[c])]
    /\ at' = [at EXCEPT ![c] = 0]
    /\ target' = [target EXCEPT ![c] = CHOOSE x \in Buckets : TRUE]
    /\ UNCHANGED now

\* Allow: a token is there.  A sweep follows when the last one is long ago.
Admit(c) ==
    LET b == target[c]
        sweep == lastGC = 0 \/ at[c] - lastGC >= GCInterval IN
    /\ at[c] # 0
    /\ Tokens(b, at[c]) >= Refill(b)
    /\ Enter(c, b, Tokens(b, at[c]) - Refill(b))
    /\ limiters' = (limiters \cup {b}) \ (IF sweep THEN Expired(b, at[c]) ELSE {})
    /\ lastGC' = IF sweep THEN at[c] ELSE lastGC
    /\ admitted' = [admitted EXCEPT ![b] =
                      @ \cup {<<now, Cardinality(@) + 1>>}]
    /\ retryAt' = [retryAt EXCEPT ![b] = 0]

\* Mutant: the reservation is not cancelled and takes the token of the future.
RefuseKeepsReservation(c) ==
    LET b == target[c] IN
    /\ at[c] # 0
    /\ Tokens(b, at[c]) < Refill(b)
    /\ Enter(c, b, 0)
    /\ retryAt' = [retryAt EXCEPT ![b] = at[c] + (Refill(b) - Tokens(b, at[c]))]
    /\ UNCHANGED <<limiters, lastGC, admitted>>

\* Allow: the bucket is empty; the reservation is cancelled, its delay returned.
Refuse(c) ==
    LET b == target[c] IN
    /\ at[c] # 0
    /\ Tokens(b, at[c]) < Refill(b)
    /\ Enter(c, b, Tokens(b, at[c]))
    /\ retryAt' = [retryAt EXCEPT ![b] = at[c] + (Refill(b) - Tokens(b, at[c]))]
    /\ UNCHANGED <<limiters, lastGC, admitted>>

Next ==
    \/ Tick
    \/ \E c \in Callers : \/ \E b \in Buckets : ReadClock(c, b)
                          \/ Admit(c) \/ Refuse(c)

Spec == Init /\ [][Next]_vars
-----------------------------------------------------------------------------
TypeOK ==
    /\ now \in Nat \ {0}
    /\ limiters \subseteq Buckets
    /\ level \in [Buckets -> Nat]
    /\ \A b \in Buckets : level[b] <= Window[b]
    /\ lastSeen \in [Buckets -> Nat]
    /\ \A b \in Buckets : lastSeen[b] <= now
    /\ lastGC \in 0..now
    /\ at \in [Callers -> 0..now]
    /\ target \in [Callers -> Buckets]
    /\ late \in [Buckets -> Nat]
    /\ admitted \in [Buckets -> SUBSET (Nat \X Nat)]
    /\ retryAt \in [Buckets -> Nat]

Admissions(b, from, to) ==
    Cardinality({x \in admitted[b] : from <= x[1] /\ x[1] <= to})

(***************************************************************************)
(* What a token bucket promises (Store): over any stretch of time no more  *)
(* than Limit admissions plus what refills meanwhile, whatever was swept   *)
(* in between: a bucket that is removed and made anew, full, was full      *)
(* already.  A call that enters late sets the bucket's time back, and the  *)
(* time it waited is refilled once more; that is all the race can add.     *)
(***************************************************************************)
AdmissionBound ==
    \A b \in Buckets : \A from, to \in 1..MaxTime :
        from <= to =>
            Admissions(b, from, to) <= Limit[b] + ((to - from + late[b]) \div Refill(b))

(***************************************************************************)
(* The retryAfter that Allow returns is long enough: a caller who waits    *)
(* that long is admitted unless another caller took the token, and refused *)
(* calls in between do not push the moment away.                           *)
(***************************************************************************)
RetryAfterSuffices ==
    \A b \in Buckets :
        retryAt[b] # 0 /\ now >= retryAt[b] => Tokens(b, now) >= Refill(b)

(***************************************************************************)
(* ratelimit.go on rateLimitIdleTTL: "It is scaled up to the bucket's own  *)
(* window so a long-window limiter ("1 per day") is not GC'd between       *)
(* requests": a bucket is removed only after its own window has passed.    *)
(***************************************************************************)
OwnWindowRespected ==
    [][\A b \in limiters \ limiters' : now - lastSeen[b] >= Window[b]]_vars
=============================================================================
