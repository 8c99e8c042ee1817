-------------------------- MODULE WatchLoopsProofs --------------------------
(***************************************************************************)
(* Proofs about the watch loops, for any number of saves, lost events and  *)
(* failing processes: what of their liveness is safety.  No save is        *)
(* forgotten on its way to a run, a loop at rest is up to date, and no run *)
(* of the dev and the test loop sets off another.                          *)
(***************************************************************************)
EXTENDS WatchLoops, TLAPS

LoopKinds == {"dev", "doctor", "test"}

(***************************************************************************)
(* The tables of the module, row by row.                                   *)
(***************************************************************************)
LEMMA JobTable ==
    /\ JobsOf("dev") = {"gen"} /\ JobsOf("doctor") = {"doctor"}
    /\ JobsOf("test") = {"spec", "handler"}
    /\ \A k \in LoopKinds : JobsOf(k) \subseteq Jobs /\ JobsOf(k) # {}
<1>1. /\ JobsOf("dev") = {"gen"} /\ JobsOf("doctor") = {"doctor"}
      /\ JobsOf("test") = {"spec", "handler"}
    BY DEF JobsOf
<1>2. QED
    BY <1>1 DEF LoopKinds, Jobs

LEMMA FileTable ==
    /\ Inputs("gen") = {"toml", "lzi"} /\ Inputs("doctor") = {"toml", "lzi"}
    /\ Inputs("spec") = {"toml", "lzi"} /\ Inputs("handler") = {"toml", "go"}
    /\ Watched("gen") = {"lzi"} /\ Watched("doctor") = {"lzi", "toml"}
    /\ Watched("spec") = {"lzi"} /\ Watched("handler") = {"go"}
    BY DEF Inputs, Watched

\* What a job watches it reads, and no other job of its loop reads; the
\* manifest is watched by a loop of one job.
LEMMA OneReader ==
    ASSUME NEW k \in LoopKinds, NEW j \in JobsOf(k)
    PROVE  /\ j \in Jobs /\ Watched(j) \subseteq Inputs(j) /\ Inputs(j) \subseteq Files
           /\ \A c \in JobsOf(k) : Inputs(c) \cap Watched(j) # {} => c = j
           /\ "toml" \in Watched(j) => JobsOf(k) = {j}
<1>1. CASE k = "dev"
    BY <1>1, JobTable, FileTable DEF Jobs, Files
<1>2. CASE k = "doctor"
    BY <1>2, JobTable, FileTable DEF Jobs, Files
<1>3. CASE k = "test"
    BY <1>3, JobTable, FileTable DEF Jobs, Files
<1>4. QED
    BY <1>1, <1>2, <1>3 DEF LoopKinds

LEMMA TriggeredTable ==
    ASSUME kind \in LoopKinds
    PROVE  /\ \A e \in Event : Triggered(e) \subseteq JobsOf(kind)
           /\ \A j \in JobsOf(kind) : \A f \in Watched(j) : j \in Triggered(Written(f))
           /\ \A e \in Event : kind # "doctor" /\ e.access => Triggered(e) = {}
           /\ \A e \in Event : e.file = "other" => Triggered(e) = {}
<1>1. CASE kind = "dev"
    BY <1>1, JobTable, FileTable DEF Triggered, Written, Event, Files
<1>2. CASE kind = "doctor"
    BY <1>2, JobTable, FileTable DEF Triggered, Written, Event, Files
<1>3. CASE kind = "test"
  <2>1. /\ \A e \in Event : /\ e.access => Triggered(e) = {}
                            /\ ~e.access /\ e.file = "lzi" => Triggered(e) = {"spec"}
                            /\ ~e.access /\ e.file = "go" => Triggered(e) = {"handler"}
                            /\ ~e.access /\ e.file \notin {"lzi", "go"} => Triggered(e) = {}
      BY <1>3 DEF Triggered, Event, Files
  <2>2. \A f \in Files : Written(f) \in Event /\ Written(f).file = f /\ ~Written(f).access
      BY DEF Written, Event
  <2>3. \A e \in Event : e.access \in BOOLEAN
      BY DEF Event
  <2>4. "lzi" \in Files /\ "go" \in Files
      BY DEF Files
  <2>5. "spec" \in Triggered(Written("lzi")) /\ "handler" \in Triggered(Written("go"))
      BY <2>1, <2>2, <2>4
  <2>6. \A e \in Event : Triggered(e) \subseteq {"spec", "handler"}
      BY <2>1, <2>3
  <2>7. \A e \in Event : e.file = "other" => Triggered(e) = {}
      BY <2>1, <2>3
  <2>8. QED
      BY <1>3, <2>1, <2>5, <2>6, <2>7, JobTable, FileTable
<1>4. QED
    BY <1>1, <1>2, <1>3 DEF LoopKinds

LEMMA EventValues ==
    /\ \A f \in Files \cup {"other"} : Written(f) \in Event /\ Opened(f) \in Event
    /\ \A f : /\ Written(f).file = f /\ Written(f).access = FALSE
              /\ Opened(f).file = f /\ Opened(f).access = TRUE
    /\ "lzi" \in Files /\ "go" \in Files /\ "toml" \in Files
    BY DEF Written, Opened, Event, Files
-----------------------------------------------------------------------------
(***************************************************************************)
(* The queue: a file's event stays in it until the loop takes it.          *)
(***************************************************************************)
Queued(q, e) == \E i \in 1..Len(q) : q[i] = e

LEMMA SentKeeps ==
    ASSUME kind \in LoopKinds, NEW q \in Seq(Event), NEW e \in Event
    PROVE  /\ Sent(q, e) \in Seq(Event)
           /\ \A x : Queued(q, x) => Queued(Sent(q, e), x)
           /\ \A x : Queued(Sent(q, e), x) => Queued(q, x) \/ x = e
           /\ Triggered(e) # {} => Queued(Sent(q, e), e)
<1> HIDE DEF Event
<1>1. CASE Sent(q, e) = Append(q, e)
  <2> DEFINE a == Append(q, e)
             n == Len(q)
  <2>1. n \in Nat /\ a \in Seq(Event) /\ Len(a) = n + 1
      OBVIOUS
  <2>2. a[n + 1] = e /\ \A i \in 1..n : a[i] = q[i]
      OBVIOUS
  <2> HIDE DEF a, n
  <2>3. ASSUME NEW x, NEW i \in 1..n, q[i] = x PROVE \E k \in 1..Len(a) : a[k] = x
    <3>1. i \in 1..Len(a)
        BY <2>1, <2>3
    <3>2. QED
        BY <2>2, <2>3, <3>1
  <2>4. ASSUME NEW x, NEW i \in 1..Len(a), a[i] = x, x # e PROVE \E k \in 1..n : q[k] = x
    <3>1. i \in 1..n
        BY <2>1, <2>2, <2>4
    <3>2. QED
        BY <2>2, <2>4, <3>1
  <2>5. n + 1 \in 1..Len(a)
      BY <2>1
  <2>6. /\ \A x : Queued(q, x) => Queued(a, x)
        /\ \A x : Queued(a, x) => Queued(q, x) \/ x = e
        /\ Queued(a, e)
      BY <2>2, <2>3, <2>4, <2>5 DEF Queued, n
  <2>7. QED
      BY <1>1, <2>1, <2>6 DEF a
<1>2. CASE Sent(q, e) # Append(q, e)
  <2>1. /\ Sent(q, e) = q
        /\ \/ kind = "test" /\ Triggered(e) = {}
           \/ e.access /\ \E i \in DOMAIN q : q[i] = e
      BY <1>2 DEF Sent
  <2>2. Triggered(e) # {} => Queued(q, e)
    <3>1. DOMAIN q = 1..Len(q)
        OBVIOUS
    <3>2. QED
        BY <2>1, <3>1 DEF Queued
  <2>3. QED
      BY <2>1, <2>2
<1>3. QED
    BY <1>1, <1>2

LEMMA TakeKeeps ==
    ASSUME NEW q \in Seq(Event), q # <<>>
    PROVE  /\ Head(q) \in Event /\ Tail(q) \in Seq(Event)
           /\ \A x : Queued(q, x) => x = Head(q) \/ Queued(Tail(q), x)
           /\ \A x : Queued(Tail(q), x) => Queued(q, x)
<1> HIDE DEF Event
<1> DEFINE n == Len(q)
           t == Tail(q)
<1>1. n \in Nat \ {0} /\ Head(q) = q[1] /\ Head(q) \in Event
    OBVIOUS
<1>2. t \in Seq(Event) /\ Len(t) = n - 1 /\ \A i \in 1..(n - 1) : t[i] = q[i + 1]
    OBVIOUS
<1> HIDE DEF n, t
<1>3. ASSUME NEW x, NEW i \in 1..n, q[i] = x, x # Head(q) PROVE \E k \in 1..Len(t) : t[k] = x
  <2>1. i - 1 \in 1..(n - 1) /\ (i - 1) + 1 = i
      BY <1>1, <1>3
  <2>2. t[i - 1] = x
      BY <1>2, <1>3, <2>1
  <2>3. QED
      BY <1>2, <2>1, <2>2
<1>4. ASSUME NEW x, NEW i \in 1..Len(t), t[i] = x PROVE \E k \in 1..n : q[k] = x
  <2>1. i \in 1..(n - 1) /\ i + 1 \in 1..n
      BY <1>1, <1>2, <1>4
  <2>2. QED
      BY <1>2, <1>4, <2>1
<1>5. QED
    BY <1>1, <1>2, <1>3, <1>4 DEF Queued, n, t
-----------------------------------------------------------------------------
(***************************************************************************)
(* Next, action by action.                                                 *)
(***************************************************************************)
LEMMA NextActions ==
    ASSUME [Next]_vars
    PROVE  \/ UNCHANGED vars
           \/ \E f \in Files, ok \in BOOLEAN : Save(f, ok)
           \/ OtherFile \/ ServerExits
           \/ Read \/ FinishRegen \/ FinishReport \/ Install \/ DevCollect \/ DevRegen
           \/ DoctorEvent \/ TestEvent \/ TestTimeout \/ TestDrain
           \/ DoctorElapse \/ \E j \in Jobs : TestElapse(j)
<1>1. "lzi" \in Files /\ "toml" \in Files
    BY DEF Files
<1>2. QED
    BY <1>1 DEF Next, World, Loop, Timers

(***************************************************************************)
(* The values of the variables.  No number of a save is ahead of the       *)
(* counter, so that the next save is a new one.                            *)
(***************************************************************************)
ValuesOK ==
    /\ kind \in Kinds /\ kind \in LoopKinds /\ access \in BOOLEAN
    /\ saves \in 0..MaxSaves
    /\ disk \in [Files -> 0..saves]
    /\ bad \in SUBSET (0..saves)
    /\ seen \in [Jobs -> [Files -> 0..saves]]
    /\ server \in (0..saves) \cup {None}
    /\ missed \in SUBSET Files /\ dropped \in SUBSET Files /\ exited \in BOOLEAN
    /\ queue \in Seq(Event)
    /\ skipped \in SUBSET JobsOf(kind) /\ unwritten \in BOOLEAN /\ noRun \in BOOLEAN

\* Where the loop is, and what it has to do.
ControlOK ==
    /\ pc \in {"first", "install", "wait", "collect", "drain", "run", "dead"}
    /\ reading \in BOOLEAN /\ (reading => todo # {})
    /\ todo \in SUBSET JobsOf(kind) /\ (Running <=> todo # {})
    /\ pc = "first" => todo = JobsOf(kind)
    /\ watching \in BOOLEAN
    /\ pc \in {"wait", "collect", "drain", "run"} => watching
    /\ pc \in {"first", "install"} => ~watching
    /\ changed \in BOOLEAN /\ (changed => pc = "collect")
    /\ recent \in BOOLEAN /\ (recent => kind = "doctor")
    /\ buckets \in [Jobs -> {"none", "waiting", "over"}]
    /\ \A j \in Jobs : buckets[j] # "none" => kind = "test" /\ j \in JobsOf("test")

LEMMA InitValues == Init => ValuesOK
<1> SUFFICES ASSUME Init PROVE ValuesOK
    OBVIOUS
<1>1. kind \in Kinds /\ kind \in LoopKinds /\ MaxSaves \in Nat
    BY WatchAssumption DEF Init, LoopKinds
<1>2. 0 \in 0..0 /\ 0 \in 0..MaxSaves
    BY <1>1
<1>3. saves = 0 /\ disk \in [Files -> 0..saves]
    BY <1>2 DEF Init
<1>4. seen \in [Jobs -> [Files -> 0..saves]]
    BY <1>3 DEF Init
<1>5. /\ bad = {} /\ server = None /\ missed = {} /\ dropped = {} /\ exited = FALSE
      /\ access \in BOOLEAN /\ queue = <<>>
    BY DEF Init
<1> HIDE DEF Event
<1>6. queue \in Seq(Event)
    BY <1>5
<1>7. skipped = {} /\ unwritten \in BOOLEAN /\ noRun \in BOOLEAN
    BY DEF Init
<1>8. QED
    BY <1>1, <1>2, <1>3, <1>4, <1>5, <1>6, <1>7 DEF ValuesOK

LEMMA InitControl == Init => ControlOK
<1> SUFFICES ASSUME Init PROVE ControlOK
    OBVIOUS
<1>1. kind \in LoopKinds
    BY WatchAssumption DEF Init, LoopKinds
<1>2. JobsOf(kind) # {}
    BY <1>1, JobTable
<1>3. QED
    BY <1>2 DEF Init, ControlOK, Running

LEMMA NotifyKeeps ==
    ASSUME ValuesOK, NEW e \in Event, Notify(e)
    PROVE  /\ queue' \in Seq(Event)
           /\ \A x : Queued(queue, x) => Queued(queue', x)
           /\ \A x : Queued(queue', x) => Queued(queue, x) \/ x = e
           /\ watching /\ Triggered(e) # {} => Queued(queue', e)
<1>1. kind \in LoopKinds /\ queue \in Seq(Event)
    BY DEF ValuesOK
<1>2. CASE watching
    BY <1>1, <1>2, SentKeeps DEF Notify
<1>3. CASE ~watching
    BY <1>1, <1>3 DEF Notify
<1>4. QED
    BY <1>2, <1>3

\* What runs now was due.
LEMMA CurrentIsDue ==
    ASSUME todo # {}
    PROVE  Current \subseteq todo
<1>1. (CHOOSE j \in todo : TRUE) \in todo
    BY Zenon
<1>2. QED
    BY <1>1 DEF Current

LEMMA CurrentNotEmpty ==
    ASSUME todo # {}
    PROVE  Current # {}
    BY DEF Current

LEMMA SameRun ==
    ASSUME UNCHANGED <<pc, todo>>
    PROVE  Current' = Current
    BY Zenon DEF Current

\* Reading adds events of files being opened, where the platform has them.
LEMMA ReadKeeps ==
    ASSUME ValuesOK, Read
    PROVE  /\ queue' \in Seq(Event)
           /\ \A x : Queued(queue, x) => Queued(queue', x)
           /\ \A x : Queued(queue', x) =>
                 \/ Queued(queue, x)
                 \/ access /\ x \in Event /\ x.access = TRUE
<1> HIDE DEF Event
<1>1. kind \in LoopKinds /\ queue \in Seq(Event)
    BY DEF ValuesOK
<1>2. \A f \in {"lzi", "toml"} : Opened(f) \in Event /\ Opened(f).access = TRUE
    BY EventValues
<1> DEFINE q == Sent(queue, Opened("toml"))
           p == Sent(q, Opened("lzi"))
<1>3. queue' \in {queue, q, p} /\ (queue' # queue => access /\ watching)
    BY DEF Read
<1>4. /\ q \in Seq(Event)
      /\ \A x : Queued(queue, x) => Queued(q, x)
      /\ \A x : Queued(q, x) => Queued(queue, x) \/ x = Opened("toml")
    BY <1>1, <1>2, SentKeeps
<1> HIDE DEF q
<1>5. /\ p \in Seq(Event)
      /\ \A x : Queued(q, x) => Queued(p, x)
      /\ \A x : Queued(p, x) => Queued(q, x) \/ x = Opened("lzi")
    BY <1>1, <1>2, <1>4, SentKeeps
<1> HIDE DEF p
<1>6. CASE queue' # queue
    BY <1>2, <1>3, <1>4, <1>5, <1>6
<1>7. CASE queue' = queue
    BY <1>1, <1>7
<1>8. QED
    BY <1>6, <1>7

\* What a run reads: its sources, or of a job it does not get to the manifest.
ReadOf(j, reached) ==
    IF j \in reached THEN disk
    ELSE IF j \in Current THEN [seen[j] EXCEPT !["toml"] = disk["toml"]] ELSE seen[j]

LEMMA ReadEffect ==
    ASSUME ValuesOK, Read
    PROVE  /\ Running /\ reading /\ reading' = FALSE
           /\ UNCHANGED <<kind, access, noRun, disk, bad, pc, todo, watching, changed, recent,
                          buckets, server, saves, unwritten, exited>>
           /\ \E reached \in SUBSET Current :
                /\ reached = {} /\ Current # {} => disk["toml"] \in bad
                /\ seen' = [j \in Jobs |-> ReadOf(j, reached)]
                /\ skipped' = (skipped \ Current) \cup (Current \ reached)
                /\ LET files == {"toml"} \cup UNION {Inputs(j) : j \in reached}
                   IN  missed' = missed \ files /\ dropped' = dropped \ files
<1>1. /\ Running /\ reading /\ reading' = FALSE
      /\ UNCHANGED <<kind, access, noRun, disk, bad, pc, todo, watching, changed, recent,
                     buckets, server, saves, unwritten, exited>>
    BY DEF Read, setup, loopVars
<1>2. PICK reached \in Reached :
        /\ seen' = [j \in Jobs |-> ReadOf(j, reached)]
        /\ skipped' = (skipped \ Current) \cup (Current \ reached)
        /\ missed' = missed \ ({"toml"} \cup UNION {Inputs(j) : j \in reached})
        /\ dropped' = dropped \ ({"toml"} \cup UNION {Inputs(j) : j \in reached})
    BY DEF Read, ReadOf
<1>3. reached \in SUBSET Current /\ (reached = {} => disk["toml"] \in bad)
    BY DEF Reached
<1>4. QED
    BY <1>1, <1>2, <1>3

LEMMA TakeEffect ==
    ASSUME ValuesOK, Take
    PROVE  /\ queue' \in Seq(Event) /\ Head(queue) \in Event
           /\ \A x : Queued(queue, x) => x = Head(queue) \/ Queued(queue', x)
           /\ \A x : Queued(queue', x) => Queued(queue, x)
    BY TakeKeeps DEF ValuesOK, Take

LEMMA StepValues ==
    ASSUME ValuesOK, ControlOK, [Next]_vars
    PROVE  ValuesOK'
<1> HIDE DEF Event
<1>1. /\ kind \in Kinds /\ kind \in LoopKinds /\ access \in BOOLEAN
      /\ saves \in 0..MaxSaves /\ MaxSaves \in Nat
      /\ disk \in [Files -> 0..saves] /\ bad \in SUBSET (0..saves)
      /\ seen \in [Jobs -> [Files -> 0..saves]]
      /\ server \in (0..saves) \cup {None}
      /\ missed \in SUBSET Files /\ dropped \in SUBSET Files /\ exited \in BOOLEAN
      /\ queue \in Seq(Event)
      /\ skipped \in SUBSET JobsOf(kind) /\ unwritten \in BOOLEAN /\ noRun \in BOOLEAN
    BY WatchAssumption DEF ValuesOK
<1>2. \A f \in Files \cup {"other"} : Written(f) \in Event
    BY EventValues
\* A counted event: what was numbered stays so.
<1>3. ASSUME saves < MaxSaves, saves' = saves + 1
      PROVE  /\ saves' \in 0..MaxSaves /\ saves + 1 \in 0..saves'
             /\ 0..saves \subseteq 0..saves'
             /\ disk \in [Files -> 0..saves'] /\ bad \in SUBSET (0..saves')
             /\ seen \in [Jobs -> [Files -> 0..saves']]
             /\ server \in (0..saves') \cup {None}
  <2>1. saves' \in 0..MaxSaves /\ saves + 1 \in 0..saves' /\ 0..saves \subseteq 0..saves'
      BY <1>1, <1>3
  <2> DEFINE I == 0..saves
             J == 0..saves'
  <2>2. I \subseteq J
      BY <2>1
  <2>3. disk \in [Files -> I] /\ seen \in [Jobs -> [Files -> I]]
      BY <1>1
  <2> HIDE DEF I, J
  <2>4. disk \in [Files -> J] /\ seen \in [Jobs -> [Files -> J]]
      BY <2>2, <2>3
  <2>5. QED
      BY <1>1, <2>1, <2>4 DEF J
<1>4. ASSUME NEW f \in Files, NEW ok \in BOOLEAN, Save(f, ok) PROVE ValuesOK'
  <2>1. /\ saves < MaxSaves /\ saves' = saves + 1 /\ disk' = [disk EXCEPT ![f] = saves + 1]
        /\ bad' \in {bad, bad \cup {saves + 1}}
        /\ missed' \in {missed, missed \cup {f}}
        /\ Notify(Written(f)) \/ UNCHANGED queue
        /\ UNCHANGED <<kind, access, noRun, seen, server, dropped, skipped, unwritten, exited>>
      BY <1>4 DEF Save, setup
  <2>2. queue' \in Seq(Event)
      BY <1>1, <1>2, <2>1, NotifyKeeps
  <2>3. disk' \in [Files -> 0..saves']
    <3> DEFINE J == 0..saves'
    <3>1. disk \in [Files -> J] /\ saves + 1 \in J
        BY <1>3, <2>1
    <3> HIDE DEF J
    <3>2. disk' \in [Files -> J]
        BY <2>1, <3>1
    <3>3. QED
        BY <3>2 DEF J
  <2>4. bad' \in SUBSET (0..saves')
      BY <1>3, <2>1
  <2>5. QED
      BY <1>1, <1>3, <2>1, <2>2, <2>3, <2>4 DEF ValuesOK
<1>5. CASE OtherFile
  <2>1. /\ saves < MaxSaves /\ saves' = saves + 1 /\ Notify(Written("other"))
        /\ UNCHANGED <<kind, access, noRun, disk, bad, seen, server, missed, dropped, skipped,
                       unwritten, exited>>
      BY <1>5 DEF OtherFile, history, setup
  <2>2. queue' \in Seq(Event)
      BY <1>2, <2>1, NotifyKeeps
  <2>3. QED
      BY <1>1, <1>3, <2>1, <2>2 DEF ValuesOK
<1>6. CASE ServerExits
    BY <1>1, <1>6 DEF ServerExits, ValuesOK, setup
<1>7. CASE Read
  <2>1. UNCHANGED <<kind, access, noRun, disk, bad, server, saves, unwritten, exited>>
      BY <1>7, ReadEffect
  <2>2. PICK reached \in SUBSET Current :
          /\ seen' = [j \in Jobs |-> ReadOf(j, reached)]
          /\ skipped' = (skipped \ Current) \cup (Current \ reached)
          /\ missed' \subseteq missed /\ dropped' \subseteq dropped
      BY <1>7, ReadEffect
  <2>3. seen' \in [Jobs -> [Files -> 0..saves]]
    <3> DEFINE I == 0..saves
               D == [Files -> I]
    <3>1. disk \in D /\ seen \in [Jobs -> D]
        BY <1>1
    <3>2. ASSUME NEW j \in Jobs PROVE ReadOf(j, reached) \in D
      <4>1. "toml" \in Files /\ seen[j] \in D
          BY <3>1 DEF Files
      <4>2. disk["toml"] \in I
          BY <3>1, <4>1
      <4> HIDE DEF I, Files
      <4>3. [seen[j] EXCEPT !["toml"] = disk["toml"]] \in D
          BY <4>1, <4>2
      <4> HIDE DEF D
      <4>4. QED
          BY <3>1, <4>1, <4>3 DEF ReadOf
    <3> HIDE DEF D
    <3>3. seen' \in [Jobs -> D]
        BY <2>2, <3>2
    <3>4. QED
        BY <3>3 DEF D
  <2>4. queue' \in Seq(Event)
      BY <1>7, ReadKeeps
  <2>5. skipped' \in SUBSET JobsOf(kind)
    <3>1. Current \subseteq JobsOf(kind)
        BY <1>7, ReadEffect, CurrentIsDue DEF ControlOK
    <3>2. QED
        BY <1>1, <2>2, <3>1
  <2>6. QED
      BY <1>1, <2>1, <2>2, <2>3, <2>4, <2>5 DEF ValuesOK
<1>8. CASE FinishRegen
  <2>1. /\ UNCHANGED <<kind, access, noRun, disk, bad, seen, saves, missed, dropped, skipped>>
        /\ Notify(Written("other")) \/ UNCHANGED queue
        /\ server' \in {server, None, seen["gen"]["lzi"]}
        /\ UNCHANGED exited \/ exited' = FALSE
        /\ UNCHANGED unwritten \/ unwritten' = TRUE
      BY <1>8 DEF FinishRegen, setup
  <2>2. seen["gen"]["lzi"] \in 0..saves
      BY <1>1 DEF Jobs, Files
  <2>3. queue' \in Seq(Event)
      BY <1>1, <1>2, <2>1, NotifyKeeps
  <2>4. QED
      BY <1>1, <2>1, <2>2, <2>3 DEF ValuesOK
<1>9. ASSUME UNCHANGED <<kind, access, noRun, disk, bad, seen, saves, missed, skipped>>,
             server' \in {server, None}, exited' \in BOOLEAN, unwritten' \in BOOLEAN,
             dropped' \in SUBSET Files, queue' \in Seq(Event)
      PROVE  ValuesOK'
    BY <1>1, <1>9 DEF ValuesOK
<1>10. CASE FinishReport
    BY <1>1, <1>9, <1>10 DEF FinishReport, history, setup
<1>11. CASE Install
    BY <1>1, <1>9, <1>11 DEF Install, history, setup
<1>12. CASE DevCollect
  <2>1. queue' \in Seq(Event)
      BY <1>12, TakeEffect DEF DevCollect, setup
  <2>2. QED
      BY <1>1, <1>9, <1>12, <2>1 DEF DevCollect, history, setup
<1>13. CASE DevRegen
  <2>1. /\ UNCHANGED <<kind, access, noRun, disk, bad, seen, saves, missed, dropped, skipped,
                       queue>>
        /\ server' \in {server, None} /\ exited' = (exited /\ ~changed)
        /\ unwritten' = (unwritten /\ ~changed)
      BY <1>13 DEF DevRegen, setup
  <2>2. exited' \in BOOLEAN /\ unwritten' \in BOOLEAN
      BY <2>1
  <2>3. QED
      BY <1>1, <1>9, <2>1, <2>2
<1>14. CASE DoctorEvent
  <2>1. queue' \in Seq(Event) /\ Head(queue) \in Event
      BY <1>14, TakeEffect DEF DoctorEvent, setup
  <2>2. Triggered(Head(queue)) # {} => Head(queue).file \in Files
    <3>1. Head(queue).file \in Files \cup {"other"}
        BY <2>1 DEF Event
    <3>2. QED
        BY <1>1, <2>1, <3>1, TriggeredTable
  <2>3. dropped' \in SUBSET Files
      BY <1>1, <1>14, <2>2 DEF DoctorEvent, setup
  <2>4. UNCHANGED <<kind, access, noRun, disk, bad, seen, saves, missed, server, skipped,
                    unwritten, exited>>
      BY <1>14 DEF DoctorEvent, setup
  <2>5. QED
      BY <1>1, <1>9, <2>1, <2>3, <2>4
<1>15. CASE TestEvent
  <2>1. queue' \in Seq(Event)
      BY <1>15, TakeEffect DEF TestEvent, setup
  <2>2. QED
      BY <1>1, <1>9, <1>15, <2>1 DEF TestEvent, history, setup
<1>16. CASE TestTimeout
    BY <1>1, <1>9, <1>16 DEF TestTimeout, history, setup
<1>17. CASE TestDrain
    BY <1>1, <1>9, <1>17 DEF TestDrain, history, setup
<1>18. CASE DoctorElapse
    BY <1>1, <1>9, <1>18 DEF DoctorElapse, history, setup
<1>19. ASSUME NEW j \in Jobs, TestElapse(j) PROVE ValuesOK'
    BY <1>1, <1>9, <1>19 DEF TestElapse, history, setup
<1>20. CASE UNCHANGED vars
    BY <1>1, <1>9, <1>20 DEF vars, history, setup
<1>21. QED
    BY <1>4, <1>5, <1>6, <1>7, <1>8, <1>10, <1>11, <1>12, <1>13, <1>14, <1>15, <1>16, <1>17,
       <1>18, <1>19, <1>20, NextActions

LEMMA StepControl ==
    ASSUME ValuesOK, ControlOK, [Next]_vars
    PROVE  ControlOK'
<1>1. kind \in LoopKinds /\ queue \in Seq(Event)
    BY DEF ValuesOK
<1>2. JobsOf(kind) \subseteq Jobs /\ JobsOf(kind) # {}
    BY <1>1, JobTable
\* Most steps leave the loop where it is.
<1>3. ASSUME UNCHANGED <<kind, pc, todo, watching, changed, recent, buckets>>,
             reading' \in {reading, FALSE}
      PROVE  ControlOK'
  <2>1. reading' \in BOOLEAN /\ (reading' => todo # {})
    <3>1. reading' = reading \/ reading' = FALSE
        BY <1>3, Zenon
    <3>2. CASE reading' = reading
        BY <3>2 DEF ControlOK
    <3>3. CASE reading' = FALSE
        BY <3>3, Zenon
    <3>4. QED
        BY <3>1, <3>2, <3>3
  <2>2. QED
      BY <1>3, <2>1 DEF ControlOK, Running
<1>4. ASSUME NEW f \in Files, NEW ok \in BOOLEAN, Save(f, ok) PROVE ControlOK'
    BY <1>3, <1>4 DEF Save, loopVars, setup
<1>5. CASE OtherFile
    BY <1>3, <1>5 DEF OtherFile, loopVars, setup
<1>6. CASE ServerExits
    BY <1>3, <1>6 DEF ServerExits, loopVars, setup
<1>7. CASE Read
    BY <1>3, <1>7 DEF Read, loopVars, setup
<1>8. CASE FinishRegen
  <2>1. /\ Running /\ ~reading /\ todo' = {}
        /\ UNCHANGED <<kind, reading, watching, changed, recent, buckets>>
        /\ \/ pc = "first" /\ pc' \in {"install", "dead"}
           \/ pc # "first" /\ pc' \in {"wait", "dead"}
      BY <1>8 DEF FinishRegen, AfterRegen, loopVars, setup
  <2>2. QED
      BY <2>1 DEF ControlOK, Running
<1>9. CASE FinishReport
  <2>1. /\ Running /\ ~reading /\ todo' = todo \ Current
        /\ pc' = IF pc = "first" THEN "install" ELSE IF todo' = {} THEN "wait" ELSE "run"
        /\ reading' = (todo' # {})
        /\ UNCHANGED <<kind, watching, changed, recent, buckets>>
      BY <1>9 DEF FinishReport, loopVars, setup
  <2>2. pc = "first" => todo' = {}
      BY <2>1 DEF Current
  <2>3. reading' \in BOOLEAN /\ (reading' => todo' # {}) /\ (Running' <=> todo' # {})
      BY <2>1, <2>2 DEF Running
  <2>4. QED
      BY <2>1, <2>3 DEF ControlOK, Running
<1>10. CASE Install
  <2>1. /\ pc = "install" /\ watching' = TRUE /\ recent' = (kind = "doctor") /\ pc' = "wait"
        /\ UNCHANGED <<kind, reading, todo, changed, buckets>>
      BY <1>10 DEF Install, setup
  <2>2. recent' \in BOOLEAN /\ (recent' => kind = "doctor")
      BY <2>1
  <2>3. QED
      BY <2>1, <2>2 DEF ControlOK, Running
\* The loop begins to run jobs of its own.
<1>11. ASSUME NEW jobs \in SUBSET JobsOf(kind), Begin(jobs)
       PROVE  /\ pc' \in {"wait", "run"} /\ reading' \in BOOLEAN /\ (reading' => todo' # {})
              /\ todo' \in SUBSET JobsOf(kind) /\ (Running' <=> todo' # {})
  <2>1. todo' = jobs /\ pc' = IF jobs = {} THEN "wait" ELSE "run"
      BY <1>11 DEF Begin
  <2>2. reading' \in BOOLEAN /\ (reading' => jobs # {})
      BY <1>11 DEF Begin
  <2>3. QED
      BY <2>1, <2>2 DEF Running
<1>12. CASE DevCollect
  <2>1. /\ pc \in {"wait", "collect"} /\ pc' = "collect"
        /\ changed' = (changed \/ Triggered(Head(queue)) # {})
        /\ UNCHANGED <<kind, reading, todo, watching, recent, buckets>>
      BY <1>12 DEF DevCollect, setup
  <2>2. changed' \in BOOLEAN
      BY <2>1
  <2>3. QED
      BY <2>1, <2>2 DEF ControlOK, Running
<1>13. CASE DevRegen
  <2>1. /\ pc = "collect" /\ changed' = FALSE
        /\ UNCHANGED <<kind, watching, recent, buckets>>
      BY <1>13 DEF DevRegen, setup
  <2>2. (IF changed THEN {"gen"} ELSE {}) \in SUBSET JobsOf(kind)
      BY <1>13, JobTable DEF DevRegen, setup
  <2>3. /\ pc' \in {"wait", "run"} /\ reading' \in BOOLEAN /\ (reading' => todo' # {})
        /\ todo' \in SUBSET JobsOf(kind) /\ (Running' <=> todo' # {})
      BY <1>11, <1>13, <2>2 DEF DevRegen, setup
  <2>4. QED
      BY <2>1, <2>3 DEF ControlOK
<1>14. CASE DoctorEvent
  <2>1. /\ kind = "doctor" /\ pc = "wait"
        /\ UNCHANGED <<kind, watching, changed, buckets>>
        /\ \/ Begin({"doctor"}) /\ recent' = TRUE
           \/ UNCHANGED <<todo, pc, reading, recent>>
      BY <1>14 DEF DoctorEvent, setup
  <2>2. CASE Begin({"doctor"}) /\ recent' = TRUE
    <3>1. {"doctor"} \in SUBSET JobsOf(kind)
        BY <2>1, JobTable
    <3>2. /\ pc' \in {"wait", "run"} /\ reading' \in BOOLEAN /\ (reading' => todo' # {})
          /\ todo' \in SUBSET JobsOf(kind) /\ (Running' <=> todo' # {})
        BY <1>11, <2>2, <3>1
    <3>3. QED
        BY <2>1, <2>2, <3>2 DEF ControlOK
  <2>3. CASE UNCHANGED <<todo, pc, reading, recent>>
      BY <1>3, <2>1, <2>3
  <2>4. QED
      BY <2>1, <2>2, <2>3
<1>15. CASE TestEvent
  <2>1. /\ kind = "test" /\ pc = "wait" /\ pc' = "drain"
        /\ buckets' = [j \in Jobs |-> IF j \in Triggered(Head(queue)) THEN "waiting" ELSE buckets[j]]
        /\ UNCHANGED <<kind, reading, todo, watching, changed, recent>>
      BY <1>15 DEF TestEvent, setup
  <2>2. Triggered(Head(queue)) \subseteq JobsOf("test")
      BY <1>1, <1>15, <2>1, TakeEffect, TriggeredTable DEF TestEvent, setup
  <2>3. /\ buckets' \in [Jobs -> {"none", "waiting", "over"}]
        /\ \A j \in Jobs : buckets'[j] # "none" => j \in JobsOf("test")
      BY <2>1, <2>2 DEF ControlOK
  <2>4. QED
      BY <2>1, <2>3 DEF ControlOK, Running
<1>16. CASE TestTimeout
  <2>1. /\ pc = "wait" /\ pc' = "drain"
        /\ UNCHANGED <<kind, reading, todo, watching, changed, recent, buckets>>
      BY <1>16 DEF TestTimeout, loopVars, setup
  <2>2. QED
      BY <2>1 DEF ControlOK, Running
<1>17. CASE TestDrain
  <2>1. /\ kind = "test" /\ pc = "drain" /\ Begin(Over)
        /\ buckets' = [j \in Jobs |-> IF j \in Over THEN "none" ELSE buckets[j]]
        /\ UNCHANGED <<kind, watching, changed, recent>>
      BY <1>17 DEF TestDrain, setup
  <2>2. Over \in SUBSET JobsOf(kind)
      BY <2>1 DEF Over, ControlOK
  <2>3. /\ pc' \in {"wait", "run"} /\ reading' \in BOOLEAN /\ (reading' => todo' # {})
        /\ todo' \in SUBSET JobsOf(kind) /\ (Running' <=> todo' # {})
      BY <1>11, <2>1, <2>2
  <2>4. /\ buckets' \in [Jobs -> {"none", "waiting", "over"}]
        /\ \A j \in Jobs : buckets'[j] # "none" => buckets[j] # "none"
      BY <2>1 DEF ControlOK
  <2>5. QED
      BY <2>1, <2>3, <2>4 DEF ControlOK
<1>18. CASE DoctorElapse
  <2>1. /\ recent' = FALSE
        /\ UNCHANGED <<kind, pc, reading, todo, watching, changed, buckets>>
      BY <1>18 DEF DoctorElapse, setup
  <2>2. QED
      BY <2>1 DEF ControlOK, Running
<1>19. ASSUME NEW j \in Jobs, TestElapse(j) PROVE ControlOK'
  <2>1. /\ buckets[j] = "waiting" /\ buckets' = [buckets EXCEPT ![j] = "over"]
        /\ UNCHANGED <<kind, pc, reading, todo, watching, changed, recent>>
      BY <1>19 DEF TestElapse, setup
  <2>2. /\ buckets' \in [Jobs -> {"none", "waiting", "over"}]
        /\ \A i \in Jobs : buckets'[i] # "none" => buckets[i] # "none"
      BY <2>1 DEF ControlOK
  <2>3. QED
      BY <2>1, <2>2 DEF ControlOK, Running
<1>20. CASE UNCHANGED vars
    BY <1>3, <1>20 DEF vars, loopVars, setup
<1>21. QED
    BY <1>4, <1>5, <1>6, <1>7, <1>8, <1>9, <1>10, <1>12, <1>13, <1>14, <1>15, <1>16, <1>17,
       <1>18, <1>19, <1>20, NextActions

LEMMA WatchInv == Spec => [](ValuesOK /\ ControlOK)
<1>1. Init => ValuesOK /\ ControlOK
    BY InitValues, InitControl
<1>2. ValuesOK /\ ControlOK /\ [Next]_vars => (ValuesOK /\ ControlOK)'
    BY StepValues, StepControl
<1>3. QED
    BY <1>1, <1>2, PTL DEF Spec

(***************************************************************************)
(* The variables keep their types, only the loop's own jobs are ever due,  *)
(* and a run has something to run, for any number of saves and faults.     *)
(***************************************************************************)
THEOREM WatchTypeCorrect == Spec => []TypeOK
<1>1. ValuesOK /\ ControlOK => TypeOK
  <2> SUFFICES ASSUME ValuesOK, ControlOK PROVE TypeOK
      OBVIOUS
  <2>1. saves \in 0..MaxSaves /\ MaxSaves \in Nat
      BY WatchAssumption DEF ValuesOK
  <2> DEFINE I == 0..saves
  <2>2. I \subseteq Count
      BY <2>1 DEF Count
  <2>3. /\ disk \in [Files -> I] /\ seen \in [Jobs -> [Files -> I]]
        /\ bad \subseteq I /\ server \in I \cup {None}
      BY DEF ValuesOK
  <2> HIDE DEF I
  <2>4. disk \in [Files -> Count] /\ seen \in [Jobs -> [Files -> Count]]
      BY <2>2, <2>3
  <2>5. bad \subseteq Count /\ server \in Count \cup {None}
      BY <2>2, <2>3
  <2>6. watching = (pc \in {"wait", "collect", "drain", "run"} \/ (pc = "dead" /\ watching))
      BY DEF ControlOK
  <2>7. /\ kind \in Kinds /\ access \in BOOLEAN
        /\ missed \subseteq Files /\ dropped \subseteq Files /\ exited \in BOOLEAN
        /\ queue \in Seq(Event)
        /\ skipped \subseteq JobsOf(kind) /\ unwritten \in BOOLEAN /\ noRun \in BOOLEAN
      BY DEF ValuesOK
  <2>8. QED
      BY <2>4, <2>5, <2>6, <2>7 DEF TypeOK, ControlOK
<1>2. QED
    BY <1>1, WatchInv, PTL
-----------------------------------------------------------------------------
(***************************************************************************)
(* No save is forgotten.  What a job has not seen yet of a file it watches *)
(* is on its way to it: its event is queued, or collected, or in a bucket, *)
(* or the job is due and has yet to read; unless the job's last run ended  *)
(* before it read its sources.  The doctor's has no such run but for a     *)
(* manifest that does not load.                                            *)
(***************************************************************************)
Due(j) == j \in todo /\ (reading \/ j \notin Current)

OnItsWay(j, f) ==
    Queued(queue, Written(f)) \/ Due(j) \/ buckets[j] # "none" \/ (j = "gen" /\ changed)

Followed(j, f) == seen[j][f] = disk[f] \/ OnItsWay(j, f) \/ (f # "toml" /\ j \in skipped)

NothingForgotten ==
    pc # "dead" => \A j \in JobsOf(kind) : \A f \in Watched(j) \ (missed \cup dropped) :
                      Followed(j, f)

SkippedForManifest == "doctor" \in skipped => seen["doctor"]["toml"] \in bad

LEMMA InitForgotten == Init => NothingForgotten
<1> SUFFICES ASSUME Init, NEW j \in JobsOf(kind), NEW f \in Watched(j) PROVE Followed(j, f)
    BY DEF NothingForgotten
<1>1. reading = TRUE /\ todo = JobsOf(kind)
    BY DEF Init
<1>2. QED
    BY <1>1 DEF Followed, OnItsWay, Due

\* Everything but a read and a save leaves what was seen and what is on disk.
LEMMA StepForgotten ==
    ASSUME ValuesOK, ControlOK, NothingForgotten, [Next]_vars
    PROVE  NothingForgotten'
<1>1. kind \in LoopKinds /\ kind' = kind
  <2>1. kind \in LoopKinds
      BY DEF ValuesOK
  <2>2. kind' = kind
      BY NextActions DEF Save, OtherFile, ServerExits, Read, FinishRegen, FinishReport, Install,
         DevCollect, DevRegen, DoctorEvent, TestEvent, TestTimeout, TestDrain, DoctorElapse,
         TestElapse, vars, setup
  <2>3. QED
      BY <2>1, <2>2
<1> SUFFICES ASSUME NEW j \in JobsOf(kind), NEW f \in Watched(j),
                    f \notin missed', f \notin dropped', pc' # "dead"
             PROVE  Followed(j, f)'
    BY <1>1 DEF NothingForgotten
<1>2. /\ j \in Jobs /\ f \in Files /\ f \in Inputs(j)
      /\ \A c \in JobsOf(kind) : f \in Inputs(c) => c = j
      /\ j \in Triggered(Written(f)) /\ Written(f) \in Event
    BY <1>1, OneReader, TriggeredTable, EventValues
<1>3. pc # "dead" /\ f \notin missed /\ f \notin dropped => Followed(j, f)
    BY DEF NothingForgotten
<1>4. pc # "dead"
    BY NextActions DEF Save, OtherFile, ServerExits, Read, FinishRegen, FinishReport, Install,
       DevCollect, DevRegen, DoctorEvent, TestEvent, TestTimeout, TestDrain, DoctorElapse,
       TestElapse, vars, Running, setup
\* A step that moves no run and takes nothing from the queue or a bucket.
<1>5. ASSUME UNCHANGED <<pc, todo, reading, changed>>, buckets[j] # "none" => buckets'[j] # "none",
             Queued(queue, Written(f)) => Queued(queue', Written(f)), OnItsWay(j, f)
      PROVE  OnItsWay(j, f)'
  <2>1. Current' = Current
      BY <1>5, SameRun
  <2>2. Queued(queue, Written(f))' = Queued(queue', Written(f))
      BY DEF Queued, Written
  <2>3. QED
      BY <1>5, <2>1, <2>2 DEF OnItsWay, Due
<1>6. ASSUME f \notin missed, f \notin dropped, UNCHANGED <<seen, disk, skipped>>,
             OnItsWay(j, f) => OnItsWay(j, f)'
      PROVE  Followed(j, f)'
    BY <1>3, <1>4, <1>6 DEF Followed
<1>7. ASSUME NEW g \in Files, NEW ok \in BOOLEAN, Save(g, ok) PROVE Followed(j, f)'
  <2>1. /\ disk' = [disk EXCEPT ![g] = saves + 1]
        /\ UNCHANGED <<pc, reading, todo, seen, watching, changed, buckets, dropped, skipped>>
      BY <1>7 DEF Save, loopVars, setup
  <2>2. \/ /\ Notify(Written(g))
           /\ missed' = IF watching \/ (pc = "first" /\ reading) THEN missed ELSE missed \cup {g}
        \/ missed' = missed \cup {g} /\ UNCHANGED queue
      BY <1>7 DEF Save, setup
  <2>3. CASE g = f
    <3>1. Notify(Written(f)) /\ (watching \/ (pc = "first" /\ reading))
        BY <2>2, <2>3
    <3>2. CASE watching
        BY <1>2, <3>1, <3>2, NotifyKeeps DEF Followed, OnItsWay, Queued, Written
    <3>3. CASE pc = "first" /\ reading
        BY <2>1, <3>3 DEF Followed, OnItsWay, Due, ControlOK
    <3>4. QED
        BY <3>1, <3>2, <3>3
  <2>4. CASE g # f
    <3>1. f \notin missed /\ f \notin dropped
        BY <2>1, <2>2, <2>4
    <3>2. disk'[f] = disk[f]
        BY <1>2, <2>1, <2>4 DEF ValuesOK
    <3>3. Queued(queue, Written(f)) => Queued(queue', Written(f))
        BY <2>2, NotifyKeeps, EventValues
    <3>4. OnItsWay(j, f) => OnItsWay(j, f)'
        BY <1>5, <2>1, <3>3
    <3>5. QED
        BY <1>3, <1>4, <2>1, <3>1, <3>2, <3>4 DEF Followed
  <2>5. QED
      BY <2>3, <2>4
<1>8. CASE OtherFile
  <2>1. /\ UNCHANGED <<disk, pc, reading, todo, seen, changed, buckets, missed, dropped, skipped>>
        /\ Notify(Written("other"))
      BY <1>8 DEF OtherFile, loopVars, history, setup
  <2>2. Queued(queue, Written(f)) => Queued(queue', Written(f))
      BY <2>1, NotifyKeeps, EventValues
  <2>3. QED
      BY <1>5, <1>6, <2>1, <2>2
<1>9. CASE ServerExits
  <2>1. UNCHANGED <<disk, pc, reading, todo, seen, changed, buckets, missed, dropped, skipped,
                    queue>>
      BY <1>9 DEF ServerExits, loopVars, setup
  <2>2. QED
      BY <1>5, <1>6, <2>1
<1>10. CASE Read
  <2>1. /\ reading' = FALSE /\ Running
        /\ UNCHANGED <<disk, pc, todo, changed, buckets>>
      BY <1>10, ReadEffect
  <2>2. PICK reached \in SUBSET Current :
          /\ seen' = [c \in Jobs |-> ReadOf(c, reached)]
          /\ skipped' = (skipped \ Current) \cup (Current \ reached)
          /\ missed' = missed \ ({"toml"} \cup UNION {Inputs(c) : c \in reached})
          /\ dropped' = dropped \ ({"toml"} \cup UNION {Inputs(c) : c \in reached})
      BY <1>10, ReadEffect
  <2>3. Current \subseteq JobsOf(kind)
      BY <2>1, CurrentIsDue DEF ControlOK
  <2>4. CASE j \in reached
      BY <1>2, <2>1, <2>2, <2>4 DEF Followed, ReadOf
  \* Its run stopped at the manifest or at an earlier layer.
  <2>5. CASE j \in Current \ reached
    <3>1. CASE f # "toml"
        BY <2>2, <2>5, <3>1 DEF Followed
    <3>2. CASE f = "toml"
      <4>1. seen'[j] = [seen[j] EXCEPT !["toml"] = disk["toml"]]
          BY <1>2, <2>2, <2>5 DEF ReadOf
      <4>2. seen'[j]["toml"] = disk["toml"]
          BY <1>2, <3>2, <4>1 DEF ValuesOK
      <4>3. QED
          BY <2>1, <3>2, <4>2 DEF Followed
    <3>3. QED
        BY <3>1, <3>2
  \* Another job runs, so that this one's loop does not watch the manifest.
  <2>6. CASE j \notin Current
    <3>1. Current # {} /\ f # "toml"
      <4>1. Current # {}
          BY <2>1, CurrentNotEmpty DEF ControlOK
      <4>2. QED
          BY <1>1, <2>3, <2>6, <4>1, OneReader
    <3>2. f \notin missed /\ f \notin dropped
      <4>1. f \notin UNION {Inputs(c) : c \in reached}
          BY <1>2, <2>2, <2>3, <2>6
      <4>2. QED
          BY <2>2, <3>1, <4>1
    <3>3. seen'[j] = seen[j] /\ (j \in skipped => j \in skipped')
        BY <1>2, <2>2, <2>6 DEF ReadOf
    <3>4. Queued(queue, Written(f)) => Queued(queue', Written(f))
        BY <1>10, ReadKeeps
    <3>5. Queued(queue, Written(f))' = Queued(queue', Written(f))
        BY DEF Queued, Written
    <3>6. Due(j) => Due(j)'
        BY <2>1, <2>6, SameRun DEF Due
    <3>7. OnItsWay(j, f) => OnItsWay(j, f)'
        BY <2>1, <3>4, <3>5, <3>6 DEF OnItsWay
    <3>8. QED
        BY <1>3, <1>4, <2>1, <3>2, <3>3, <3>7 DEF Followed
  <2>7. QED
      BY <2>4, <2>5, <2>6
<1>11. CASE FinishRegen
  <2>1. /\ kind = "dev" /\ Running /\ ~reading
        /\ Notify(Written("other")) \/ UNCHANGED queue
        /\ UNCHANGED <<disk, seen, changed, buckets, missed, dropped, skipped>>
      BY <1>11 DEF FinishRegen, AfterRegen, loopVars, setup
  <2>2. ~Due(j)
    <3>1. todo = {"gen"} /\ j = "gen"
        BY <2>1, JobTable DEF ControlOK
    <3>2. Current = {"gen"}
        BY <3>1, CurrentIsDue DEF Current
    <3>3. QED
        BY <2>1, <3>1, <3>2 DEF Due
  <2>3. Queued(queue, Written(f)) => Queued(queue', Written(f))
      BY <2>1, NotifyKeeps, EventValues
  <2>4. Queued(queue, Written(f))' = Queued(queue', Written(f))
      BY DEF Queued, Written
  <2>5. OnItsWay(j, f) => OnItsWay(j, f)'
      BY <2>1, <2>2, <2>3, <2>4 DEF OnItsWay
  <2>6. QED
      BY <1>6, <2>1, <2>5
<1>12. CASE FinishReport
  <2>1. /\ ~reading /\ todo' = todo \ Current /\ reading' = (todo' # {})
        /\ UNCHANGED <<disk, seen, queue, changed, buckets, missed, dropped, skipped>>
      BY <1>12 DEF FinishReport, loopVars, history, setup
  <2>2. Due(j) => Due(j)'
      BY <2>1 DEF Due
  <2>3. Queued(queue, Written(f))' = Queued(queue, Written(f))
      BY <2>1 DEF Queued, Written
  <2>4. OnItsWay(j, f) => OnItsWay(j, f)'
      BY <2>1, <2>2, <2>3 DEF OnItsWay
  <2>5. QED
      BY <1>6, <2>1, <2>4
\* Between two runs nothing is due.
<1>13. pc \notin {"first", "run"} => ~Due(j)
    BY DEF Due, ControlOK, Running
<1>14. Queued(queue, Written(f))' = Queued(queue', Written(f))
    BY DEF Queued, Written
<1>15. CASE Install
  <2>1. /\ pc = "install" /\ UNCHANGED <<disk, seen, queue, changed, buckets, missed, dropped, skipped>>
      BY <1>15 DEF Install, history, setup
  <2>2. OnItsWay(j, f) => OnItsWay(j, f)'
      BY <1>13, <1>14, <2>1 DEF OnItsWay
  <2>3. QED
      BY <1>6, <2>1, <2>2
<1>16. CASE DevCollect
  <2>1. /\ kind = "dev" /\ pc \in {"wait", "collect"} /\ Take
        /\ changed' = (changed \/ Triggered(Head(queue)) # {})
        /\ UNCHANGED <<disk, seen, buckets, missed, dropped, skipped>>
      BY <1>16 DEF DevCollect, history, setup
  <2>2. Queued(queue, Written(f)) => Queued(queue', Written(f)) \/ changed'
    <3>1. Queued(queue, Written(f)) => Written(f) = Head(queue) \/ Queued(queue', Written(f))
        BY <2>1, TakeEffect
    <3>2. Written(f) = Head(queue) => changed'
        BY <1>2, <2>1
    <3>3. QED
        BY <3>1, <3>2
  <2>3. j = "gen" /\ (changed => changed')
      BY <2>1, JobTable
  <2>4. OnItsWay(j, f) => OnItsWay(j, f)'
      BY <1>13, <1>14, <2>1, <2>2, <2>3 DEF OnItsWay
  <2>5. QED
      BY <1>6, <2>1, <2>4
<1>17. CASE DevRegen
  <2>1. /\ kind = "dev" /\ pc = "collect" /\ Begin(IF changed THEN {"gen"} ELSE {})
        /\ UNCHANGED <<disk, seen, queue, buckets, missed, dropped, skipped>>
      BY <1>17 DEF DevRegen, setup
  <2>2. changed => Due(j)'
    <3>1. j = "gen"
        BY <2>1, JobTable
    <3>2. changed => todo' = {"gen"} /\ reading'
        BY <2>1 DEF Begin
    <3>3. QED
        BY <3>1, <3>2 DEF Due
  <2>3. OnItsWay(j, f) => OnItsWay(j, f)'
      BY <1>13, <1>14, <2>1, <2>2 DEF OnItsWay
  <2>4. QED
      BY <1>6, <2>1, <2>3
<1>18. CASE DoctorEvent
  <2>1. /\ kind = "doctor" /\ pc = "wait" /\ Take
        /\ UNCHANGED <<disk, seen, changed, buckets, missed, skipped>>
      BY <1>18 DEF DoctorEvent, setup
  <2>2. CASE Begin({"doctor"})
    <3>1. j = "doctor" /\ todo' = {"doctor"} /\ reading'
        BY <2>1, <2>2, JobTable DEF Begin
    <3>2. QED
        BY <3>1 DEF Followed, OnItsWay, Due
  <2>3. CASE ~Begin({"doctor"})
    <3>1. /\ dropped' = IF Triggered(Head(queue)) # {} /\ ~Head(queue).access
                        THEN dropped \cup {Head(queue).file} ELSE dropped
        BY <1>18, <2>3 DEF DoctorEvent, setup
    <3>2. f \notin dropped
        BY <3>1
    <3>3. Written(f) # Head(queue)
      <4>1. SUFFICES ASSUME Written(f) = Head(queue) PROVE FALSE
          OBVIOUS
      <4>2. Triggered(Head(queue)) # {} /\ ~Head(queue).access /\ Head(queue).file = f
          BY <1>2, <4>1, EventValues
      <4>3. QED
          BY <3>1, <4>2
    <3>4. Queued(queue, Written(f)) => Queued(queue', Written(f))
        BY <2>1, <3>3, TakeEffect
    <3>5. OnItsWay(j, f) => OnItsWay(j, f)'
        BY <1>13, <1>14, <2>1, <3>4 DEF OnItsWay
    <3>6. QED
        BY <1>6, <2>1, <3>2, <3>5
  <2>4. QED
      BY <2>2, <2>3
<1>19. CASE TestEvent
  <2>1. /\ pc = "wait" /\ Take
        /\ buckets' = [i \in Jobs |-> IF i \in Triggered(Head(queue)) THEN "waiting" ELSE buckets[i]]
        /\ UNCHANGED <<disk, seen, changed, missed, dropped, skipped>>
      BY <1>19 DEF TestEvent, history, setup
  <2>2. buckets[j] # "none" => buckets'[j] # "none"
      BY <1>2, <2>1
  <2>3. Written(f) = Head(queue) => buckets'[j] # "none"
      BY <1>2, <2>1
  <2>4. Queued(queue, Written(f)) => Queued(queue', Written(f)) \/ buckets'[j] # "none"
      BY <2>1, <2>3, TakeEffect
  <2>5. OnItsWay(j, f) => OnItsWay(j, f)'
      BY <1>13, <1>14, <2>1, <2>2, <2>4 DEF OnItsWay
  <2>6. QED
      BY <1>6, <2>1, <2>5
<1>20. CASE TestTimeout
  <2>1. pc = "wait" /\ UNCHANGED <<disk, seen, queue, changed, buckets, missed, dropped, skipped>>
      BY <1>20 DEF TestTimeout, loopVars, history, setup
  <2>2. OnItsWay(j, f) => OnItsWay(j, f)'
      BY <1>13, <1>14, <2>1 DEF OnItsWay
  <2>3. QED
      BY <1>6, <2>1, <2>2
<1>21. CASE TestDrain
  <2>1. /\ pc = "drain" /\ Begin(Over)
        /\ buckets' = [i \in Jobs |-> IF i \in Over THEN "none" ELSE buckets[i]]
        /\ UNCHANGED <<disk, seen, queue, changed, missed, dropped, skipped>>
      BY <1>21 DEF TestDrain, history, setup
  <2>2. j \in Over => Due(j)'
    <3>1. j \in Over => todo' = Over /\ reading'
        BY <2>1 DEF Begin
    <3>2. QED
        BY <3>1 DEF Due
  <2>3. j \notin Over => buckets'[j] = buckets[j]
      BY <1>2, <2>1
  <2>4. OnItsWay(j, f) => OnItsWay(j, f)'
      BY <1>13, <1>14, <2>1, <2>2, <2>3 DEF OnItsWay
  <2>5. QED
      BY <1>6, <2>1, <2>4
<1>22. CASE DoctorElapse
  <2>1. UNCHANGED <<disk, pc, reading, todo, seen, changed, buckets, missed, dropped, skipped,
                    queue>>
      BY <1>22 DEF DoctorElapse, history, setup
  <2>2. QED
      BY <1>5, <1>6, <2>1
<1>23. ASSUME NEW i \in Jobs, TestElapse(i) PROVE Followed(j, f)'
  <2>1. /\ buckets' = [buckets EXCEPT ![i] = "over"]
        /\ UNCHANGED <<disk, pc, reading, todo, seen, changed, missed, dropped, skipped,
                    queue>>
      BY <1>23 DEF TestElapse, history, setup
  <2>2. buckets[j] # "none" => buckets'[j] # "none"
      BY <1>2, <2>1 DEF ControlOK
  <2>3. QED
      BY <1>5, <1>6, <2>1, <2>2
<1>24. CASE UNCHANGED vars
  <2>1. UNCHANGED <<disk, pc, reading, todo, seen, changed, buckets, missed, dropped, skipped,
                    queue>>
      BY <1>24 DEF vars, loopVars, history, setup
  <2>2. QED
      BY <1>5, <1>6, <2>1
<1>25. QED
    BY <1>7, <1>8, <1>9, <1>10, <1>11, <1>12, <1>15, <1>16, <1>17, <1>18, <1>19, <1>20, <1>21,
       <1>22, <1>23, <1>24, NextActions

\* Only the manifest keeps the doctor's one job from its sources.
LEMMA StepSkipped ==
    ASSUME ValuesOK, ControlOK, SkippedForManifest, [Next]_vars
    PROVE  SkippedForManifest'
<1>1. /\ kind \in LoopKinds /\ skipped \in SUBSET JobsOf(kind)
      /\ seen \in [Jobs -> [Files -> 0..saves]] /\ "doctor" \in Jobs /\ "toml" \in Files
    BY DEF ValuesOK, Jobs, Files
<1>2. CASE UNCHANGED <<seen, skipped>> /\ bad \subseteq bad'
    BY <1>2 DEF SkippedForManifest
<1>3. CASE Read
  <2>1. UNCHANGED <<disk, bad>> /\ Running
      BY <1>3, ReadEffect
  <2>2. PICK reached \in SUBSET Current :
          /\ reached = {} /\ Current # {} => disk["toml"] \in bad
          /\ seen' = [j \in Jobs |-> ReadOf(j, reached)]
          /\ skipped' = (skipped \ Current) \cup (Current \ reached)
      BY <1>3, ReadEffect
  <2>3. CASE "doctor" \in Current \ reached
    <3>1. Current \subseteq JobsOf(kind)
        BY <2>1, CurrentIsDue DEF ControlOK
    <3>2. JobsOf(kind) = {"doctor"}
        BY <1>1, <2>3, <3>1, JobTable DEF LoopKinds
    <3>3. reached = {} /\ Current # {}
        BY <2>2, <2>3, <3>1, <3>2
    <3>4. seen'["doctor"] = [seen["doctor"] EXCEPT !["toml"] = disk["toml"]]
        BY <1>1, <2>2, <2>3 DEF ReadOf
    <3>5. seen'["doctor"]["toml"] = disk["toml"]
        BY <1>1, <3>4
    <3>6. QED
        BY <2>1, <2>2, <3>3, <3>5 DEF SkippedForManifest
  <2>4. CASE "doctor" \notin Current
      BY <1>1, <2>1, <2>2, <2>4 DEF SkippedForManifest, ReadOf
  <2>5. CASE "doctor" \in reached
      BY <2>2, <2>5 DEF SkippedForManifest
  <2>6. QED
      BY <2>3, <2>4, <2>5
<1>4. Read \/ (UNCHANGED <<seen, skipped>> /\ bad \subseteq bad')
    BY NextActions DEF Save, OtherFile, ServerExits, FinishRegen, FinishReport, Install,
       DevCollect, DevRegen, DoctorEvent, TestEvent, TestTimeout, TestDrain, DoctorElapse,
       TestElapse, vars, history
<1>5. QED
    BY <1>2, <1>3, <1>4

(***************************************************************************)
(* A save that reached the watcher and was not dropped by the doctor's     *)
(* debounce is never forgotten: until the job has read it, its event or    *)
(* the run it asks for is pending, through every interleaving of saves     *)
(* with collecting, debouncing and running, unless that run stopped at its *)
(* manifest or at an earlier layer; and the doctor's run stops only at a   *)
(* manifest it could not load.                                             *)
(***************************************************************************)
THEOREM NoSaveIsForgotten == Spec => [](NothingForgotten /\ SkippedForManifest)
<1>1. Init => NothingForgotten /\ SkippedForManifest
    BY InitForgotten DEF Init, SkippedForManifest
<1>2. (ValuesOK /\ ControlOK) /\ (NothingForgotten /\ SkippedForManifest) /\ [Next]_vars
        => (NothingForgotten /\ SkippedForManifest)'
    BY StepForgotten, StepSkipped
<1>3. QED
    BY <1>1, <1>2, WatchInv, PTL DEF Spec
-----------------------------------------------------------------------------
(***************************************************************************)
(* The dev loop's server.  No server runs while the output is regenerated, *)
(* and between two runs the server runs what the last one read, none if    *)
(* that one failed: on a source that does not compile, on a manifest that  *)
(* does not load, or on its writes; unless the server ended by itself.     *)
(***************************************************************************)
Output(source) ==
    IF source \in bad \/ "gen" \in skipped \/ unwritten THEN None ELSE source

ServerOK ==
    kind = "dev" =>
      /\ dropped = {}
      /\ Running => server = None /\ ~unwritten
      /\ noRun => server = None
      /\ pc \in {"install", "wait", "collect"} /\ ~exited /\ ~noRun
            => server = Output(seen["gen"]["lzi"])

LEMMA StepServer ==
    ASSUME ValuesOK, ControlOK, ServerOK, [Next]_vars
    PROVE  ServerOK'
<1>1. /\ seen["gen"]["lzi"] \in 0..saves /\ saves \in Nat
      /\ exited \in BOOLEAN /\ unwritten \in BOOLEAN
    BY WatchAssumption DEF ValuesOK, Jobs, Files
<1>3. ASSUME NEW f \in Files, NEW ok \in BOOLEAN, Save(f, ok) PROVE ServerOK'
  <2>1. /\ bad' \in {bad, bad \cup {saves + 1}}
        /\ UNCHANGED <<kind, noRun, pc, seen, server, exited, dropped, skipped, unwritten>>
      BY <1>3 DEF Save, setup
  <2>2. seen["gen"]["lzi"] # saves + 1
      BY <1>1
  <2>3. seen["gen"]["lzi"] \in bad' <=> seen["gen"]["lzi"] \in bad
      BY <2>1, <2>2
  <2>4. QED
      BY <2>1, <2>3 DEF ServerOK, Running, Output
<1>4. CASE OtherFile
    BY <1>4 DEF OtherFile, history, ServerOK, Running, Output, setup
<1>5. CASE ServerExits
    BY <1>5 DEF ServerExits, ServerOK, Running, Output, setup
<1>6. CASE Read
  <2>1. /\ Running /\ dropped' \subseteq dropped
        /\ UNCHANGED <<kind, noRun, pc, server, unwritten, exited>>
      BY <1>6, ReadEffect
  <2>2. QED
      BY <2>1 DEF ServerOK, Running
<1>7. CASE FinishRegen
  <2>1. /\ kind = "dev" /\ Running /\ pc' \in {"install", "wait", "dead"}
        /\ UNCHANGED <<kind, noRun, bad, seen, dropped, skipped>>
      BY <1>7 DEF FinishRegen, AfterRegen, Running, setup
  <2>2. \/ /\ Generates /\ server' = IF noRun THEN None ELSE seen["gen"]["lzi"]
           /\ UNCHANGED unwritten
        \/ pc' = "dead" /\ UNCHANGED server
        \/ unwritten' = TRUE /\ UNCHANGED server
        \/ ~Generates /\ UNCHANGED <<server, unwritten>>
      BY <1>7 DEF FinishRegen
  <2>3. server = None /\ ~unwritten /\ ~Running'
      BY <2>1 DEF ServerOK, Running
  <2>4. QED
      BY <2>1, <2>2, <2>3 DEF ServerOK, Generates, Output
<1>8. CASE FinishReport
    BY <1>8 DEF FinishReport, ServerOK, setup
<1>9. CASE Install
    BY <1>9 DEF Install, history, ServerOK, Running, Output, setup
<1>10. CASE DevCollect
    BY <1>10 DEF DevCollect, history, ServerOK, Running, Output, setup
<1>11. CASE DevRegen
  <2>1. /\ pc = "collect" /\ UNCHANGED <<kind, noRun, bad, seen, dropped, skipped>>
      BY <1>11 DEF DevRegen, setup
  <2>2. CASE changed
      BY <1>11, <2>1, <2>2 DEF DevRegen, Begin, ServerOK, Running, setup
  <2>3. CASE ~changed
    <3>1. pc' = "wait" /\ server' = server /\ (exited' <=> exited) /\ (unwritten' <=> unwritten)
        BY <1>1, <1>11, <2>3 DEF DevRegen, Begin, setup
    <3>2. QED
        BY <2>1, <3>1 DEF ServerOK, Running, Output
  <2>4. QED
      BY <2>2, <2>3
<1>12. CASE DoctorEvent
    BY <1>12 DEF DoctorEvent, ServerOK, setup
<1>13. CASE TestEvent
    BY <1>13 DEF TestEvent, ServerOK, setup
<1>14. CASE TestTimeout
    BY <1>14 DEF TestTimeout, ServerOK, setup
<1>15. CASE TestDrain
    BY <1>15 DEF TestDrain, ServerOK, setup
<1>16. CASE DoctorElapse
    BY <1>16 DEF DoctorElapse, history, ServerOK, Running, Output, setup
<1>17. ASSUME NEW j \in Jobs, TestElapse(j) PROVE ServerOK'
    BY <1>17 DEF TestElapse, history, ServerOK, Running, Output, setup
<1>18. CASE UNCHANGED vars
    BY <1>18 DEF vars, history, ServerOK, Running, Output, setup
<1>19. QED
    BY <1>3, <1>4, <1>5, <1>6, <1>7, <1>8, <1>9, <1>10, <1>11, <1>12, <1>13, <1>14, <1>15,
       <1>16, <1>17, <1>18, NextActions

(***************************************************************************)
(* The dev loop never lets a server run beside a regeneration, and         *)
(* between two of them the server runs the source the last one read.       *)
(***************************************************************************)
THEOREM ServerRunsWhatWasRead == Spec => []ServerOK
<1>1. Init => ServerOK
    BY DEF Init, ServerOK
<1>2. (ValuesOK /\ ControlOK) /\ ServerOK /\ [Next]_vars => ServerOK'
    BY StepServer
<1>3. QED
    BY <1>1, <1>2, WatchInv, PTL DEF Spec

(***************************************************************************)
(* A loop at rest: it waits, and no event and no bucket is left.           *)
(***************************************************************************)
Rest == pc = "wait" /\ queue = <<>> /\ \A j \in Jobs : buckets[j] = "none"

RestIsUpToDate ==
    Rest =>
      /\ \A j \in JobsOf(kind) : \A f \in Watched(j) \ (missed \cup dropped) : UpToDate(j, f)
      /\ kind = "dev" /\ "lzi" \notin missed /\ ~exited /\ ~noRun
            => server = Output(disk["lzi"])

(***************************************************************************)
(* A loop at rest is up to date: its last runs read what is on disk, or    *)
(* stopped before they could, and the dev server runs the source on disk,  *)
(* or none after a regen that failed.  It is the safety part of            *)
(* SavedIsSeen and ServerFollowsSource: what is left to liveness is that   *)
(* the loop comes to rest.                                                 *)
(***************************************************************************)
THEOREM UpToDateAtRest == Spec => []RestIsUpToDate
<1>1. (ValuesOK /\ ControlOK) /\ (NothingForgotten /\ SkippedForManifest) /\ ServerOK
        => RestIsUpToDate
  <2> SUFFICES ASSUME ValuesOK, ControlOK, NothingForgotten, SkippedForManifest, ServerOK, Rest
               PROVE  /\ \A j \in JobsOf(kind) : \A f \in Watched(j) \ (missed \cup dropped) :
                            UpToDate(j, f)
                      /\ kind = "dev" /\ "lzi" \notin missed /\ ~exited /\ ~noRun
                            => server = Output(disk["lzi"])
      BY DEF RestIsUpToDate
  <2>1. ASSUME NEW j \in JobsOf(kind), NEW f \in Watched(j) \ (missed \cup dropped)
        PROVE  seen[j][f] = disk[f] \/ (f # "toml" /\ j \in skipped)
    <3>1. Followed(j, f)
        BY <2>1 DEF NothingForgotten, Rest
    <3>2. ~Queued(queue, Written(f))
      <4>1. Len(queue) = 0
          BY DEF Rest
      <4>2. QED
          BY <4>1 DEF Queued
    <3>3. ~Due(j) /\ ~changed
        BY DEF Rest, Due, ControlOK, Running
    <3>4. buckets[j] = "none"
      <4>1. j \in Jobs
          BY <2>1, OneReader DEF ValuesOK
      <4>2. QED
          BY <4>1 DEF Rest
    <3>5. QED
        BY <3>1, <3>2, <3>3, <3>4 DEF Followed, OnItsWay
  <2>2. ASSUME NEW j \in JobsOf(kind), NEW f \in Watched(j) \ (missed \cup dropped)
        PROVE  UpToDate(j, f)
    <3>1. ASSUME "toml" \in Watched(j) \ (missed \cup dropped), j \in skipped
          PROVE  disk["toml"] \in bad
      <4>1. j = "doctor"
          BY <2>2, <3>1, JobTable, FileTable DEF ValuesOK, LoopKinds
      <4>2. seen[j]["toml"] = disk["toml"]
          BY <2>1, <2>2, <3>1
      <4>3. QED
          BY <3>1, <4>1, <4>2 DEF SkippedForManifest
    <3>2. QED
        BY <2>1, <2>2, <3>1 DEF UpToDate
  <2>3. ASSUME kind = "dev", "lzi" \notin missed, ~exited, ~noRun
        PROVE  server = Output(disk["lzi"])
    <3>1. server = Output(seen["gen"]["lzi"]) /\ dropped = {}
        BY <2>3 DEF ServerOK, Rest
    <3>2. "gen" \in JobsOf(kind) /\ "lzi" \in Watched("gen")
        BY <2>3, JobTable, FileTable
    <3>3. seen["gen"]["lzi"] = disk["lzi"] \/ "gen" \in skipped
        BY <2>1, <2>3, <3>1, <3>2
    <3>4. QED
        BY <3>1, <3>3 DEF Output
  <2>4. QED
      BY <2>2, <2>3
<1>2. QED
    BY <1>1, WatchInv, NoSaveIsForgotten, ServerRunsWhatWasRead, PTL
-----------------------------------------------------------------------------
(***************************************************************************)
(* No run sets off another: a step of the loop queues no event that starts *)
(* a job, but for the doctor where the platform reports reads.             *)
(***************************************************************************)
StartsNoRun ==
    Loop /\ ~(kind = "doctor" /\ access)
      => \A e \in Event : Queued(queue', e) /\ Triggered(e) # {} => Queued(queue, e)

(***************************************************************************)
(* Where the doctor's exception does not apply, only a save can start a    *)
(* run: the loop neither answers its own reads, which the dev and the test *)
(* loop skip as EventKind::Access, nor what it generates.  The safety part *)
(* of LoopSettles.                                                         *)
(***************************************************************************)
THEOREM RunsStartNoRuns == Spec => [][StartsNoRun]_vars
<1>1. ASSUME ValuesOK, [Next]_vars PROVE [StartsNoRun]_vars
  <2> SUFFICES ASSUME Loop, ~(kind = "doctor" /\ access), NEW e \in Event,
                      Queued(queue', e), Triggered(e) # {}
               PROVE  Queued(queue, e)
      BY DEF StartsNoRun
  <2>1. kind \in LoopKinds
      BY <1>1 DEF ValuesOK
  <2>2. e.file # "other" /\ (kind # "doctor" => ~e.access)
      BY <2>1, TriggeredTable
  <2>3. CASE Read
      BY <1>1, <2>2, <2>3, ReadKeeps
  <2>4. CASE FinishRegen
    <3>1. Notify(Written("other")) \/ UNCHANGED queue
        BY <2>4 DEF FinishRegen, setup
    <3>2. e # Written("other") /\ Written("other") \in Event
        BY <2>2, EventValues
    <3>3. QED
        BY <1>1, <3>1, <3>2, NotifyKeeps
  <2>5. CASE FinishReport \/ Install \/ DevRegen \/ TestTimeout \/ TestDrain
      BY <2>5 DEF FinishReport, Install, DevRegen, TestTimeout, TestDrain, setup
  <2>6. CASE DevCollect \/ DoctorEvent \/ TestEvent
      BY <1>1, <2>6, TakeEffect DEF DevCollect, DoctorEvent, TestEvent, setup
  <2>7. QED
      BY <2>3, <2>4, <2>5, <2>6 DEF Loop
<1>2. (ValuesOK /\ ControlOK) /\ [Next]_vars => [StartsNoRun]_vars
    BY <1>1
<1>3. QED
    BY <1>2, WatchInv, PTL DEF Spec
=============================================================================
