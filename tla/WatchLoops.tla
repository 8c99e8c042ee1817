----------------------------- MODULE WatchLoops -----------------------------
(***************************************************************************)
(* The three watch loops of the CLI: "lazuli dev" (dev.rs), "lazuli doctor *)
(* --watch" (doctor_watch.rs) and "lazuli test --watch" (cmd_test.rs,      *)
(* cmd_test_watch.rs).  Each runs once, then installs a file watcher, then *)
(* turns its events into further runs, with a debounce of its own kind.    *)
(*                                                                         *)
(* There is no clock: a timer fires when nothing it waits for is queued,   *)
(* or at any time.  A file stands for its class, and its content is the    *)
(* number of the save that wrote it.  A run reads its files at one moment  *)
(* between its start and its end.                                          *)
(***************************************************************************)
EXTENDS Naturals, Sequences, FiniteSets

CONSTANTS
    Kinds,    \* the loops to run: "dev", "doctor", "test"
    None,     \* no server runs
    MaxSaves, \* bound on the saves and the events of other files
    MaxFaults \* bound on lost events, failing writes and failing processes

ASSUME WatchAssumption ==
    /\ Kinds \subseteq {"dev", "doctor", "test"}
    /\ MaxSaves \in Nat /\ MaxFaults \in Nat
    /\ None \notin Nat

\* A source, a handler, the manifest.
Files == {"lzi", "go", "toml"}
Jobs  == {"gen", "doctor", "spec", "handler"}

VARIABLES
    kind,     \* the loop
    access,   \* the platform reports files being read
    noRun,    \* dev: --no-run
    disk,     \* the save each file was last written by
    bad,      \* saves of a source that does not compile, a manifest that does not load
    pc,
    reading,  \* the current run has not read its files yet
    todo,     \* the jobs to run, the current one among them
    seen,     \* what the last run of each job read
    watching, \* the watcher is installed
    queue,    \* events of the watcher
    changed,  \* dev: one of the collected events was of a source
    recent,   \* doctor: the last run began less than DEBOUNCE_MS ago
    buckets,  \* test: the DebounceBuffer
    server,   \* dev: the generated output the child process runs
    saves, faults, \* the counters of the bounds
    \* history
    missed,   \* files saved with no event to tell
    dropped,  \* files whose event the doctor's debounce dropped
    skipped,  \* jobs whose last run ended before it read their sources
    unwritten,\* dev: the last regen could not write its output
    exited    \* dev: the server ended by itself

setup    == <<kind, access, noRun>>
loopVars == <<changed, recent, buckets>>
history  == <<missed, dropped, skipped, unwritten, exited>>
vars == <<setup, disk, bad, pc, reading, todo, seen, watching, queue, loopVars,
          server, saves, faults, history>>

JobsOf(k) == CASE k = "dev" -> {"gen"} [] k = "doctor" -> {"doctor"}
               [] k = "test" -> {"spec", "handler"}

\* The files a job reads, the manifest first.
Inputs(j) == CASE j \in {"gen", "doctor", "spec"} -> {"toml", "lzi"}
               [] j = "handler" -> {"toml", "go"}

Init ==
    /\ kind \in Kinds
    /\ access \in BOOLEAN
    /\ noRun \in BOOLEAN /\ (noRun => kind = "dev")
    /\ disk = [f \in Files |-> 0]
    /\ bad = {}
    /\ pc = "first"
    /\ reading = TRUE
    /\ todo = JobsOf(kind)
    /\ seen = [j \in Jobs |-> disk]
    /\ watching = FALSE
    /\ queue = <<>>
    /\ changed = FALSE
    /\ recent = FALSE
    /\ buckets = [j \in Jobs |-> "none"]
    /\ server = None
    /\ saves = 0 /\ faults = 0
    /\ missed = {} /\ dropped = {} /\ skipped = {} /\ unwritten = FALSE /\ exited = FALSE
-----------------------------------------------------------------------------
(***************************************************************************)
(* Which events start a job: interesting_paths, event_touches_lazuli_source*)
(* and layers_for_path.  "other" is a file no loop is about, the generated *)
(* ones included.                                                          *)
(***************************************************************************)
\* Mutant: every file starts a regen, the generated ones too.
TriggeredByOutput(e) ==
    CASE kind = "dev"    -> IF e.access THEN {} ELSE {"gen"}
      [] kind = "doctor" -> IF e.file \in {"lzi", "toml"} THEN {"doctor"} ELSE {}
      [] OTHER -> IF e.access THEN {} ELSE
                  CASE e.file = "lzi" -> {"spec"} [] e.file = "go" -> {"handler"}
                    [] OTHER -> {}

Triggered(e) ==
    CASE kind = "dev"    -> IF e.file = "lzi" /\ ~e.access THEN {"gen"} ELSE {}
      [] kind = "doctor" -> IF e.file \in {"lzi", "toml"} THEN {"doctor"} ELSE {}
      [] kind = "test"   -> IF e.access THEN {} ELSE
                            CASE e.file = "lzi" -> {"spec"} [] e.file = "go" -> {"handler"}
                              [] OTHER -> {}

Written(f) == [file |-> f, access |-> FALSE]
Opened(f)  == [file |-> f, access |-> TRUE]

\* The test loop's callback sends only what concerns a layer.  An access that
\* is queued already is not queued again.
Sent(q, e) ==
    IF \/ kind = "test" /\ Triggered(e) = {}
       \/ e.access /\ \E i \in DOMAIN q : q[i] = e
    THEN q ELSE Append(q, e)

Notify(e) == queue' = IF watching THEN Sent(queue, e) ELSE queue
-----------------------------------------------------------------------------
(***************************************************************************)
(* The world: editors save, other files change, processes end.             *)
(***************************************************************************)
\* A save truncates and writes: both may be seen, as two saves of which the
\* first does not compile.
Save(f, ok) ==
    /\ saves < MaxSaves
    /\ saves' = saves + 1
    /\ disk' = [disk EXCEPT ![f] = saves + 1]
    /\ bad' = IF ok THEN bad ELSE bad \cup {saves + 1}
    /\ \/ /\ Notify(Written(f))
          /\ missed' = IF watching \/ (pc = "first" /\ reading) THEN missed
                       ELSE missed \cup {f}
          /\ UNCHANGED faults
       \* The watcher reports an error in place of the event.
       \/ /\ watching /\ faults < MaxFaults
          /\ faults' = faults + 1
          /\ missed' = missed \cup {f}
          /\ UNCHANGED queue
    /\ UNCHANGED <<setup, pc, reading, todo, seen, watching, loopVars, server, dropped,
                   skipped, unwritten, exited>>

OtherFile ==
    /\ saves < MaxSaves /\ watching
    /\ saves' = saves + 1
    /\ Notify(Written("other"))
    /\ UNCHANGED <<setup, disk, bad, pc, reading, todo, seen, watching, loopVars, server,
                   faults, history>>

ServerExits ==
    /\ server # None /\ faults < MaxFaults
    /\ faults' = faults + 1
    /\ server' = None
    /\ exited' = TRUE
    /\ UNCHANGED <<setup, disk, bad, pc, reading, todo, seen, watching, queue, loopVars,
                   saves, missed, dropped, skipped, unwritten>>
-----------------------------------------------------------------------------
(***************************************************************************)
(* A run: regen, doctor::run_once, or cmd_test::run_once of one layer.     *)
(***************************************************************************)
Running == pc \in {"first", "run"}

\* The first run of the tests is of every layer, a later one of one layer.
Current == IF pc = "first" THEN todo ELSE {CHOOSE j \in todo : TRUE}

(***************************************************************************)
(* The jobs whose sources the run gets to: none when the manifest does not *)
(* load; in the first run of the tests perhaps not all, for a layer that   *)
(* cannot be run ends it, and --fail-fast skips the layers behind a        *)
(* failing one.                                                            *)
(***************************************************************************)
Reached == IF disk["toml"] \in bad THEN {{}} ELSE (SUBSET Current) \ {{}}

Read ==
    /\ Running /\ reading
    /\ reading' = FALSE
    /\ \E reached \in Reached :
         LET files == {"toml"} \cup UNION {Inputs(j) : j \in reached} IN
         /\ seen' = [j \in Jobs |-> IF j \in reached THEN disk
                                    ELSE IF j \in Current
                                    THEN [seen[j] EXCEPT !["toml"] = disk["toml"]]
                                    ELSE seen[j]]
         /\ skipped' = (skipped \ Current) \cup (Current \ reached)
         /\ missed' = missed \ files
         /\ dropped' = dropped \ files
         /\ queue' = IF access /\ watching
                     THEN LET q == Sent(queue, Opened("toml"))
                          IN  IF "lzi" \in files THEN Sent(q, Opened("lzi")) ELSE q
                     ELSE queue
    /\ UNCHANGED <<setup, disk, bad, pc, todo, watching, loopVars, server, saves, faults,
                   unwritten, exited>>

\* The manifest and the source are good: the output can be generated.
Generates == "gen" \notin skipped /\ seen["gen"]["lzi"] \notin bad

AfterRegen(failed) == pc' = IF pc = "first" THEN IF failed THEN "dead" ELSE "install" ELSE "wait"

(***************************************************************************)
(* regen went well and the server starts, unless it is not to run; or      *)
(* "go run" cannot be spawned, which ends the loop; or regen fails, for    *)
(* what it read or while it writes, which ends the loop the first time.    *)
(***************************************************************************)
FinishRegen ==
    /\ kind = "dev" /\ Running /\ ~reading
    /\ \/ /\ Generates
          /\ Notify(Written("other"))
          /\ server' = IF noRun THEN None ELSE seen["gen"]["lzi"]
          /\ exited' = FALSE
          /\ AfterRegen(FALSE)
          /\ UNCHANGED <<faults, unwritten>>
       \/ /\ Generates /\ ~noRun /\ faults < MaxFaults
          /\ Notify(Written("other"))
          /\ faults' = faults + 1
          /\ pc' = "dead"
          /\ UNCHANGED <<server, exited, unwritten>>
       \/ /\ Generates /\ faults < MaxFaults
          /\ faults' = faults + 1
          /\ Notify(Written("other")) \/ UNCHANGED queue
          /\ unwritten' = TRUE
          /\ AfterRegen(TRUE)
          /\ UNCHANGED <<server, exited>>
       \/ /\ ~Generates
          /\ AfterRegen(TRUE)
          /\ UNCHANGED <<queue, server, faults, exited, unwritten>>
    /\ todo' = {}
    /\ UNCHANGED <<setup, disk, bad, reading, seen, watching, loopVars, saves, missed,
                   dropped, skipped>>

\* The doctor and the tests only report.
FinishReport ==
    /\ kind # "dev" /\ Running /\ ~reading
    /\ todo' = todo \ Current
    /\ pc' = IF pc = "first" THEN "install" ELSE IF todo' = {} THEN "wait" ELSE "run"
    /\ reading' = (todo' # {})
    /\ UNCHANGED <<setup, disk, bad, seen, watching, queue, loopVars, server, saves,
                   faults, history>>

\* The doctor counts DEBOUNCE_MS from here for the first time.
Install ==
    /\ pc = "install"
    /\ watching' = TRUE
    /\ recent' = (kind = "doctor")
    /\ pc' = "wait"
    /\ UNCHANGED <<setup, disk, bad, reading, todo, seen, queue, changed, buckets, server,
                   saves, faults, history>>

\* The jobs run next.
Begin(jobs) ==
    /\ todo' = jobs
    /\ pc' = IF jobs = {} THEN "wait" ELSE "run"
    /\ reading' = (jobs # {})
-----------------------------------------------------------------------------
(***************************************************************************)
(* run_dev: the first event opens a window that lasts until the queue was  *)
(* empty for the whole debounce; then stop the server and regenerate.      *)
(***************************************************************************)
Take == queue # <<>> /\ queue' = Tail(queue)

DevCollect ==
    /\ kind = "dev" /\ pc \in {"wait", "collect"}
    /\ Take
    /\ changed' = (changed \/ Triggered(Head(queue)) # {})
    /\ pc' = "collect"
    /\ UNCHANGED <<setup, disk, bad, reading, todo, seen, watching, recent, buckets,
                   server, saves, faults, history>>

\* Mutant: the server is not stopped.
DevRegenRunning ==
    /\ kind = "dev" /\ pc = "collect" /\ queue = <<>>
    /\ Begin(IF changed THEN {"gen"} ELSE {})
    /\ changed' = FALSE
    /\ UNCHANGED <<setup, disk, bad, seen, watching, queue, recent, buckets, server,
                   saves, faults, history>>

DevRegen ==
    /\ kind = "dev" /\ pc = "collect" /\ queue = <<>>
    /\ Begin(IF changed THEN {"gen"} ELSE {})
    /\ server' = IF changed THEN None ELSE server
    /\ exited' = (exited /\ ~changed)
    /\ unwritten' = (unwritten /\ ~changed)
    /\ changed' = FALSE
    /\ UNCHANGED <<setup, disk, bad, seen, watching, queue, recent, buckets, saves,
                   faults, missed, dropped, skipped>>

(***************************************************************************)
(* doctor_watch_command: run on an event, unless the last run began less   *)
(* than DEBOUNCE_MS ago; that event is gone.                               *)
(***************************************************************************)
DoctorEvent ==
    /\ kind = "doctor" /\ pc = "wait"
    /\ Take
    /\ LET e == Head(queue) IN
         IF Triggered(e) # {} /\ ~recent
         THEN Begin({"doctor"}) /\ recent' = TRUE /\ UNCHANGED dropped
         ELSE /\ dropped' = IF Triggered(e) # {} /\ ~e.access THEN dropped \cup {e.file}
                            ELSE dropped
              /\ UNCHANGED <<todo, pc, reading, recent>>
    /\ UNCHANGED <<setup, disk, bad, seen, watching, changed, buckets, server, saves,
                   faults, missed, skipped, unwritten, exited>>

DoctorElapse ==
    /\ recent
    /\ recent' = FALSE
    /\ UNCHANGED <<setup, disk, bad, pc, reading, todo, seen, watching, queue, changed,
                   buckets, server, saves, faults, history>>

(***************************************************************************)
(* run_watch: an event goes to the bucket of its layer and restarts its    *)
(* window; after every event and every timeout, the layers whose window is *)
(* over are run, one after the other.                                      *)
(***************************************************************************)
\* DebounceBuffer::push
TestEvent ==
    /\ kind = "test" /\ pc = "wait"
    /\ Take
    /\ buckets' = [j \in Jobs |-> IF j \in Triggered(Head(queue)) THEN "waiting" ELSE buckets[j]]
    /\ pc' = "drain"
    /\ UNCHANGED <<setup, disk, bad, reading, todo, seen, watching, changed, recent,
                   server, saves, faults, history>>

TestTimeout ==
    /\ kind = "test" /\ pc = "wait" /\ queue = <<>>
    /\ \E j \in Jobs : buckets[j] = "over"
    /\ pc' = "drain"
    /\ UNCHANGED <<setup, disk, bad, reading, todo, seen, watching, queue, loopVars,
                   server, saves, faults, history>>

Over == {j \in Jobs : buckets[j] = "over"}

\* Mutant: the buckets that are not ready go too.
TestDrainAll ==
    /\ kind = "test" /\ pc = "drain"
    /\ Begin(Over)
    /\ buckets' = [j \in Jobs |-> IF Over = {} THEN buckets[j] ELSE "none"]
    /\ UNCHANGED <<setup, disk, bad, seen, watching, queue, changed, recent, server,
                   saves, faults, history>>

\* DebounceBuffer::drain_ready
TestDrain ==
    /\ kind = "test" /\ pc = "drain"
    /\ Begin(Over)
    /\ buckets' = [j \in Jobs |-> IF j \in Over THEN "none" ELSE buckets[j]]
    /\ UNCHANGED <<setup, disk, bad, seen, watching, queue, changed, recent, server,
                   saves, faults, history>>

\* Mutant: a bucket is over when no event came, too.
TestElapseAny(j) ==
    /\ buckets[j] # "over"
    /\ buckets' = [buckets EXCEPT ![j] = "over"]
    /\ UNCHANGED <<setup, disk, bad, pc, reading, todo, seen, watching, queue, changed,
                   recent, server, saves, faults, history>>

TestElapse(j) ==
    /\ buckets[j] = "waiting"
    /\ buckets' = [buckets EXCEPT ![j] = "over"]
    /\ UNCHANGED <<setup, disk, bad, pc, reading, todo, seen, watching, queue, changed,
                   recent, server, saves, faults, history>>
-----------------------------------------------------------------------------
World == (\E f \in Files : Save(f, TRUE)) \/ Save("lzi", FALSE) \/ Save("toml", FALSE)
           \/ OtherFile \/ ServerExits
Loop  == Read \/ FinishRegen \/ FinishReport \/ Install \/ DevCollect \/ DevRegen
           \/ DoctorEvent \/ TestEvent \/ TestTimeout \/ TestDrain
Timers == DoctorElapse \/ \E j \in Jobs : TestElapse(j)

Next == World \/ Loop \/ Timers
Spec == Init /\ [][Next]_vars

\* The loop's thread runs, and time passes for each timer.
FairSpec ==
    /\ Spec
    /\ WF_vars(Loop)
    /\ WF_vars(DoctorElapse)
    /\ \A j \in Jobs : WF_vars(TestElapse(j))
-----------------------------------------------------------------------------
Event == [file : Files \cup {"other"}, access : BOOLEAN]
Count == 0..MaxSaves

(***************************************************************************)
(* The values of the variables; only the loop's own jobs are ever due, the *)
(* doctor's timer and the test's buckets belong to their loops, and a run  *)
(* has something to run.                                                   *)
(***************************************************************************)
TypeOK ==
    /\ kind \in Kinds /\ access \in BOOLEAN /\ noRun \in BOOLEAN
    /\ disk \in [Files -> Count] /\ bad \subseteq Count
    /\ pc \in {"first", "install", "wait", "collect", "drain", "run", "dead"}
    /\ reading \in BOOLEAN /\ (reading => todo # {})
    /\ todo \subseteq JobsOf(kind) /\ (Running <=> todo # {})
    /\ seen \in [Jobs -> [Files -> Count]]
    /\ watching = (pc \in {"wait", "collect", "drain", "run"} \/ (pc = "dead" /\ watching))
    /\ queue \in Seq(Event)
    /\ changed \in BOOLEAN /\ (changed => pc = "collect")
    /\ recent \in BOOLEAN /\ (recent => kind = "doctor")
    /\ buckets \in [Jobs -> {"none", "waiting", "over"}]
    /\ \A j \in Jobs : buckets[j] # "none" => kind = "test" /\ j \in JobsOf("test")
    /\ server \in Count \cup {None}
    /\ missed \subseteq Files /\ dropped \subseteq Files /\ skipped \subseteq JobsOf(kind)
    /\ unwritten \in BOOLEAN /\ exited \in BOOLEAN

\* The files whose change is to start the job.
Watched(j) == CASE j = "gen" -> {"lzi"} [] j = "doctor" -> {"lzi", "toml"}
                [] j = "spec" -> {"lzi"} [] j = "handler" -> {"go"}

\* The job has read the file; or its last run ended before, which a loop that
\* watches the manifest leaves so only while that does not load.
UpToDate(j, f) ==
    \/ seen[j][f] = disk[f]
    \/ /\ f # "toml" /\ j \in skipped
       /\ "toml" \in Watched(j) \ (missed \cup dropped) => disk["toml"] \in bad

(***************************************************************************)
(* When saving stops, the last run of every job has read what is on disk   *)
(* of the files it watches, or stopped at its manifest or at an earlier    *)
(* layer.  A save goes unseen only between the first run and the watcher,  *)
(* when the watcher reports an error in its place, or in the doctor's      *)
(* debounce.                                                               *)
(***************************************************************************)
SavedIsSeen ==
    <>[](pc # "dead" => \A j \in JobsOf(kind) : \A f \in Watched(j) \ (missed \cup dropped) :
                           UpToDate(j, f))

(***************************************************************************)
(* doctor_watch.rs: "re-runs the pipeline on every .lzi / .lzx change":    *)
(* once saving stops, a doctor whose watcher reports every change has read *)
(* the source on disk, unless its manifest does not load.                  *)
(***************************************************************************)
EveryChangeIsChecked ==
    <>[](kind = "doctor" /\ pc # "dead" /\ missed = {} /\ skipped = {}
           => seen["doctor"]["lzi"] = disk["lzi"])

(***************************************************************************)
(* Once saving stops, the dev loop's server runs the source on disk; no    *)
(* server is left running when that source does not compile, or the last   *)
(* regen failed on the manifest it read or on its writes.  Except that it  *)
(* may have ended by itself, and the last save may have been missed.       *)
(***************************************************************************)
ServerFollowsSource ==
    <>[](kind = "dev" /\ pc # "dead" /\ "lzi" \notin missed /\ ~exited /\ ~noRun
           => server = IF disk["lzi"] \in bad \/ "gen" \in skipped \/ unwritten
                       THEN None ELSE disk["lzi"])

(***************************************************************************)
(* When saving stops, the dev and the test loop come to rest: what their   *)
(* runs write does not start another.  The doctor rests only where reading *)
(* a file is no event, for it does not skip EventKind::Access as they do.  *)
(***************************************************************************)
LoopSettles == <>[](pc = "dead" \/ (queue = <<>> /\ ~Running)) \/ (kind = "doctor" /\ access)
=============================================================================
