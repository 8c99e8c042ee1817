----------------------------- MODULE Migrations -----------------------------
(***************************************************************************)
(* Database migrations: the order codegen gives them (topo.rs), the        *)
(* directory "lazuli generate go" owns (generate/go.rs), the two ways a    *)
(* project applies them, and the ledger of "lazuli migrate" (migrate.rs).  *)
(*                                                                         *)
(* Codegen writes NNN_<feature>_<resource>.sql and .down.sql files, which  *)
(* the scaffold's "pnpm db:migrate" pipes to psql one by one in name       *)
(* order.  "lazuli migrate" works on .up.sql and .down.sql files, which    *)
(* only authors write.  Resources are numbered in lexical order, as are    *)
(* the versions of manual migrations.                                      *)
(*                                                                         *)
(* A generated table is its foreign keys and the columns that manual       *)
(* migrations added.  The up script of a manual migration adds a column to *)
(* a generated table and goes on to other statements; its down script      *)
(* drops the column.  psql commits every statement.                        *)
(***************************************************************************)
EXTENDS Naturals, Sequences, FiniteSets, SequencesExt, FiniteSetsExt

CONSTANTS
    FirstSchemas, \* the schemas a project may begin with
    Resources,  \* the resources a schema may declare, numbered lexically
    SortInputs, \* the schemas the sort is checked on
    Versions,   \* the versions of manual migrations, numbered lexically
    TableOf,    \* the resource whose table a manual migration alters
    Idempotent, \* versions that say ADD/DROP COLUMN IF [NOT] EXISTS
    Runners,    \* processes that may run "lazuli migrate"
    Strategy,   \* [migrations].strategy of the manifest
    MaxEvents   \* bound on edits, runs of the three programs, and faults

Schemas == UNION {[D -> SUBSET D] : D \in SUBSET Resources}

ASSUME MigrationsAssumption ==
    /\ FirstSchemas \subseteq Schemas
    /\ \A s \in SortInputs : /\ DOMAIN s \subseteq Nat /\ IsFiniteSet(DOMAIN s)
                            /\ s \in [DOMAIN s -> SUBSET DOMAIN s]
    /\ Resources \subseteq Nat /\ IsFiniteSet(Resources)
    /\ Versions \subseteq Nat \ {0} /\ IsFiniteSet(Versions)
    /\ TableOf \in [Versions -> Resources]
    /\ Idempotent \subseteq Versions
    /\ Strategy \in {"auto", "manual", "check-only"}
    /\ MaxEvents \in Nat

VARIABLES
    schema,    \* the authored resources and what their fields refer to
    manual,    \* versions with .up.sql and .down.sql in the manual directory
    dir,       \* the files of the generated directory
    gen,       \* the run of "lazuli generate go"
    deploy,    \* the run of db:migrate
    tables,    \* the tables of the database
    ledger,    \* lazuli_schema_migrations
    runs,      \* the runs of "lazuli migrate"
    events,    \* edits, starts and faults so far
    \* history
    torn,      \* versions whose script and ledger row were separated
    late,      \* versions authored below an applied one
    overlapped \* two runs of "lazuli migrate" were active at once

authored == <<schema, manual>>
database == <<tables, ledger>>
history  == <<torn, late, overlapped>>
vars == <<authored, dir, gen, deploy, database, runs, events, history>>

NoTable == [exists |-> FALSE, refs |-> {}, cols |-> {}]
IdleRun == [pc |-> "idle", op |-> "up", arg |-> 0, files |-> {}, todo |-> <<>>]
NoGen   == [pc |-> "idle", todo |-> <<>>, of |-> <<>>]
NoDeploy == [pc |-> "idle", glob |-> <<>>, clean |-> FALSE, created |-> {}]

-----------------------------------------------------------------------------
(***************************************************************************)
(* emit_migrations and topo_sort_resources.                                *)
(***************************************************************************)
\* Mutant: a reference to itself is an edge.
TargetsWithSelf(s, r) == s[r]

\* The FK targets that hold a resource back; a reference to itself does not.
Targets(s, r) == s[r] \ {r}

\* Resources whose in-degree is 0 once those in done are emitted.
Ready(s, done) == {r \in DOMAIN s \ done : Targets(s, r) \subseteq done}

\* The numbers of a finite set in ascending and in descending order.
Ascending(S) ==
    [n \in 1..Cardinality(S) |-> CHOOSE v \in S : Cardinality({w \in S : w <= v}) = n]

Descending(S) ==
    [n \in 1..Cardinality(S) |-> Ascending(S)[Cardinality(S) + 1 - n]]

\* One turn of Kahn's loop: the lexically smallest ready resource is emitted.
EmitNext(s, order) ==
    LET ready == Ready(s, Range(order))
    IN  IF ready = {} THEN order ELSE Append(order, Min(ready))

\* What is emitted after each turn.
Kahn(s) ==
    LET order[n \in 0..Cardinality(DOMAIN s)] ==
            IF n = 0 THEN <<>> ELSE EmitNext(s, order[n - 1])
    IN  order

\* What a cycle leaves over is appended in lexical order.
TopoSort(s) ==
    LET kahn == Kahn(s)[Cardinality(DOMAIN s)]
    IN  kahn \o Ascending(DOMAIN s \ Range(kahn))

\* The files of the schema, as they are written: ups, then downs.
Emitted(s) ==
    LET order == TopoSort(s)
        File(down) == [n \in 1..Len(order) |->
            [n |-> n, res |-> order[n], down |-> down, refs |-> s[order[n]]]]
    IN  File(FALSE) \o File(TRUE)
-----------------------------------------------------------------------------
\* A project with its first schema generated, whether or not it was deployed.
Init ==
    /\ schema \in FirstSchemas
    /\ manual \in SUBSET Versions
    /\ dir = Range(Emitted(schema))
    /\ gen = [NoGen EXCEPT !.of = schema]
    /\ deploy = NoDeploy
    /\ tables = [r \in Resources |-> NoTable]
         \/ tables = [r \in Resources |->
                        IF r \in DOMAIN schema
                        THEN [exists |-> TRUE, refs |-> schema[r], cols |-> {}] ELSE NoTable]
    /\ ledger = {}
    /\ runs = [i \in Runners |-> IdleRun]
    /\ events = 0
    /\ torn = {}
    /\ late = {}
    /\ overlapped = FALSE
-----------------------------------------------------------------------------
Event == events < MaxEvents /\ events' = events + 1

(***************************************************************************)
(* The author.                                                             *)
(***************************************************************************)
Author ==
    /\ Event
    /\ UNCHANGED <<dir, gen, deploy, database, runs, torn, overlapped>>

EditSchema ==
    /\ Author
    /\ \/ \E r \in Resources \ DOMAIN schema :
             schema' = [q \in DOMAIN schema \cup {r} |-> IF q = r THEN {} ELSE schema[q]]
       \/ \E r, t \in DOMAIN schema :
             schema' = [schema EXCEPT ![r] = IF t \in @ THEN @ \ {t} ELSE @ \cup {t}]
       \/ \E r \in DOMAIN schema :
             /\ \A q \in DOMAIN schema : r \notin Targets(schema, q)
             /\ schema' = [q \in DOMAIN schema \ {r} |-> schema[q]]
    /\ UNCHANGED <<manual, late>>

EditManual(v) ==
    /\ Author
    /\ manual' = IF v \in manual THEN manual \ {v} ELSE manual \cup {v}
    /\ late' = IF v \notin manual /\ \E w \in ledger \cup UNION {runs[i].files : i \in Runners} : w > v
               THEN late \cup {v} ELSE late
    /\ UNCHANGED schema
-----------------------------------------------------------------------------
(***************************************************************************)
(* generate_go: remove every .sql file, then write the new ones in order.  *)
(***************************************************************************)
\* What a run of db:migrate sees of a generation that starts under it.
Disturb(d) == [d EXCEPT !.clean = FALSE]

\* Mutant: files are only overwritten, never removed.
CleanNothing ==
    /\ gen.pc = "idle" /\ Event
    /\ gen' = [pc |-> "write", todo |-> Emitted(schema), of |-> schema]
    /\ deploy' = Disturb(deploy)
    /\ UNCHANGED <<authored, dir, database, runs, history>>

GenerateClean ==
    /\ gen.pc = "idle" /\ Event
    /\ dir' = {}
    /\ gen' = [pc |-> "write", todo |-> Emitted(schema), of |-> schema]
    /\ deploy' = Disturb(deploy)
    /\ UNCHANGED <<authored, database, runs, history>>

SameName(f, g) == f.n = g.n /\ f.res = g.res /\ f.down = g.down

GenerateWrite ==
    /\ gen.pc = "write" /\ gen.todo # <<>>
    /\ dir' = {f \in dir : ~SameName(f, Head(gen.todo))} \cup {Head(gen.todo)}
    /\ gen' = [gen EXCEPT !.todo = Tail(@)]
    /\ UNCHANGED <<authored, deploy, database, runs, events, history>>

GenerateDone ==
    /\ gen.pc = "write" /\ gen.todo = <<>>
    /\ gen' = [gen EXCEPT !.pc = "idle"]
    /\ UNCHANGED <<authored, dir, deploy, database, runs, events, history>>

\* It ends among the removals or among the writes.
GenerateCrash ==
    /\ Event
    /\ \/ gen.pc = "write" /\ UNCHANGED dir
       \/ gen.pc = "idle" /\ dir' \in SUBSET dir
    /\ gen' = NoGen
    /\ deploy' = Disturb(deploy)
    /\ UNCHANGED <<authored, database, runs, history>>
-----------------------------------------------------------------------------
(***************************************************************************)
(* db:migrate: for f in *.sql, psql < f || exit 1.  psql goes on after an  *)
(* error of the database and still reports success.                        *)
(***************************************************************************)
\* The order of the names: NNN_r.down.sql comes before NNN_r.sql.  The glob sorts
\* text and f.n is a number: with three digits the orders agree up to 999 files.
NameBefore(f, g) ==
    \/ f.n < g.n
    \/ f.n = g.n /\ f.res < g.res
    \/ f.n = g.n /\ f.res = g.res /\ f.down /\ ~g.down

SortedFiles(files) ==
    [i \in 1..Cardinality(files) |->
        CHOOSE f \in files : Cardinality({g \in files : NameBefore(g, f)}) = i - 1]

DeployStart ==
    /\ deploy.pc = "idle" /\ Event
    /\ deploy' = [pc |-> "run", glob |-> SortedFiles(dir), created |-> {},
                  clean |-> gen.pc = "idle" /\ gen # NoGen]
    /\ UNCHANGED <<authored, dir, gen, database, runs, history>>

Referenced(r) == \E q \in Resources \ {r} : r \in tables[q].refs

\* CREATE TABLE IF NOT EXISTS, refused where a target has no table.
CreateTable(f) ==
    IF ~tables[f.res].exists /\ \A t \in Targets([r \in {f.res} |-> f.refs], f.res) : tables[t].exists
    THEN /\ tables' = [tables EXCEPT ![f.res] = [exists |-> TRUE, refs |-> f.refs, cols |-> {}]]
         /\ deploy' = [deploy EXCEPT !.glob = Tail(@), !.created = @ \cup {f.res}]
    ELSE /\ UNCHANGED tables
         /\ deploy' = [deploy EXCEPT !.glob = Tail(@)]

\* DROP TABLE IF EXISTS, refused where another table refers to it.
DropTable(f) ==
    /\ tables' = IF Referenced(f.res) THEN tables ELSE [tables EXCEPT ![f.res] = NoTable]
    /\ deploy' = [deploy EXCEPT !.glob = Tail(@)]

\* The file is opened by its name: a generation may have replaced or removed it.
DeployFile ==
    /\ deploy.pc = "run" /\ deploy.glob # <<>>
    /\ LET name == Head(deploy.glob)
           now  == {f \in dir : SameName(f, name)}
       IN  IF now = {}
           THEN deploy' = NoDeploy /\ UNCHANGED <<tables, torn>>
           ELSE LET f == CHOOSE g \in now : TRUE IN
                  /\ IF f.down THEN DropTable(f) ELSE CreateTable(f)
                  \* History: a column goes with its table, its ledger row stays.
                  /\ torn' = torn \cup (tables[f.res].cols \ tables'[f.res].cols)
    /\ UNCHANGED <<authored, dir, gen, ledger, runs, events, late, overlapped>>

DeployDone ==
    /\ deploy.pc = "run" /\ deploy.glob = <<>>
    /\ deploy' = [deploy EXCEPT !.pc = "idle"]
    /\ UNCHANGED <<authored, dir, gen, database, runs, events, history>>

DeployCrash ==
    /\ deploy.pc = "run" /\ Event
    /\ deploy' = NoDeploy
    /\ UNCHANGED <<authored, dir, gen, database, runs, history>>
-----------------------------------------------------------------------------
(***************************************************************************)
(* run_migrate.  A file of either directory counts when its name ends in   *)
(* .up.sql or .down.sql: of the generated ones, the downs.                 *)
(***************************************************************************)
Active(i) == runs[i].pc # "idle"

Continue(i, run) == runs' = [runs EXCEPT ![i] = run]

\* discover_migrations, after the check of the strategy; arg is --target (0 for
\* none) or --steps.
Start(i, op, arg) ==
    /\ ~Active(i) /\ Event
    /\ Strategy # "check-only"
    /\ Continue(i, [IdleRun EXCEPT !.pc = "read", !.op = op, !.arg = arg, !.files = manual])
    /\ overlapped' = (overlapped \/ \E j \in Runners : Active(j))
    /\ UNCHANGED <<authored, dir, gen, deploy, database, torn, late>>

\* The versions of a run that are still to do, in the order they are done.
Todo(i) == IF runs[i].todo = <<>> THEN {} ELSE Range(runs[i].todo)

PendingUp(run) == {v \in run.files \ ledger : run.arg = 0 \/ v <= run.arg}

\* Mutant: ORDER BY version.
LastAppliedAsc(n) ==
    LET asc == Ascending(ledger)
    IN  SubSeq(asc, 1, IF n < Len(asc) THEN n ELSE Len(asc))

\* ORDER BY version DESC LIMIT steps, in the database's collation.  It agrees with
\* the byte order of the plan on names that begin with numbers of one length, the
\* versions meant here.
LastApplied(n) ==
    LET desc == Descending(ledger)
    IN  SubSeq(desc, 1, IF n < Len(desc) THEN n ELSE Len(desc))

\* The ledger is read, the plan made and confirmed.  Nothing to do ends the run,
\* and so do a rollback without its file and no for an answer.
ReadLedger(i) ==
    /\ runs[i].pc = "read"
    /\ LET run  == runs[i]
           todo == IF run.op = "up" THEN Ascending(PendingUp(run))
                   ELSE LastApplied(run.arg)
       IN  \/ /\ todo # <<>> /\ Range(todo) \subseteq run.files
              /\ Continue(i, [run EXCEPT !.pc = "script", !.todo = todo])
           \/ Continue(i, IdleRun)
    /\ UNCHANGED <<authored, dir, gen, deploy, database, events, history>>

HasColumn(v) == v \in tables[TableOf[v]].cols

\* Mutant: both directions run the up script.
AlteredUp(op, v) == [tables EXCEPT ![TableOf[v]].cols = @ \cup {v}]

\* psql -f with ON_ERROR_STOP: the column, then the other statements.
Altered(op, v) ==
    [tables EXCEPT ![TableOf[v]].cols = IF op = "up" THEN @ \cup {v} ELSE @ \ {v}]

Refused(op, v) ==
    \/ ~tables[TableOf[v]].exists
    \/ v \notin Idempotent /\ (op = "up") = HasColumn(v)

\* Another run is at work on the version.
Contended(i, v) == \E j \in Runners \ {i} : v \in Todo(j)

RunScript(i) ==
    /\ runs[i].pc = "script"
    /\ LET op == runs[i].op
           v  == Head(runs[i].todo)
       IN  \/ /\ Refused(op, v)
              /\ Continue(i, IdleRun)
              /\ UNCHANGED <<tables, torn, events>>
           \/ /\ ~Refused(op, v)
              /\ tables' = Altered(op, v)
              /\ Continue(i, [runs[i] EXCEPT !.pc = "ledger"])
              \* History: a script that goes through mends what an earlier run tore.
              /\ torn' = IF Contended(i, v) THEN torn \cup {v} ELSE torn \ {v}
              /\ UNCHANGED events
           \* A later statement fails.
           \/ /\ ~Refused(op, v) /\ Event
              /\ tables' = Altered(op, v)
              /\ Continue(i, IdleRun)
              /\ torn' = torn \cup {v}
    /\ UNCHANGED <<authored, dir, gen, deploy, ledger, late, overlapped>>

\* Mutant: the loop goes on behind the last file.
WriteLedgerOn(i) ==
    /\ runs[i].pc = "ledger"
    /\ LET run == runs[i]
           v   == Head(run.todo)
       IN  /\ ledger' = IF run.op = "up" THEN ledger \cup {v} ELSE ledger \ {v}
           /\ Continue(i, [run EXCEPT !.pc = "script", !.todo = Tail(@)])
    /\ UNCHANGED <<authored, dir, gen, deploy, tables, events, history>>

\* insert_applied_version or delete_applied_version, and on to the next file.
WriteLedger(i) ==
    /\ runs[i].pc = "ledger"
    /\ LET run == runs[i]
           v   == Head(run.todo)
       IN  /\ ledger' = IF run.op = "up" THEN ledger \cup {v} ELSE ledger \ {v}
           /\ Continue(i, IF Len(run.todo) = 1 THEN IdleRun
                          ELSE [run EXCEPT !.pc = "script", !.todo = Tail(@)])
           /\ torn' = IF Contended(i, v) THEN torn \cup {v} ELSE torn
    /\ UNCHANGED <<authored, dir, gen, deploy, tables, events, late,
                   overlapped>>

RunCrash(i) ==
    /\ runs[i].pc \in {"script", "ledger"} /\ Event
    /\ Continue(i, IdleRun)
    /\ torn' = IF runs[i].pc = "ledger" THEN torn \cup {Head(runs[i].todo)} ELSE torn
    /\ UNCHANGED <<authored, dir, gen, deploy, database, late, overlapped>>
-----------------------------------------------------------------------------
Generator == GenerateClean \/ GenerateWrite \/ GenerateDone \/ GenerateCrash
Deployer  == DeployStart \/ DeployFile \/ DeployDone \/ DeployCrash
Run(i) ==
    \/ \E v \in Versions \cup {0} : Start(i, "up", v)
    \/ \E n \in 1..Cardinality(Versions) : Start(i, "down", n)
    \/ ReadLedger(i) \/ RunScript(i) \/ WriteLedger(i) \/ RunCrash(i)

Next ==
    \/ EditSchema \/ \E v \in Versions : EditManual(v)
    \/ Generator \/ Deployer
    \/ \E i \in Runners : Run(i)

Spec == Init /\ [][Next]_vars
-----------------------------------------------------------------------------
FileType == [n : 1..Cardinality(Resources), res : Resources, down : BOOLEAN,
             refs : SUBSET Resources]
RunType == [pc : {"idle", "read", "script", "ledger"}, op : {"up", "down"},
            arg : Versions \cup 0..Cardinality(Versions), files : SUBSET Versions,
            todo : Seq(Versions)]

(***************************************************************************)
(* The values of the variables; a run with work to do has a file, and the  *)
(* generated directory has one file of a name.                             *)
(***************************************************************************)
TypeOK ==
    /\ schema \in Schemas
    /\ manual \subseteq Versions
    /\ dir \subseteq FileType
    /\ \A f, g \in dir : SameName(f, g) => f = g
    /\ gen.pc \in {"idle", "write"} /\ gen.todo \in Seq(FileType) /\ gen.of \in Schemas
    /\ deploy.pc \in {"idle", "run"} /\ deploy.glob \in Seq(FileType)
    /\ deploy.clean \in BOOLEAN /\ deploy.created \subseteq Resources
    /\ tables \in [Resources -> [exists : BOOLEAN, refs : SUBSET Resources,
                                 cols : SUBSET Versions]]
    /\ ledger \subseteq Versions
    /\ \A i \in Runners : /\ runs[i] \in RunType
                          /\ runs[i].pc \in {"script", "ledger"} => runs[i].todo # <<>>

\* The resource refers, over any number of references, to a cycle.
BehindCycle(s, r) ==
    \E S \in SUBSET DOMAIN s : r \in S /\ \A q \in S : (s[q] \ {q}) \cap S # {}

\* Every resource has one place, behind its targets unless it leads into a cycle.
SortedTargetsFirst(s, order) ==
    /\ Len(order) = Cardinality(DOMAIN s) /\ Range(order) = DOMAIN s
    /\ \A i \in DOMAIN order : \A t \in s[order[i]] \ {order[i]} :
          BehindCycle(s, order[i]) \/ \E j \in 1..(i - 1) : order[j] = t

TopoSortCorrect == \A s \in SortInputs : SortedTargetsFirst(s, TopoSort(s))

(***************************************************************************)
(* topo_sort_resources gives every resource one place, and every FK target *)
(* a place before its referrers, unless the referrer leads into a cycle of *)
(* references; a reference to itself is no cycle.  On all of SortInputs,    *)
(* and on every schema the author comes to.                                *)
(***************************************************************************)
TargetsFirst == TopoSortCorrect /\ SortedTargetsFirst(schema, TopoSort(schema))

(***************************************************************************)
(* When db:migrate ran over a whole generation, every resource of the      *)
(* schema has a table, and a table it created has the references of the    *)
(* schema, whatever earlier generations, crashes and runs left behind; only*)
(* a resource that leads into a cycle may be without one.                  *)
(***************************************************************************)
DeployCompletes ==
    deploy.pc = "idle" /\ deploy.clean =>
        \A r \in DOMAIN gen.of :
            /\ tables[r].exists \/ BehindCycle(gen.of, r)
            /\ r \in deploy.created => tables[r].refs = gen.of[r]

(***************************************************************************)
(* The ledger has a version exactly when its column is there, except while *)
(* a run is between script and ledger, and where a crash, a failing        *)
(* statement, a second run or db:migrate's DROP TABLE has separated them.  *)
(* A run that then goes through undisturbed mends it.                      *)
(***************************************************************************)
LedgerHonest ==
    \A v \in Versions :
        \/ v \in ledger <=> HasColumn(v)
        \/ v \in torn
        \/ \E i \in Runners : runs[i].pc = "ledger" /\ Head(runs[i].todo) = v

(***************************************************************************)
(* Ups and downs, with targets, crashes and failures, leave no version     *)
(* unapplied below an applied one, unless it was authored late or two runs *)
(* overlapped.                                                             *)
(***************************************************************************)
NoGaps ==
    \A u \in manual : \A v \in ledger :
        u < v => u \in ledger \/ u \in late \/ overlapped
=============================================================================
