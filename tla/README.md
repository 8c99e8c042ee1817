# Formal models of Lazuli

Lazuli compiles a small language (`.lzi`, `.lzx`) to a Go server and a
TypeScript client. Two kinds of its programs keep state, run for hours and meet
concurrency and failure. One is the runtime the generated code links against,
`runtime/go/lazuli` and `runtime/ts/lazuli`. The other is the tools of the
compiler that outlive one file: the language server, the watch loops, and the
migrations with the ledger they keep in a database. The models in this
directory are of those, translated from their source. The passes of the compiler
are batch programs, text in and text out; see "Not modelled".

## Inventory

Paths are relative to `runtime/go/lazuli/` unless they start with another
top-level directory.

| Part | State | Operations | Interacts with |
|---|---|---|---|
| Command pipeline: `handle.go`, `command.go`, `db.go` | the transaction of the request, row locks, resource rows | `Handle`: policy, rate limit, validation, then lock lifecycle, effect, advance lifecycle, outbox rows, audit rows, commit, publish, invalidate; `withTx` retries | Postgres, outbox, event bus, query cache |
| Outbox pump: `events/outbox.go` | `lazuli_outbox.dispatched_at`, the batch in memory | `PumpOnce`, `StartPump` | the command pipeline's rows, the transport |
| Inbox: `events/inbox.go` | `lazuli_inbox` | `AlreadySeen`, `MarkSeen` | receivers |
| Event bus: `eventbus.go` | subscriber lists | `Subscribe`, `Publish` (synchronous, errors logged) | commands, subscribers |
| Query cache: `cache*.go`, `run.go`, `cache/redis.go` | entries with expiry, tags | `lookup`, `store`, `invalidateQueries`; `RunList`/`RunLookup` read through | commands (invalidation), Postgres |
| Rate limiter: `ratelimit.go` | a token bucket and last-seen time per key | `Allow`, `gcLocked` | command pipeline, HTTP middleware |
| Pollers: `poller/` | status, attempts, next_poll_at of a row | select due rows (`runOne`), `ResolveOne`, `CommitTerminal`, `CommitPending` | Postgres, external service, event bus |
| Language server: `crates/lazuli_lsp` | document store, generation counter, suspended handlers, background runs | `did_open`, `did_change`, `did_close`, `execute_command` (apply fix), the two layers of `publish_diagnostics` | the editor, files, the doctor's engine |
| Migrations: `crates/lazuli_codegen_go/src/emitter/migration_ddl`, `crates/lazuli_cli/src/migrate.rs`, the scaffold's `db:migrate` | the generated directory, tables, `lazuli_schema_migrations` | topological order of the files, `generate go`, `db:migrate`, `migrate up`/`down` | files, psql, Postgres |
| Watch loops: `dev.rs`, `doctor_watch.rs`, `cmd_test.rs`, `cmd_test_watch.rs` of `crates/lazuli_cli/src` | event queue, debounce timers, the dev server's process | first run, watch, debounce, run again, restart the server | the file watcher, the compiler, `go run` |
| Jobs: `jobs/` | attempt counter of a dispatch | `DispatchJob`, `NextDelay`, River enqueue | event bus, handlers |
| Sessions: `auth/session.go`, `auth/refresh.go` | token family: parent, replaced_by, revoked | `IssueSession`, `RotateSession`, revocation | TypeScript client |
| One-time tokens: `auth/password_reset.go`, `auth/email_verification.go` | used_at of a token, password hash | request, confirm | sessions |
| Notifications: `notifications/` | throttle counters, digest buffers | `Send`, digest `Add`/`Flush` | transports |
| Webhooks in: `webhooks/receive.go` | seen event ids | verify, dedup, dispatch | commands, event bus |
| Billing gate: `billing/gate.go`, `billing/usage.go` | usage counter per period | check, increment | queries, commands |
| Retention: `retention.go` | rows past their age | sweep | Postgres |
| Storage uploads: `storage/` | upload intent, object, resource column | presign, confirm | object store |
| Data migrations: `migrations/` | applied set | plan, dispatch | Postgres |
| Client: `runtime/ts/lazuli/src/client.ts` | token pair, refresh in flight | request, 401 handling, single-flight refresh | sessions |
| Compiler passes and doctor rules: `crates/` | none across runs | parse, analyse, lower, emit Go/TypeScript/SQL, report | files |

### What is hard

* Two requests interleave at every SQL statement; the order of lock, read and
  write decides whether a lifecycle edge can be taken twice.
* `withTx` runs a closure again. Whatever the closure did outside its
  transaction happens twice.
* A `COMMIT` can succeed although its answer is lost.
* The pump's send and its mark are two steps, and so are the receiver's check,
  handler and mark. Pumps of several instances share the table without locks,
  and rows become visible in another order than their ids.
* A cached result can be stored after the command that invalidates it.
* Times are read before they are used: a request judges the cache by the
  moment it started, the rate limiter reads the clock before its mutex.
* Several instances poll one table and commit by optimistic version checks
  whose result nobody looks at.
* Handlers of the language server are suspended where they send to the client,
  between the publication of their diagnostics and the generation number that is
  to make older runs worthless.
* A migration's script and its ledger row are two processes' commits; a
  directory of files is replaced one file at a time under a running `psql` loop.
* A save falls between a run and the watcher that would tell of it, or into a
  debounce that drops it; what a run writes is an event again.

### What makes each part correct

* Command pipeline: one commit at most per request; the outbox and audit rows
  commit with the effect or not at all; a lifecycle column moves only along a
  declared edge; no committed write is lost; subscribers and caches react only
  to what is durable; every request ends.
* Outbox and inbox: no guaranteed event is lost, the copies and the handler
  runs are bounded, every event is handled, none of a rolled-back transaction is.
* Query cache: two layers that agree; staleness of at most a TTL; an
  invalidation misses only what overlaps it.
* Rate limiter: at most `limit` calls plus what refilled, whatever is swept;
  the returned delay is sufficient.
* Pollers: a terminal status and its event belong together, every row resolved.
* Language server: no file-local diagnostics of an old text stay, the store has the
  text the editor has, the findings of the files on disk arrive with the last change.
* Migrations: a table exists before those that refer to it, a deployment leaves
  every table, the ledger says what was done, and versions are applied without gaps.
* Watch loops: what was saved last is what was run last, the dev server runs
  that, and a loop left alone comes to rest.
* Jobs: as many calls of the handler as the retry policy says, as far apart as
  it says; quota counted for work that succeeded.
* Notifications: a throttle never lets more through than its limit; a digest
  loses and repeats nothing.
* Webhooks and billing: a delivery is handled once; a quota is not exceeded.
* Sessions and client: a refresh token is rotated once outside its grace time;
  one refresh at a time, and every waiting call ends with it.

## Modules and how they follow the code

`PROJECT.json` maps each definition to its lines. Operators under a `\* Mutant:`
comment are deliberately wrong variants of the definition that
follows them. No specification uses them; a property is trusted only after the
variant listed for it has been seen to break it.

**CommandTx** (`handle.go`, `db.go`). A request carries one command, described
by what `Handle` branches on: kind of effect, target rows, lifecycle edge,
numbers of emits, audit flags. `pc` is the position in `Handle`, every SQL
statement is one action (`Begin`, `LockLifecycleTransition`, `ApplyEffect`,
`AdvanceLifecycleTransition`, `WriteOutboxRow`, `WriteAuditRow`, ..., `Commit`), and
`StatementError`, `DeadlockVictim` and `Crash` can fall between any two. The retry
loop of `withTx` is `Rollback` and `RetryAfterBackoff`. Uncommitted work is the record
`tx[r]`. Postgres is external: READ COMMITTED, row locks held to the end of the
transaction, a sequence that does not roll back (`nextId`), a `COMMIT` whose
answer may be lost. Policy, validation and rate limiting come before any state
change and are one choice between `Admit` and `Reject`.

**OutboxPump** (`events/outbox.go`, `events/inbox.go`). A pump selects a batch,
takes its rows in id order, dispatches, marks. A receiver leases a copy, checks
the inbox, runs the handler, marks. Each is a step; errors and crashes are
actions. `faults` and `lostMarks` count the failures between "done" and
"marked", and cap them. The transport (River in the shipped adapter) is external:
it keeps copies, delivers in any order and redelivers what is not acknowledged.

**EventDelivery** is the abstract promise of `outbox guaranteed`: an event
becomes due when its transaction commits, only due events are handled, every due
event is handled in the end.

**CommandOutbox** composes `CommandTx` with an instance of `OutboxPump` whose
`committed` is the set of ids of committed outbox rows, and refines
`EventDelivery`: `due` is the set of (request, emit) pairs in the table, `done` those
handled at least once.

**QueryCache** (`cache*.go`, `run.go`, the invalidation in `handle.go`). The LRU
list, the expirable stores (one per normalised TTL, `StoreOf`, each with the
capacity for itself), and the three-step read (`LookupHit`/`LookupMiss`,
`QueryDatabase`, `Store`) and two-step command (`CommitCommand`,
`InvalidateQueries`). The database is a version number per query. History
variables (`floor`, `readFloor`, `putFloor`) record which invalidations were
over at a read or a store. A request judges time by `ctx.Now`, the moment it
started; one in `Timeless` has none and reads the clock at every use, at the lookup
and again at the store. `StalenessBounded` leaves out what such a request stored: it
dates the entry after its query, by however long that took.

**RateLimiter** (`ratelimit.go`). A call reads the clock (`ReadClock`) and then,
under the mutex, is admitted or refused (`Admit`, `Refuse`); an admission
may sweep. Buckets count time units instead of fractional tokens, which is exact
where the window is a multiple of the limit. `golang.org/x/time/rate` is
external: a time before the last one adds no tokens and becomes the new last
time. `late` is the total wait for the mutex.

**Poller** (`poller/dispatcher.go`, `poller/handle.go`, the `QueryRunner` contract). A
loop selects ids, and for each loads the row, applies the quirk, calls the handler and
commits. `seen` is the version it loaded. The SQL behind `QueryRunner` is generated by
user projects; its UPDATEs are modelled as the contract's comments and the tests' runner
have them: conditional on (id, attempts). The predicate of a quirk is over columns the
model does not have, and what `ApplyQuirk` does to them is the implementation's: on
every load of a row in `Quirky` the predicate may answer either way, and the quirk
changes nothing the cursor depends on.

**LspDiagnostics** (`crates/lazuli_lsp/src/backend_p1.rs`). The server runs on one
thread, so the code between two awaits is one action. `DidOpen`, `DidChange` and
`ExecuteFix`/`RefreshAfterFix` put a text into `documents` and send the file-local
diagnostics; there they are suspended (`handlers`), and `TakeGeneration` is the rest of
`publish_diagnostics`: the `fetch_add` and the spawned task. The task sleeps and checks
(`Wake`), runs the engine on a blocking thread (`Engine`, which reads the package from
disk, whatever the open buffers have, and may panic), checks again and publishes
(`Merge`). tower-lsp is external: it starts handlers in the order of their messages,
lets at most `Workers` be unfinished, and resumes them in any order. The editor is
external too: it opens, edits (one or several changes in a notification), saves,
reloads, closes and asks for fixes. A text is a number; diagnostics are the text and the
configuration of the file-local part, and for the package part the files as the engine
found them on disk, `NotRun` before it ran, or `LoadFailed` (LOAD-FAILED-001) where a
file on disk has a text of `Broken`. History variables record which handler was newest
(`published`, `latest`), through which window a result slipped (`raced`, `overwritten`),
and whether a file was written after the newest generation's engine ran (`unread`;
`didSave` starts no run).

**Migrations** (`migration_ddl/topo.rs`, `generate/go.rs`, `migrate.rs`, the scaffold's
`package.json`). `TopoSort` is Kahn's algorithm with the lexically smallest ready
resource first and the rest of a cycle appended; `SortedTargetsFirst` is what it is
checked against, on all 65,536 schemas of four resources, and what it is proved to
satisfy on every one. `Generate...` empties the directory and writes file by file;
`Deploy...` is the shell loop over the glob it expanded at its start; `Start`,
`ReadLedger`, `RunScript` and `WriteLedger` are `lazuli migrate` in both directions. All
of them can crash in between and run at the same time. A table is its references and the
columns manual migrations gave it. psql and Postgres are external: every statement
commits, an error stops `psql -f` with `ON_ERROR_STOP` and not the loop of `db:migrate`.
Two orders are simplified. The generated files are compared by their number, the glob
compares their text: with the three digits of the names these agree up to 999 files.
Versions have one order, where the code sorts by bytes when it plans and by the
database's collation in `ORDER BY version DESC`: these agree on versions that begin with
numbers of one length.

**WatchLoops** (`dev.rs`, `doctor_watch.rs`, `cmd_test.rs`, `cmd_test_watch.rs`). One
loop of the three, chosen in `Init`. All run once, `Install` the watcher and take its
events: `DevCollect`/`DevRegen` with a trailing debounce and a server that is stopped
before the regeneration, `DoctorEvent` with a leading one that drops what comes too
early, `TestEvent`/`TestDrain` with a bucket per layer. A run reads its files at one
moment (`Read`) and ends later, so that a save may fall between. What it reads is
`Reached`: the manifest alone when that does not load, and in the first test run the
layers up to one that fails. A regeneration (`FinishRegen`) fails for a source that does
not compile, a manifest that does not load or a write error, and leaves no server; an
error in starting one ends the loop. `noRun` is `--no-run`. History variables record
what the code misses: saves before the watcher (`missed`), in the doctor's debounce
(`dropped`), jobs stopped before their files (`skipped`), failed writes (`unwritten`).
The notify crate is external; whether it reports files being read differs by platform
and is the variable `access`.

## Runs

| Run | Bounds | What it shows |
|---|---|---|
| `command_safety` | 2 requests, 2 rows, 3 lifecycle states, 10 command shapes, 3 attempts | the invariants of the pipeline, lifecycle edges, and that every request ends |
| `pump` | 2 pumps, 1 receiver, 3 rows, one of them failing for ever, batches of 2, 1 fault per row and kind | no loss, bounded copies and runs, every other event is handled |
| `inbox_repeat` (violation) | 2 pumps, 2 receivers, 1 row, no failure | a repeat dispatch is not a no-op: both receivers run the handler |
| `delivery` | 2 commands with one guaranteed emit each, 1 pump, 1 receiver | only committed events are delivered; the composition implements `EventDelivery` |
| `cache_safety` | 2 readers, 1 command, 3 keys of 3 queries with TTL 0, 1 and -2, capacity 2, 3 time units, one reader without `ctx.Now` | layers agree, staleness bounded, what an invalidation can miss |
| `limiter_safety` | 2 calls, 2 buckets of limits 2 and 1 in a window of 2, 4 time units, 2 units late | admission bound and sufficient retry delay |
| `limiter_mixed` (violation) | windows of 1 and 6 | a sweep for the short window removes the long one's bucket |
| `poller` | 2 instances, 2 rows, 1 unfinished call | status and resolution go together, what may be announced, every row is resolved |
| `poller_announce` (violation) | 2 instances, 1 row | what is announced is not what the row has: a second commit overwrites it |
| `lsp` | a source and the manifest, 2 unfinished handlers, 4 messages, 3 texts of which one does not load, 1 panic | the windows through which stale diagnostics get, the store, the package findings that arrive |
| `migrate` | 2 resources, 2 manual versions, 2 runs of `lazuli migrate`, 4 edits, starts or faults | order, deployment, ledger, gaps |
| `watch` | each of the 3 loops, 3 saves, 1 fault | the last save is run, the server follows it, the loop settles |

Four more configurations are kept beside the runs, each with a counterexample of a few
steps to a sentence in a comment (see "What the models found"):

| Configuration | Module | Property |
|---|---|---|
| `CommandTx_payload.cfg` | `MCCommandTx` | `PayloadIsPersistedRow` |
| `CommandTx_returns.cfg` | `MCCommandTx` | `GuaranteedEmitsWritten` |
| `LspDiagnostics_stale.cfg` | `MCLspDiagnostics` | `StaleNeverOverwrites` |
| `WatchLoops_doctor.cfg` | `MCWatchLoops` | `EveryChangeIsChecked` |

Why the bounds suffice to meet the interesting cases. Two requests on the same
row race for one lifecycle edge, with a third state to tell "advanced twice"
from "advanced once"; a reorder over two rows in both orders deadlocks; three
attempts are the code's own number. Two pumps hold one row, and one fault on top
makes the third copy. Three rows with batches of two make a failing row occupy half
of every batch, and late commits of low ids are among the behaviours. One
receiver is what liveness with a failing row leaves room for; several are
covered by `inbox_repeat` and by the proofs, for any number. Three keys in a cache of two
evict; a store that overflows by itself needs three keys of one TTL that have left
the list, and is covered by the proofs alone. A window
longer than the idle time and a sweep at every unit make the sweep as early as
it can be. Two poller instances hold two rows in both orders, each with a copy
the other has made stale. Two unfinished handlers can take their generations in
the wrong order; four messages are an open of each document, a change and a
fix or a close; three texts tell the first of two changes from the last. Two
migrations of which one is idempotent, on one table, and four events allow a run, a
second one that overlaps it, a crash and a deployment. Three saves are one before
the watcher, one during a run and one in the debounce after it, or a bad manifest, a
source saved over it and the manifest mended.

Symmetry is used in `limiter_safety` and `migrate`, which have no liveness, over calls
and runners: no definition tells them apart.

Deadlock is checked in the runs of `CommandTx`, `OutboxPump`, `CommandOutbox` and
`Poller`. In `QueryCache` and `RateLimiter` the bounded clock stops at its bound;
the editor, the author and whoever saves files may really fall silent, and the
server, the migrations and the loops then wait for ever.

`delivery` has no faults and no failing rows (`MaxFaults = 0`, `Poison = {}`):
failures of a pump are covered by `pump` alone, and with a row that fails for ever the
abstract promise is not meant to hold. Crashes that leave no duplicate,
and all failures of the command side, are in it.

### Fairness

* `CommandTx`: weak fairness of each request's own steps. The Go scheduler runs
  every goroutine that can run, Postgres grants a lock when it is free and
  answers every statement. Not assumed: that anything succeeds.
* `OutboxPump` and `Poller`: weak fairness of each loop (a ticker in a goroutine
  that only a cancelled context ends) and of each receiver, and that from some
  moment on the environment stops failing. The latter is not the code's
  doing: with a database that fails for ever nothing is delivered. It is stated
  as `<>[][Healthy]_vars`, so any finite number of failures comes before.
* `Poller` also needs a handler that comes to a terminal result; `MaxCount`
  bounds the calls that do not.
* `LspDiagnostics`: weak fairness of dispatching, of resuming and of the background.
  The executor polls what is ready, the client reads its pipe, `sleep` ends
  and the engine returns or panics. Nothing is assumed of the editor.
* `WatchLoops`: weak fairness of the loop's thread and of each timer. Nothing is
  assumed of who saves.

## Proofs

TLAPS checks them for all values of the constants that satisfy the named
assumption of each module: any number of requests, rows, attempts, pumps,
receivers, keys, buckets, documents, versions, and any value of the bounds.
The assumptions ask for what the constants are (types, non-zero limits, a
transition that belongs to an updates effect) and for finite sets of processes,
pumps and pollers, where they are counted. A few exclude the empty system: at
least one cache key, one bucket, one polled row, and a clock that moves. Every
run evaluates the assumptions of its module.

Every theorem is an inductive invariant that holds initially, is preserved action by
action, and implies the property; an action property is shown of every step from a
state of such an invariant. The subsections say what had to be added to the
property and why.

### CommandProofs

The pipeline alone (`CommandTx`):

* `TypeCorrect`: `TypeOK`, together with `BackoffInv` (a request in backoff has
  an attempt left), without which the attempt counter could leave its range.
* `CommandAtomicity`: `AtMostOneCommit`, `OutboxAtomic` and `AuditAtomic`, the
  last of which no run checks; `EffectAppliedOnce` is the first alone. None
  is inductive, as each speaks only of committed tables. `EmptyInv`
  says that a transaction that has not written holds nothing (so that a retry
  starts clean); `CommitInv` which positions lie before the commit and
  after it; `OutboxInv` and `AuditInv` what an open transaction has inserted
  at each position, and that it is complete at `commit`.
* `ReactionsAfterCommit`: `ReactionsFollowCommit`, from `CommitInv`.
* `WritesUnderLock`: `NoLostUpdate`. `DirtyInv`: a row a transaction has
  written is one of its targets, locked by it, and its new image was computed
  from the committed row. `AdvanceInv`: what `AdvanceLifecycleTransition` finds.
* `LifecycleSafety`: the action property `LifecycleFollowsEdges`. `GuardedInv`:
  from the guard to the end the row is locked and its committed state is in the
  command's from-set, so the commit takes the edge that was checked.
* `OutboxOrder`: `OutboxIdsOrdered`. `IdsInv` says the same of the rows inside
  open transactions, which are what the table gets next, and that the sequence
  is ahead of all of them.
* `RequestsOnlyGoForward`: the action property `OnlyForward`, the variant behind
  `EveryRequestEnds`. Every step of a request starts the next of its `MaxAttempts`
  attempts, lowers its `Stage` (the distance to the end of the attempt), inserts the
  next of its outbox rows, or takes one more lock and keeps the others; a step of another
  request leaves all of this alone. `BackoffInv` bounds the attempts.
* `LocksEndWithTx`: `LockInv`, a lock belongs to a request inside its transaction. With
  the former, a request that keeps being run can fail to end only by waiting for locks of
  requests that go forward themselves; cycles of waits are `DeadlockVictim`'s.

`IndInv` is the conjunction of the first nine parts (`BackoffInv` to `AdvanceInv` and
`TypeOK`); each is preserved lemma by lemma.

The pipeline with its pumps and receivers (`CommandOutbox`), in the same module:

The inductive invariant and `IdsInv` of the command side carry over unchanged,
since a step of the composition is a step of `CommandTx` or leaves its
variables alone.

* `NothingInvented`: `OnlyCommittedEvents`. `PathInv` says of every place an event
  can be in (batch, current row, transport, a receiver's message, sent,
  handled) that its id is in the table; `RowFacts` that a row of the table
  belongs to a committed request.
* `PumpSide`: `ComposedSpec => P!Spec`. A commit adds ids the table does not
  have, which is `CommitRows`; the theorems of `OutboxPumpProofs` therefore speak of
  the composed system. (The prover cannot use a theorem through an `INSTANCE`,
  so they are not repeated here.)
* `DeliverySafety`: the composition implements `EventDelivery!Safety`. A commit is
  `Emit` of all its emits at once: the request had no rows before, and nobody
  handled ids that were not in the table. A run of the handler is `Handle` of
  the one event whose row has the id; every other step stutters. The liveness half
  of `EventDelivery` is checked by TLC (`ImplementsDelivery`).

### OutboxPumpProofs

* `PumpTypeCorrect`: `TypeOK`.
* `GuaranteedDelivery`: `NoEventLost`. `LossInv` adds that the copy survives
  while a pump stands between send and mark, and that a receiver about to mark
  has handled its event.
* `CopiesBounded`: `DuplicatesBounded`. `CopiesInv` counts: while a row is not
  dispatched each of its sends is a fault or a pump about to mark it
  (`Marking`). A pump that selects the row then is none of those, hence sends plus
  pumps that hold the row (`Holding`) are at most one per pump plus the faults,
  and stay so after the row is marked, when nobody selects it any more.
* `RunsBounded`: `HandledBounded`, by the same count with the inbox in place of the mark.

### QueryCacheProofs

* `QueryCacheTypeCorrect`: `TypeOK`.
* `LayersNeverPart`: `LayersAgree`. `LayersInv`: the LRU list names no key
  twice. The lemmas on `Nth` and `Drop` show that removing keys from the list
  keeps the others and their order.
* `StalenessIsBounded`: `StalenessBounded`. `AgeInv`: a request reads after it
  started, and an entry expires at most a TTL after it was read.
* `InvalidationComplete`: `StaleOnlyByOverlap`. `FloorInv`: a servable entry was
  stored under the floor its query still has, and what was read is never older
  than the floor at that moment.

### RateLimiterProofs

* `RateLimiterTypeCorrect`: `TypeOK`.
* `RetryIsEnough`: `RetryAfterSuffices`. `RetryInv`: while the bucket is in the map
  the retry time is the moment its level reaches one token.
* `OwnWindowSuffices`: `AdmissionBound`, for behaviours in which no bucket is swept
  before its own window has passed (`OwnWindowRespected`). `AccountInv`: admissions
  since any moment and what the bucket still holds are worth at most a full
  window plus what refilled since, plus what late calls refilled twice.
* `CompatibleSweep`: `OwnWindowRespected` holds where no bucket's window exceeds
  both another one's and the idle time (`WindowsCompatible`), and
  `AdmissionsBounded`: so does `AdmissionBound`. The hypothesis is true of the
  `limiter_safety` instance, and of every process whose limits have windows of at most the
  idle time, or all the same one. It is needed: `limiter_mixed` violates it, and shows
  the sweep that breaks the comment.

### PollerProofs

* `PollerTypeCorrect`: `TypeOK`, with a status exactly on the resolved rows.
* `AnnouncementsBounded`: `EmitsFollowTerminal` compares two counters and says
  nothing of loops on their way to a publication. `EmitsInv` counts them: before the row is
  resolved those whose copy is stale (`Stale`), afterwards all that hold the
  row (`Holders`). `PublishInv`: who is about to publish has a stale copy or
  the row is resolved.

### LspDiagnosticsProofs

* `LspTypeCorrect`: `TypeOK`. `BaseInv`: a message becomes a handler and a
  handler a generation, so none outnumbers the messages; handlers have distinct ids.
* `OnlyRacesAreStale`: `StaleOnlyByRace`, about the file-local part; the package part is
  of the disk, and `PackageFindingsArrive` is about it. The run of the current generation works for the
  handler that took it (`TaskInv`), and that handler's document still has what
  it sent, or a newer handler is about to take its generation, or it is closed
  or already recorded as raced (`LatestInv`).
* `StoreFollowsEditor`: `StoreMirrorsEditor`. `MirrorInv`: the last message about a
  document that is still on its way carries the editor's text.

### MigrationsProofs

* `TypeCorrect`: `TypeOK`. No two files of the directory have one name and there are
  finitely many of them, so that counting the names before a file numbers
  them (`SortedFilesProperties`).
* `TopoSortSound`: `SortedTargetsFirst` for every finite schema. `Ordered` is what every
  turn of the loop keeps: a resource is emitted once, all its targets before it.
  After as many turns as there are resources nothing is ready any more: either all are
  emitted, or no turn found one. Every resource then left over refers to another one
  that is, so it leads into a cycle. The turns are counted off by
  `InductionUpTo`, which is proved from the lowest number a set leaves out and takes
  a set of numbers where the library's theorem takes a predicate.
* `TargetsAlwaysFirst`: `TargetsFirst`, since every edit leads from a schema to a schema.
* `CleanDeployCompletes`: `DeployCompletes`. `GenInv`: outside a generation the directory
  is what codegen emitted. `Split`: a clean run has its files sorted by name, those done
  before those to do. `Deployed`: the up files that are done have their tables, and
  what was created is as the schema has it. A down file drops no table that is
  done because the up file of its resource is the next one, and an up file finds
  its targets because `TopoSort` put their files before it. With `NameBefore` changed
  so that `.sql` comes before `.down.sql`, the proof fails at that very step.
* `LedgerIsHonest`: `LedgerHonest`. `MatchInv`: between script and ledger row the
  column is as the script left it.
* `NoGapIsLeft`: `NoGaps`. `PlanInv`: what is below a version still to be applied
  is applied, late or earlier in the plan, and what is above one still to be taken back
  comes before it in the plan. The lemmas on `Ascending` show that it lists a
  set once and in order.

### WatchLoopsProofs

The three properties of `WatchLoops` are liveness; these theorems are the safety they rest on.

* `WatchTypeCorrect`: `TypeOK`. `ValuesOK` adds that no number of a save on disk, seen or
  running is ahead of the counter, `ControlOK` that the first run is of all jobs.
* `NoSaveIsForgotten`: `NothingForgotten`. What a job has not seen of a file it watches is
  `OnItsWay`: its event is queued, was collected (`changed`), is in a bucket, or the job is
  due and has yet to read; or the job stopped before the file (`skipped`), which the doctor does
  only at a manifest that does not load (`SkippedForManifest`). Excepted are the files in `missed` and `dropped`, the windows
  the code really has. A read takes a file out of these only for the one
  job of the loop that watches it (`OneReader`), or the invariant would be lost there.
* `ServerRunsWhatWasRead`: `ServerOK`. The server is stopped before a regeneration and
  started with its result, or with nothing when the regeneration failed for its source,
  manifest or writes; a new save cannot make what was read bad, as its number is new.
* `UpToDateAtRest`: `RestIsUpToDate`, from the two. In a waiting loop with no event and no
  bucket nothing is on its way, so what was last read is what is on disk, unless the job
  stopped before reading it; for the doctor only while the manifest on disk is the bad one.
* `RunsStartNoRuns`: the action property `StartsNoRun`. Reading queues access events, which
  the dev and the test loop skip, and generating queues events of files no loop is about.

Left to TLC is that the loop does come to rest.

### Only model-checked

* Liveness: `EveryRequestEnds`, `EveryEventHandled`, `CommittedEmitsHandled`, the
  liveness half of `ImplementsDelivery`, `EveryRowResolved`, `PackageFindingsArrive`
  and the three properties of `WatchLoops`. It is out of the prover's reach; of
  `EveryRequestEnds` and the properties of `WatchLoops` the part that is safety is proved.
* So every invariant and every action property a run checks is also a theorem, but for
  those of the violation runs, which do not hold.

Some operators are written for the proofs. `Drop` of `QueryCache`, `Ascending` and
`SortedFiles` of `Migrations` choose the n-th element by its rank instead of folding over
a set, `Kahn` is a recursive function of the number of turns, and the
rate limiter's history numbers its admissions, so that equal times stay apart.
`CommandOutbox` bounds the id sequence by `MaxId` in the guard `InRange`; in the
`delivery` run no command reaches the bound.

## What the models found

Three disagreements between the code and its own comments are violation
runs; `PROJECT.json` quotes the lines.

* `events/inbox.go` says a repeat dispatch is a no-op (`inbox_repeat`). Check, handler
  and mark are three calls: two receivers of two pumps' copies both find the event unseen.
  `HandledBounded` is what holds.
* `poller/contract.go` says the events are published after a row commits a terminal
  state, and that terminal states are absorbing (`poller_announce`). The terminal commit does not
  move the version, so a second instance overwrites the status while the first announces it;
  and with a copy that is stale altogether, `CommitTerminal` matches no row and the events
  are published all the same. With one instance each resolution is announced at most
  once; `EmitsFollowTerminal` is the bound for several.
* The sweep of the rate limiter uses the wrong window (`limiter_mixed`). Buckets
  of a daily limit return full after a minute as soon as a per-second policy
  shares the process.

Four more have a configuration that shows them:

* The payload of a guaranteed emit is taken from the row the effect returned, before the
  lifecycle column is advanced (`handle.go:192-206`); the comment on `buildEmitPayload` speaks
  of "the exact persisted state" (`CommandTx_payload.cfg`).
* A returns effect takes the branch without `writeGuaranteedOutboxRows`, and `publishEmits`
  skips guaranteed emits: they are neither stored nor published, against `event.go` on
  `OutboxGuaranteed` (`CommandTx_returns.cfg`).
* "stale results never overwrite fresh ones" (`backend_p1.rs:9-13`). They can: between a
  newer handler's send and its `fetch_add`, and when two handlers take their generations in the
  wrong order (`LspDiagnostics_stale.cfg`). `did_close` takes no generation, so a
  run that is under way shows findings in a closed document.
* "re-runs the pipeline on every change" (`doctor_watch.rs:1-2`). The debounce is on the leading
  edge: a save within 200 ms of the start of a run, or of the watcher, is dropped, and the report
  stays that of the text before (`WatchLoops_doctor.cfg`).

Seen while modelling, and in the models as the code has it, without a run of its own:

Runtime

* `query.go` says a TTL of zero or less is the default; `cache_ttl.go` makes a
  negative one never expire.
* A poller handler that returns an empty result is retried uncounted; the
  contract says the counter still increments.
* `max_attempts` of a poller (`docs/keyword-reference.md`) is read nowhere.

Language server

* The engine reads the files on disk: with unsaved edits the package findings are of the
  saved text, on the positions of the buffer's, and saving starts no run.
* The generation is one for all documents: an edit of one cancels the findings
  of another, which come back only with its next edit.
* After a fix the file is inserted into the store whether or not it is open,
  and over unsaved edits.
* An edit of the manifest's buffer does not publish other documents again.

Migrations

* `lazuli migrate` looks for `.up.sql`, which the generator does not write: it never
  applies a generated migration, contrary to the command's own description.
* The glob of `db:migrate` puts `NNN_x.down.sql` before `NNN_x.sql`, so every
  deployment drops what nothing refers to and creates it again, the columns of
  manual migrations gone while the ledger still has them.
* The tables of a cycle of references cannot be created by any order; `topo.rs` speaks of
  graceful degradation.
* `strategy = "manual"` restricts nothing; only `check-only` does.
* After a crash between script and ledger, a script that is not idempotent
  fails for ever and blocks all later versions.

Watch loops

* A save between the first run and the installation of the watcher is seen only with the next one.
* The doctor does not skip access events as the other loops do; where the
  platform reports them, its own reading keeps it running.
* Neither the dev nor the test loop watches `Lazurite.toml`: after a regeneration that failed
  on a bad manifest there is no server, over a good source, until a source is saved again.
* The dev loop's trailing debounce never ends while events keep coming.

## Not modelled

* Within modelled parts: what goes into a cache key; parsing of rate limits and
  the choice of the caller; the lengths of backoffs (only "due" or "not yet");
  payload contents beyond the persisted row; queries of other resources; what
  diagnostics say; the requests of the language server that only read the store;
  columns, types and constraints other than foreign keys; whether killing `go run`
  also kills the binary it started.
* The Redis cache, event bus, retention, storage, data migrations, HTTP and policy
  layer and the adapters: see the notes in `PROJECT.json`.
* The passes of the compiler (parsers, analyzer, planner, emitters) and the
  doctor's rules, by far the largest part of the repository's lines. No state
  survives a run, nothing is concurrent, and nothing fails half-way but the
  writing of files, which `Migrations` has for the directory where it matters.
  What they compute is text; a model would have to repeat it line by line and
  would say no more than the examples beside the code. A map of a
  large share of all lines is therefore out of reach of faithful models; what is
  mapped is the part that has behaviours.

## Plan

Done: `CommandTx`, `OutboxPump`, `EventDelivery`, `CommandOutbox`, `QueryCache`,
`RateLimiter`, `Poller`, `LspDiagnostics`, `Migrations`, `WatchLoops`; proofs of all.

Next, in this order:

1. `Jobs` (`jobs/dispatch.go`, `jobs/retry.go`) with the quota gate
   (`billing/gate.go`): attempts, timeouts, the delay that overflows, check before
   and increment after.
2. `Webhooks`: redelivery during handling.
3. `Notifications`: throttle, digest and flush under concurrency; the buffer
   that grows when its caller does not flush.
4. `Sessions` (`auth/session.go`, `auth/refresh.go`) with the single flight of
   `client.ts`; one-time tokens.
