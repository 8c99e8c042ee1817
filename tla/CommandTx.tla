----------------------------- MODULE CommandTx -----------------------------
(***************************************************************************)
(* The command pipeline of the Go runtime: Command.Handle (handle.go) and  *)
(* the retrying transaction it runs in, withTx (db.go).                    *)
(*                                                                         *)
(* A request carries one command.  After the admission checks its effect   *)
(* runs as a sequence of SQL statements inside a Postgres transaction:     *)
(* lock and check the lifecycle guard, apply the effect, advance the       *)
(* lifecycle column, insert one outbox row per guaranteed emit, insert the *)
(* audit rows, commit.  Only after the commit are the best-effort emits    *)
(* published and the query cache invalidated.  Requests run concurrently;  *)
(* each statement is a step of its own, so that another transaction, a     *)
(* statement error or a crash of the process can fall between any two.     *)
(*                                                                         *)
(* Postgres is external: READ COMMITTED, a row lock is held from the       *)
(* statement that takes it to the end of the transaction, and a statement  *)
(* waits for the locks of the live rows it matches.                        *)
(***************************************************************************)
EXTENDS Naturals, FiniteSets

CONSTANTS
    Requests,     \* command invocations in flight
    Rows,         \* rows (unique keys) of the resource
    States,       \* values of the lifecycle column
    InitState,    \* lifecycle state a created row starts in
    Commands,     \* the command shapes a request may carry
    NoRequest,    \* stands for "nobody" (no lock holder, no writer)
    MaxAttempts   \* withTx: const maxAttempts = 3

Effects == {"returns", "creates", "updates", "noop", "deletes", "reorder"}

(***************************************************************************)
(* What Command[I, O] declares, as far as Handle branches on it.  A chain  *)
(* of transitions counts through the from-set of its first edge and the To *)
(* of its last: nothing else of it is read.  "noop" is an updates effect   *)
(* all of whose optional inputs are absent.                                *)
(***************************************************************************)
Command ==
    [effect      : Effects,
     targets     : SUBSET Rows,
     transition  : BOOLEAN,
     froms       : SUBSET States,
     to          : States,
     guaranteed  : Nat,
     bestEffort  : BOOLEAN,
     audit       : BOOLEAN,
     materialize : BOOLEAN,
     invalidates : BOOLEAN]

ASSUME CommandTxAssumption ==
    /\ NoRequest \notin Requests
    /\ InitState \in States
    /\ MaxAttempts \in Nat \ {0}
    /\ Commands \subseteq Command
    \* resolveLifecycleTransitionTarget: a transition needs an updates effect
    \* with a single id binding; every single-row effect has one target.
    /\ \A c \in Commands :
          /\ c.effect # "reorder" => \E w \in Rows : c.targets = {w}
          /\ c.transition => c.effect \in {"updates", "noop"}

VARIABLES
    cmd,         \* the command each request carries
    pc,          \* where each request is in Handle
    attempt,     \* attempts of withTx already used up
    tx,          \* uncommitted work of each request's transaction
    lock,        \* row locks
    rows,        \* committed resource rows
    nextId,      \* the sequence behind lazuli_outbox.id
    outbox,      \* committed rows of lazuli_outbox
    audit,       \* committed audit_log rows, per request
    oplog,       \* committed OperationLog (materialize) rows, per request
    published,   \* requests whose best-effort emits reached the event bus
    invalidated, \* requests that ran queryCache.invalidateQueries
    commits      \* how often each request's transaction committed

db   == <<rows, outbox, audit, oplog, commits>>
post == <<published, invalidated>>
vars == <<cmd, pc, attempt, tx, lock, rows, nextId, outbox, audit, oplog,
          published, invalidated, commits>>

RowVal == [live : BOOLEAN, state : States, by : Requests \cup {NoRequest}]

\* The zero output value O a reorder returns.
ZeroRow == [live |-> FALSE, state |-> InitState, by |-> NoRequest]

OutboxRow == [id : Nat, req : Requests, emit : Nat, payload : RowVal]

(***************************************************************************)
(* What a transaction has done so far: the rows it wrote and their new     *)
(* image, the row its effect returned, the outbox rows it inserted and the *)
(* number of them, its audit inserts.                                      *)
(***************************************************************************)
Tx == [dirty : SUBSET Rows, image : [Rows -> RowVal], out : RowVal,
       inserted : SUBSET OutboxRow, n : Nat, audit : 0..1, oplog : 0..1]

EmptyTx == [dirty |-> {}, image |-> [w \in Rows |-> ZeroRow],
            out |-> ZeroRow, inserted |-> {}, n |-> 0, audit |-> 0, oplog |-> 0]

InTx     == {"begin", "guard", "effect", "advance", "outbox", "audit",
             "materialize", "commit"}
Terminal == {"ok", "error", "crashed"}
PCs      == InTx \cup Terminal \cup
            {"idle", "handler", "backoff", "publish", "invalidate"}

Init ==
    /\ cmd \in [Requests -> Commands]
    /\ pc = [r \in Requests |-> "idle"]
    /\ attempt = [r \in Requests |-> 0]
    /\ tx = [r \in Requests |-> EmptyTx]
    /\ lock = [w \in Rows |-> NoRequest]
    /\ rows \in [Rows -> {[live |-> l, state |-> InitState, by |-> NoRequest] :
                            l \in BOOLEAN}]
    /\ nextId = 1
    /\ outbox = {}
    /\ audit = [r \in Requests |-> 0]
    /\ oplog = [r \in Requests |-> 0]
    /\ published = {}
    /\ invalidated = {}
    /\ commits = [r \in Requests |-> 0]
-----------------------------------------------------------------------------
(* The order of the statements of one attempt, and what each command skips. *)

AfterBegin(c)       == IF c.transition THEN "guard" ELSE "effect"
AfterMaterialize(c) == "commit"
AfterAudit(c)       == IF c.materialize THEN "materialize" ELSE "commit"
AfterOutbox(c)      == IF c.audit THEN "audit" ELSE "commit"
AfterAdvance(c)     == IF c.guaranteed > 0 THEN "outbox" ELSE AfterOutbox(c)
AfterEffect(c)      == IF c.transition THEN "advance" ELSE AfterAdvance(c)
AfterPublish(c)     == IF c.invalidates THEN "invalidate" ELSE "ok"

Goto(r, label) == pc' = [pc EXCEPT ![r] = label]

Unlocked(r) == [w \in Rows |-> IF lock[w] = r THEN NoRequest ELSE lock[w]]
-----------------------------------------------------------------------------
(***************************************************************************)
(* Policy, rate limit, input tags and validators, in this order: each may  *)
(* end the request with an error before anything else happens.             *)
(***************************************************************************)
Admit(r) ==
    /\ pc[r] = "idle"
    /\ Goto(r, IF cmd[r].effect = "returns" THEN "handler" ELSE "begin")
    /\ UNCHANGED <<cmd, attempt, tx, lock, nextId, db, post>>

Reject(r) ==
    /\ pc[r] = "idle"
    /\ Goto(r, "error")
    /\ UNCHANGED <<cmd, attempt, tx, lock, nextId, db, post>>

\* applyReturns: the user's handler runs outside any transaction.
ApplyReturns(r) ==
    /\ pc[r] = "handler"
    /\ \E result \in {"publish", "error"} : Goto(r, result)
    /\ UNCHANGED <<cmd, attempt, tx, lock, nextId, db, post>>

\* runTxAttempt: dbPool.Begin, then the closure.
Begin(r) ==
    /\ pc[r] = "begin"
    /\ Goto(r, AfterBegin(cmd[r]))
    /\ UNCHANGED <<cmd, attempt, tx, lock, nextId, db, post>>
-----------------------------------------------------------------------------
(* Row locks (Postgres). *)

\* Mutant: FOR UPDATE on the statement of the effect instead of the guard's.
WantedGuardUnlocked(r) ==
    IF pc[r] = "effect"
    THEN {w \in cmd[r].targets :
             (rows[w].live \/ cmd[r].effect = "creates") /\ lock[w] # r}
    ELSE {}

\* Mutant: the effect reads the row first and writes it back unlocked.
WantedAtGuardOnly(r) ==
    IF pc[r] = "guard"
    THEN {w \in cmd[r].targets : rows[w].live /\ lock[w] # r}
    ELSE {}

(***************************************************************************)
(* The rows the current statement of r still has to lock.  Only committed  *)
(* live rows match a WHERE clause; an INSERT waits for its unique key; the *)
(* plain SELECT of a no-op update locks nothing.                           *)
(***************************************************************************)
Wanted(r) ==
    LET c == cmd[r]
        matched == IF c.effect = "creates" THEN c.targets
                                           ELSE {w \in c.targets : rows[w].live}
    IN  IF pc[r] = "guard" \/ (pc[r] = "effect" /\ c.effect # "noop")
        THEN {w \in matched : lock[w] # r}
        ELSE {}

LockRow(r, w) ==
    /\ w \in Wanted(r)
    /\ lock[w] = NoRequest
    /\ lock' = [lock EXCEPT ![w] = r]
    /\ UNCHANGED <<cmd, pc, attempt, tx, nextId, db, post>>

WaitsFor(q, s) == \E w \in Wanted(q) : lock[w] = s

\* A set of transactions each of which waits for, and is awaited by, another.
Deadlocked(r) ==
    \E S \in SUBSET Requests :
        /\ r \in S
        /\ \A q \in S : /\ \E s \in S : WaitsFor(q, s)
                        /\ \E s \in S : WaitsFor(s, q)
-----------------------------------------------------------------------------
\* Mutant: the retry loop compares with <= and runs one attempt too many.
RollbackOneRetryTooMany(r, retryable) ==
    /\ Goto(r, IF retryable /\ attempt[r] <= MaxAttempts - 1
               THEN "backoff" ELSE "error")
    /\ tx' = [tx EXCEPT ![r] = EmptyTx]
    /\ lock' = Unlocked(r)
    /\ UNCHANGED <<cmd, attempt, nextId, db, post>>

\* Mutant: no deferred tx.Rollback, the transaction stays open on the server.
RollbackForgotten(r, retryable) ==
    /\ Goto(r, IF retryable /\ attempt[r] < MaxAttempts - 1
               THEN "backoff" ELSE "error")
    /\ tx' = [tx EXCEPT ![r] = EmptyTx]
    /\ UNCHANGED <<cmd, attempt, lock, nextId, db, post>>

(***************************************************************************)
(* An attempt ends without a commit: the deferred tx.Rollback undoes its   *)
(* work and releases its locks.  withTx retries SQLSTATE 40001 and 40P01   *)
(* while attempts remain and returns every other error at once.            *)
(***************************************************************************)
Rollback(r, retryable) ==
    /\ Goto(r, IF retryable /\ attempt[r] < MaxAttempts - 1
               THEN "backoff" ELSE "error")
    /\ tx' = [tx EXCEPT ![r] = EmptyTx]
    /\ lock' = Unlocked(r)
    /\ UNCHANGED <<cmd, attempt, nextId, db, post>>

\* Mutant: the error of tx.Commit is dropped.
StatementErrorCommitIgnored(r, retryable) ==
    /\ pc[r] \in InTx
    /\ IF pc[r] = "commit"
       THEN /\ Goto(r, "publish")
            /\ tx' = [tx EXCEPT ![r] = EmptyTx]
            /\ lock' = Unlocked(r)
            /\ UNCHANGED <<cmd, attempt, nextId, db, post>>
       ELSE Rollback(r, retryable)

\* Any statement, the Begin and the Commit may fail.
StatementError(r, retryable) ==
    /\ pc[r] \in InTx
    /\ Rollback(r, retryable)

\* Postgres picks r as the victim of a wait cycle: 40P01.
DeadlockVictim(r) ==
    /\ Deadlocked(r)
    /\ Rollback(r, TRUE)

\* Mutant: the loop does not return after the attempt that succeeded.
RetryAfterSuccess(r) ==
    /\ pc[r] \in {"backoff", "publish"}
    /\ attempt[r] < MaxAttempts - 1
    /\ attempt' = [attempt EXCEPT ![r] = @ + 1]
    /\ Goto(r, "begin")
    /\ UNCHANGED <<cmd, tx, lock, nextId, db, post>>

\* sleepBeforeRetry: the timer fires and the next attempt starts.
RetryAfterBackoff(r) ==
    /\ pc[r] = "backoff"
    /\ attempt' = [attempt EXCEPT ![r] = @ + 1]
    /\ Goto(r, "begin")
    /\ UNCHANGED <<cmd, tx, lock, nextId, db, post>>

\* sleepBeforeRetry: ctx.Done wins and its error is returned.
CancelInBackoff(r) ==
    /\ pc[r] = "backoff"
    /\ Goto(r, "error")
    /\ UNCHANGED <<cmd, attempt, tx, lock, nextId, db, post>>
-----------------------------------------------------------------------------
\* lockLifecycleTransition: SELECT .. FOR UPDATE, then the from-set check.
GuardHolds(r) ==
    \A w \in cmd[r].targets : rows[w].live /\ rows[w].state \in cmd[r].froms

LockLifecycleTransition(r) ==
    /\ pc[r] = "guard"
    /\ Wanted(r) = {}
    /\ IF GuardHolds(r)
       THEN /\ Goto(r, "effect")
            /\ UNCHANGED <<cmd, attempt, tx, lock, nextId, db, post>>
       ELSE Rollback(r, FALSE)   \* 404, or LifecycleStateMismatchError

(***************************************************************************)
(* applyCreates, applyUpdates, applyDeletes, applyReorder,                 *)
(* selectByEffectWhere.  A row that is missing (or, for an INSERT, one     *)
(* that exists) fails the command; a reorder passes over missing rows.     *)
(***************************************************************************)
EffectMatches(r) ==
    \/ cmd[r].effect = "reorder"
    \/ \A w \in cmd[r].targets : rows[w].live <=> cmd[r].effect # "creates"

\* The rows the statement writes: all it locked, none for the no-op SELECT.
Written(r) ==
    CASE cmd[r].effect = "noop"    -> {}
      [] cmd[r].effect = "reorder" -> {w \in cmd[r].targets : rows[w].live}
      [] OTHER                     -> cmd[r].targets

NewImage(r, w) ==
    CASE cmd[r].effect = "creates" ->
            [live |-> TRUE, state |-> InitState, by |-> r]
      [] cmd[r].effect = "deletes" -> [rows[w] EXCEPT !.live = FALSE, !.by = r]
      [] cmd[r].effect = "noop"    -> rows[w]
      [] OTHER                     -> [rows[w] EXCEPT !.by = r]

\* RETURNING *: the row as this statement leaves it.
Returned(r) ==
    IF cmd[r].effect = "reorder" THEN ZeroRow
    ELSE NewImage(r, CHOOSE w \in cmd[r].targets : TRUE)

ApplyEffect(r) ==
    /\ pc[r] = "effect"
    /\ Wanted(r) = {}
    /\ IF EffectMatches(r)
       THEN /\ Goto(r, AfterEffect(cmd[r]))
            /\ tx' = [tx EXCEPT
                        ![r].dirty = Written(r),
                        ![r].image = [w \in Rows |-> IF w \in Written(r)
                                                     THEN NewImage(r, w)
                                                     ELSE rows[w]],
                        ![r].out   = Returned(r)]
            /\ UNCHANGED <<cmd, attempt, lock, nextId, db, post>>
       ELSE Rollback(r, FALSE)

\* advanceLifecycleTransition: the UPDATE of the lifecycle column alone.
AdvanceLifecycleTransition(r) ==
    /\ pc[r] = "advance"
    /\ Goto(r, AfterAdvance(cmd[r]))
    /\ tx' = [tx EXCEPT
                ![r].dirty = @ \cup cmd[r].targets,
                ![r].image = [w \in Rows |-> IF w \in cmd[r].targets
                                             THEN [tx[r].image[w] EXCEPT
                                                      !.state = cmd[r].to]
                                             ELSE tx[r].image[w]]]
    /\ UNCHANGED <<cmd, attempt, lock, nextId, db, post>>

\* Mutant: the outbox INSERT goes to the pool instead of the transaction.
WriteOutboxRowOutsideTx(r) ==
    /\ pc[r] = "outbox"
    /\ LET k == tx[r].n + 1 IN
       /\ tx' = [tx EXCEPT ![r].n = k]
       /\ outbox' = outbox \cup {[id |-> nextId, req |-> r, emit |-> k,
                                  payload |-> tx[r].out]}
       /\ Goto(r, IF k < cmd[r].guaranteed THEN "outbox" ELSE AfterOutbox(cmd[r]))
    /\ nextId' = nextId + 1
    /\ UNCHANGED <<cmd, attempt, lock, rows, audit, oplog, commits, post>>

\* Mutant: the id is one more than the number of rows the statement sees.
WriteOutboxRowCountedId(r) ==
    /\ pc[r] = "outbox"
    /\ LET k == tx[r].n + 1
           seen == Cardinality(outbox \cup tx[r].inserted) IN
       /\ tx' = [tx EXCEPT
                   ![r].n = k,
                   ![r].inserted = @ \cup {[id |-> seen + 1, req |-> r, emit |-> k,
                                            payload |-> tx[r].out]}]
       /\ Goto(r, IF k < cmd[r].guaranteed THEN "outbox" ELSE AfterOutbox(cmd[r]))
    /\ UNCHANGED <<cmd, attempt, lock, nextId, db, post>>

(***************************************************************************)
(* writeGuaranteedOutboxRows, one INSERT per guaranteed emit in the order  *)
(* of declaration.  The id comes from a sequence, which no rollback winds  *)
(* back; the payload is the row the effect returned.                       *)
(***************************************************************************)
WriteOutboxRow(r) ==
    /\ pc[r] = "outbox"
    /\ LET k == tx[r].n + 1 IN
       /\ tx' = [tx EXCEPT
                   ![r].n = k,
                   ![r].inserted = @ \cup {[id |-> nextId, req |-> r, emit |-> k,
                                            payload |-> tx[r].out]}]
       /\ Goto(r, IF k < cmd[r].guaranteed THEN "outbox" ELSE AfterOutbox(cmd[r]))
    /\ nextId' = nextId + 1
    /\ UNCHANGED <<cmd, attempt, lock, db, post>>

WriteAuditRow(r) ==
    /\ pc[r] = "audit"
    /\ tx' = [tx EXCEPT ![r].audit = 1]
    /\ Goto(r, AfterAudit(cmd[r]))
    /\ UNCHANGED <<cmd, attempt, lock, nextId, db, post>>

WriteAuditMaterializeRow(r) ==
    /\ pc[r] = "materialize"
    /\ tx' = [tx EXCEPT ![r].oplog = 1]
    /\ Goto(r, AfterMaterialize(cmd[r]))
    /\ UNCHANGED <<cmd, attempt, lock, nextId, db, post>>

(***************************************************************************)
(* The server makes the transaction durable.  Its answer reaches withTx    *)
(* ("publish" comes next), or the connection breaks and tx.Commit returns  *)
(* an error that is not retryable: the command fails though it committed.  *)
(***************************************************************************)
Commit(r, answer) ==
    /\ pc[r] = "commit"
    /\ rows' = [w \in Rows |-> IF w \in tx[r].dirty THEN tx[r].image[w] ELSE rows[w]]
    /\ outbox' = outbox \cup tx[r].inserted
    /\ audit' = [audit EXCEPT ![r] = @ + tx[r].audit]
    /\ oplog' = [oplog EXCEPT ![r] = @ + tx[r].oplog]
    /\ commits' = [commits EXCEPT ![r] = @ + 1]
    /\ Goto(r, answer)
    /\ tx' = [tx EXCEPT ![r] = EmptyTx]
    /\ lock' = Unlocked(r)
    /\ UNCHANGED <<cmd, attempt, nextId, post>>

(***************************************************************************)
(* publishEmits: guaranteed emits are skipped, an emit whose payload       *)
(* cannot be built is skipped silently, the others go to the event bus.    *)
(***************************************************************************)
PublishEmits(r) ==
    /\ pc[r] = "publish"
    /\ published' \in {published} \cup
                      (IF cmd[r].bestEffort THEN {published \cup {r}} ELSE {})
    /\ Goto(r, AfterPublish(cmd[r]))
    /\ UNCHANGED <<cmd, attempt, tx, lock, nextId, db, invalidated>>

InvalidateQueries(r) ==
    /\ pc[r] = "invalidate"
    /\ invalidated' = invalidated \cup {r}
    /\ Goto(r, "ok")
    /\ UNCHANGED <<cmd, attempt, tx, lock, nextId, db, published>>

(***************************************************************************)
(* The process that serves r dies.  Postgres rolls the transaction back.   *)
(***************************************************************************)
Crash(r) ==
    /\ pc[r] \notin Terminal
    /\ Goto(r, "crashed")
    /\ tx' = [tx EXCEPT ![r] = EmptyTx]
    /\ lock' = Unlocked(r)
    /\ UNCHANGED <<cmd, attempt, nextId, db, post>>
-----------------------------------------------------------------------------
\* The steps a running process and a running database always take.
Step(r) ==
    \/ Admit(r) \/ ApplyReturns(r) \/ Begin(r)
    \/ \E w \in Rows : LockRow(r, w)
    \/ LockLifecycleTransition(r) \/ ApplyEffect(r)
    \/ AdvanceLifecycleTransition(r) \/ WriteOutboxRow(r)
    \/ WriteAuditRow(r) \/ WriteAuditMaterializeRow(r)
    \/ Commit(r, "publish")
    \/ PublishEmits(r) \/ InvalidateQueries(r)
    \/ RetryAfterBackoff(r)
    \/ DeadlockVictim(r)

\* What may go wrong at any time.
Failure(r) ==
    \/ Reject(r)
    \/ \E retryable \in BOOLEAN : StatementError(r, retryable)
    \/ Commit(r, "error")
    \/ CancelInBackoff(r)
    \/ Crash(r)

\* Every request has been answered; nothing is left to do.
Quiescent == (\A r \in Requests : pc[r] \in Terminal) /\ UNCHANGED vars

Next == Quiescent \/ \E r \in Requests : Step(r) \/ Failure(r)

Spec == Init /\ [][Next]_vars

\* The Go scheduler and Postgres keep running every request that can proceed.
FairSpec == Spec /\ \A r \in Requests : WF_vars(Step(r))
-----------------------------------------------------------------------------
TypeOK ==
    /\ cmd \in [Requests -> Commands]
    /\ pc \in [Requests -> PCs]
    /\ attempt \in [Requests -> 0..(MaxAttempts - 1)]
    /\ tx \in [Requests -> Tx]
    /\ lock \in [Rows -> Requests \cup {NoRequest}]
    /\ rows \in [Rows -> RowVal]
    /\ nextId \in Nat
    /\ outbox \subseteq OutboxRow
    /\ audit \in [Requests -> Nat]
    /\ oplog \in [Requests -> Nat]
    /\ published \subseteq Requests
    /\ invalidated \subseteq Requests
    /\ commits \in [Requests -> Nat]

OutboxOf(r) == {x \in outbox : x.req = r}

(***************************************************************************)
(* The effect of a request is applied at most once, however often withTx   *)
(* retries and even when the answer to the COMMIT is lost.                 *)
(***************************************************************************)
AtMostOneCommit == \A r \in Requests : commits[r] <= 1

(***************************************************************************)
(* "The resource row and the outbox row commit together - or roll back     *)
(* together" (writeGuaranteedOutboxRows): a committed command has exactly  *)
(* one outbox row per guaranteed emit, one that did not commit has none,   *)
(* whatever attempts were rolled back on the way.                          *)
(***************************************************************************)
OutboxAtomic ==
    \A r \in Requests :
        /\ {x.emit : x \in OutboxOf(r)} =
              (IF commits[r] = 0 THEN {} ELSE 1..cmd[r].guaranteed)
        /\ \A x, y \in OutboxOf(r) : x.emit = y.emit => x = y

(***************************************************************************)
(* The audit trail is transactional with the effect: an audited command    *)
(* that commits leaves exactly one audit_log row (and one OperationLog row *)
(* when it materializes), one that does not commit leaves none.            *)
(***************************************************************************)
AuditAtomic ==
    \A r \in Requests :
        /\ audit[r] = IF cmd[r].audit THEN commits[r] ELSE 0
        /\ oplog[r] = IF cmd[r].audit /\ cmd[r].materialize THEN commits[r] ELSE 0

(***************************************************************************)
(* The pump reads ORDER BY id: the ids of one command's guaranteed emits   *)
(* follow the order of declaration, and no two rows share an id.           *)
(***************************************************************************)
OutboxIdsOrdered ==
    \A x, y \in outbox :
        /\ x.id = y.id => x = y
        /\ x.req = y.req /\ x.emit < y.emit => x.id < y.id

(***************************************************************************)
(* No lifecycle edge is skipped or taken from a stale state: the committed *)
(* lifecycle state of a live row changes only by a command that commits in *)
(* this very step, from a state of that command's from-set to its To, no   *)
(* matter which other commands ran between its guard and its commit.       *)
(***************************************************************************)
LifecycleStep ==
    \A w \in Rows :
        rows[w].live /\ rows'[w].live /\ rows[w].state # rows'[w].state =>
            \E r \in Requests :
                /\ commits'[r] = commits[r] + 1
                /\ w \in cmd[r].targets
                /\ cmd[r].transition
                /\ rows[w].state \in cmd[r].froms
                /\ rows'[w].state = cmd[r].to

LifecycleFollowsEdges == [][LifecycleStep]_vars

(***************************************************************************)
(* A best-effort event is heard and a cache is invalidated only for work   *)
(* that is durable, and a client is told "ok" only then.                   *)
(***************************************************************************)
ReactionsFollowCommit ==
    \A r \in Requests :
        r \in published \/ r \in invalidated \/ pc[r] = "ok" =>
            commits[r] = 1 \/ cmd[r].effect = "returns"

(***************************************************************************)
(* A lost update between concurrent writers of a row: what a transaction   *)
(* will write over a row was computed from that row's committed value.     *)
(* (UPDATE reads under the row lock, and the lock is held to the end.)     *)
(***************************************************************************)
NoLostUpdate ==
    \A r \in Requests : \A w \in tx[r].dirty :
        /\ lock[w] = r
        /\ tx[r].image[w] \in
              {NewImage(r, w), [NewImage(r, w) EXCEPT !.state = cmd[r].to]}

(***************************************************************************)
(* Every request is answered (or its process dies): no lock wait, deadlock *)
(* or retry loop holds it for ever.                                        *)
(***************************************************************************)
EveryRequestEnds == \A r \in Requests : <>(pc[r] \in Terminal)

(***************************************************************************)
(* handle.go on buildEmitPayload: "subscribers see the exact persisted     *)
(* state": the payload of a derived guaranteed emit is the row its         *)
(* transaction writes.                                                     *)
(***************************************************************************)
PayloadIsPersistedRow ==
    \A r \in Requests :
        pc[r] = "commit" /\ cmd[r].effect \in {"creates", "updates", "deletes"} =>
            \A x \in tx[r].inserted : \A w \in tx[r].dirty :
                x.payload = tx[r].image[w]

(***************************************************************************)
(* event.go on OutboxGuaranteed: "the runtime writes a lazuli_outbox row"  *)
(* and skips the post-commit Publish: a command answered ok has an outbox  *)
(* row for each of its guaranteed emits.                                   *)
(***************************************************************************)
GuaranteedEmitsWritten ==
    \A r \in Requests :
        pc[r] = "ok" => {x.emit : x \in OutboxOf(r)} = 1..cmd[r].guaranteed
=============================================================================
