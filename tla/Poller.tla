------------------------------- MODULE Poller -------------------------------
(***************************************************************************)
(* The pollers of the Go runtime (poller/dispatcher.go, poller/handle.go): *)
(* a loop per registered poller and instance selects the rows that are     *)
(* due, and resolves one after the other: load, apply the quirk, call the  *)
(* author's handler, commit the outcome, publish the events.               *)
(*                                                                         *)
(* The loops of several instances work on one table without locks.  Every  *)
(* commit is an UPDATE conditional on (id, attempts), the values the loop  *)
(* loaded.  The UPDATEs are those of the QueryRunner contract: a terminal  *)
(* commit sets resolved_at and the status and leaves attempts alone, a     *)
(* pending one increments attempts and postpones the row, and neither      *)
(* looks at resolved_at.                                                   *)
(***************************************************************************)
EXTENDS Integers, FiniteSets

CONSTANTS
    Pollers,      \* running loops, one per instance
    RowIds,       \* rows of the source table
    Quirky,       \* rows on which the quirk's predicate may hold
    Statuses,     \* terminal statuses a handler may report
    NoStatus,     \* the status column before resolution
    MaxCount      \* bound on the attempts counter

ASSUME PollerAssumption ==
    /\ IsFiniteSet(Pollers)
    /\ RowIds # {}
    /\ Quirky \subseteq RowIds
    /\ NoStatus \notin Statuses
    /\ MaxCount \in Nat

VARIABLES
    attempts,  \* attempts column
    resolved,  \* rows with resolved_at set
    status,    \* terminal status column
    waiting,   \* rows whose next_at lies in the future
    pc,        \* where each loop is
    batch,     \* ids a loop still has to resolve
    current,   \* the row a loop is at
    seen,      \* attempts of that row as it was loaded
    outcome,   \* terminal status the handler reported, or NoStatus
    failures,  \* handler calls that ended in an error, a pending or an empty result
    published  \* how often the terminal events of each row were published

rowVars  == <<attempts, resolved, status, waiting>>
loopVars == <<pc, batch, current, seen, outcome>>
vars == <<rowVars, loopVars, failures, published>>

Init ==
    /\ attempts = [i \in RowIds |-> 0]
    /\ resolved = {}
    /\ status = [i \in RowIds |-> NoStatus]
    /\ waiting = {}
    /\ pc = [p \in Pollers |-> "idle"]
    /\ batch = [p \in Pollers |-> {}]
    /\ current = [p \in Pollers |-> CHOOSE i \in RowIds : TRUE]
    /\ seen = [p \in Pollers |-> 0]
    /\ outcome = [p \in Pollers |-> NoStatus]
    /\ failures = [i \in RowIds |-> 0]
    /\ published = [i \in RowIds |-> 0]

Goto(p, label) == pc' = [pc EXCEPT ![p] = label]

\* next_at passes.
Elapse(i) ==
    /\ i \in waiting
    /\ waiting' = waiting \ {i}
    /\ UNCHANGED <<attempts, resolved, status, loopVars, failures, published>>
-----------------------------------------------------------------------------
\* Mutant: a row whose first attempt failed is not selected again.
EligibleFirstOnly == {i \in (RowIds \ waiting) \ resolved : attempts[i] = 0}

\* WHERE next_at <= NOW() AND resolved_at IS NULL
Eligible == (RowIds \ waiting) \ resolved

\* A tick of runOne: SelectEligibleIDs, in no particular order, up to the batch size.
SelectEligible(p) ==
    /\ pc[p] = "idle"
    /\ \E S \in (SUBSET Eligible) \ {{}} : batch' = [batch EXCEPT ![p] = S]
    /\ Goto(p, "next")
    /\ UNCHANGED <<rowVars, current, seen, outcome, failures, published>>

NextId(p) ==
    /\ pc[p] = "next"
    /\ \E i \in batch[p] :
          /\ current' = [current EXCEPT ![p] = i]
          /\ batch' = [batch EXCEPT ![p] = @ \ {i}]
    /\ Goto(p, "load")
    /\ UNCHANGED <<rowVars, seen, outcome, failures, published>>

EndOfBatch(p) ==
    /\ pc[p] = "next"
    /\ batch[p] = {}
    /\ Goto(p, "idle")
    /\ UNCHANGED <<rowVars, batch, current, seen, outcome, failures, published>>

(***************************************************************************)
(* What EvalPredicate may say of the row that was loaded.  It compares one *)
(* column with a literal; the flip need not change that column, so it may  *)
(* hold again, and the handlers and other writers may change it.           *)
(***************************************************************************)
QuirkMatches(i) == IF i \in Quirky THEN BOOLEAN ELSE {FALSE}

LoadRow(p) ==
    /\ pc[p] = "load"
    /\ seen' = [seen EXCEPT ![p] = attempts[current[p]]]
    /\ \E matches \in QuirkMatches(current[p]) : Goto(p, IF matches THEN "quirk" ELSE "resolve")
    /\ UNCHANGED <<rowVars, batch, current, outcome, failures, published>>

(***************************************************************************)
(* db.ApplyQuirk flips the gender column or does nothing, in either case   *)
(* without touching the cursor columns; its count and error are dropped.   *)
(***************************************************************************)
ApplyQuirk(p) ==
    /\ pc[p] = "quirk"
    /\ Goto(p, "reload")
    /\ UNCHANGED <<rowVars, batch, current, seen, outcome, failures, published>>

\* The second LoadRow; when it fails the first row is kept.
Reload(p) ==
    /\ pc[p] = "reload"
    /\ \E n \in {seen[p], attempts[current[p]]} : seen' = [seen EXCEPT ![p] = n]
    /\ Goto(p, "resolve")
    /\ UNCHANGED <<rowVars, batch, current, outcome, failures, published>>
-----------------------------------------------------------------------------
Unfinished(p) ==
    /\ pc[p] = "resolve"
    /\ failures' = [failures EXCEPT ![current[p]] = @ + 1]
    /\ failures[current[p]] < MaxCount
    /\ UNCHANGED <<rowVars, batch, current, seen, outcome, published>>

\* The handler returns a pending result or an error: CommitPending follows.
ResolvePending(p) == Unfinished(p) /\ Goto(p, "pending")

\* The handler returns neither: ErrResolveResultEmpty, and no commit.
ResolveEmpty(p) == Unfinished(p) /\ Goto(p, "next")

ResolveTerminal(p) ==
    /\ pc[p] = "resolve"
    /\ \E s \in Statuses : outcome' = [outcome EXCEPT ![p] = s]
    /\ Goto(p, "terminal")
    /\ UNCHANGED <<rowVars, batch, current, seen, failures, published>>

\* CommitPending; the next check may already be due (NextCheckAt in the past).
CommitPending(p) ==
    LET i == current[p] IN
    /\ pc[p] = "pending"
    /\ IF attempts[i] = seen[p]
       THEN /\ attempts' = [attempts EXCEPT ![i] = @ + 1]
            /\ waiting' \in {waiting, waiting \cup {i}}
       ELSE UNCHANGED <<attempts, waiting>>
    /\ Goto(p, "next")
    /\ UNCHANGED <<resolved, status, batch, current, seen, outcome, failures, published>>

\* Mutant: the names of the status and the result column are swapped.
CommitTerminalSwapped(p) ==
    /\ pc[p] = "terminal"
    /\ resolved' = IF attempts[current[p]] = seen[p] THEN resolved \cup {current[p]} ELSE resolved
    /\ Goto(p, "publish")
    /\ UNCHANGED <<attempts, status, waiting, batch, current, seen, outcome, failures, published>>

\* CommitTerminal; the number of affected rows is not looked at.
CommitTerminal(p) ==
    LET i == current[p] IN
    /\ pc[p] = "terminal"
    /\ IF attempts[i] = seen[p]
       THEN /\ resolved' = resolved \cup {i}
            /\ status' = [status EXCEPT ![i] = outcome[p]]
       ELSE UNCHANGED <<resolved, status>>
    /\ Goto(p, "publish")
    /\ UNCHANGED <<attempts, waiting, batch, current, seen, outcome, failures, published>>

\* bus.Publish of every declared event; its errors are dropped.
PublishTerminal(p) ==
    /\ pc[p] = "publish"
    /\ published' = [published EXCEPT ![current[p]] = @ + 1]
    /\ outcome' = [outcome EXCEPT ![p] = NoStatus]
    /\ Goto(p, "next")
    /\ UNCHANGED <<rowVars, batch, current, seen, failures>>

\* Mutant: the error of CommitTerminal is dropped like the one of Publish.
DatabaseErrorDropped(p) ==
    /\ pc[p] \in {"load", "resolve", "pending", "terminal", "publish"}
    /\ outcome' = IF pc[p] = "terminal" THEN outcome ELSE [outcome EXCEPT ![p] = NoStatus]
    /\ Goto(p, IF pc[p] = "terminal" THEN "publish" ELSE "next")
    /\ UNCHANGED <<rowVars, batch, current, seen, failures, published>>

\* LoadRow, decode or a commit fails, or the answer of a commit that took effect is
\* lost (at "publish"): on to the next row.
DatabaseError(p) ==
    /\ pc[p] \in {"load", "resolve", "pending", "terminal", "publish"}
    /\ outcome' = [outcome EXCEPT ![p] = NoStatus]
    /\ Goto(p, "next")
    /\ UNCHANGED <<rowVars, batch, current, seen, failures, published>>

\* The instance dies and starts again with nothing in memory.
Crash(p) ==
    /\ pc[p] # "idle"
    /\ batch' = [batch EXCEPT ![p] = {}]
    /\ outcome' = [outcome EXCEPT ![p] = NoStatus]
    /\ Goto(p, "idle")
    /\ UNCHANGED <<rowVars, current, seen, failures, published>>
-----------------------------------------------------------------------------
Step(p) ==
    \/ SelectEligible(p) \/ NextId(p) \/ EndOfBatch(p) \/ LoadRow(p)
    \/ ApplyQuirk(p) \/ Reload(p) \/ ResolvePending(p) \/ ResolveTerminal(p)
    \/ CommitPending(p) \/ CommitTerminal(p) \/ PublishTerminal(p)

Failure(p) == ResolveEmpty(p) \/ DatabaseError(p) \/ Crash(p)

\* A tick that finds no row due.
IdleTick(p) == pc[p] = "idle" /\ Eligible = {} /\ UNCHANGED vars

Next ==
    \/ \E i \in RowIds : Elapse(i)
    \/ \E p \in Pollers : Step(p) \/ Failure(p) \/ IdleTick(p)

Spec == Init /\ [][Next]_vars

(***************************************************************************)
(* For liveness: the loops and the clock keep running, and from some time  *)
(* on no statement fails, no instance dies and no handler returns nothing. *)
(* The handler comes to a terminal result: MaxCount bounds the calls that  *)
(* do not.                                                                 *)
(***************************************************************************)
Healthy == (\E i \in RowIds : Elapse(i)) \/ (\E p \in Pollers : Step(p))

FairSpec ==
    /\ Spec
    /\ <>[][Healthy]_vars
    /\ \A i \in RowIds : WF_vars(Elapse(i))
    /\ \A p \in Pollers : WF_vars(Step(p))
-----------------------------------------------------------------------------
TypeOK ==
    /\ attempts \in [RowIds -> Nat]
    /\ resolved \subseteq RowIds
    /\ status \in [RowIds -> Statuses \cup {NoStatus}]
    /\ \A i \in RowIds : status[i] # NoStatus <=> i \in resolved
    /\ waiting \subseteq RowIds
    /\ pc \in [Pollers -> {"idle", "next", "load", "quirk", "reload", "resolve",
                           "pending", "terminal", "publish"}]
    /\ batch \in [Pollers -> SUBSET RowIds]
    /\ current \in [Pollers -> RowIds]
    /\ seen \in [Pollers -> Nat]
    /\ outcome \in [Pollers -> Statuses \cup {NoStatus}]
    /\ \A p \in Pollers : outcome[p] # NoStatus <=> pc[p] \in {"terminal", "publish"}
    /\ failures \in [RowIds -> Nat]
    /\ published \in [RowIds -> Nat]

(***************************************************************************)
(* Emits are the events "the dispatcher publishes after a row commits a    *)
(* terminal state", and terminal states "are absorbing" (contract.go):     *)
(* what a loop is about to announce is the state its row has.              *)
(***************************************************************************)
AnnouncesCommitted ==
    \A p \in Pollers :
        pc[p] = "publish" => /\ current[p] \in resolved
                             /\ status[current[p]] = outcome[p]

(***************************************************************************)
(* What holds of the announcements though loops hold copies of one row and *)
(* no loop looks at whether its commit took effect.  A single loop         *)
(* announces a row once, and only when it is resolved.  Of several, for    *)
(* each version of the row that another loop's attempt overtook all but    *)
(* that one may announce what they did not write, and once the row is      *)
(* resolved each loop at most one copy it selected before.                 *)
(***************************************************************************)
EmitsFollowTerminal ==
    LET loops == Cardinality(Pollers) IN
    \A i \in RowIds :
        published[i] <= attempts[i] * (loops - 1) + (IF i \in resolved THEN loops ELSE 0)

(***************************************************************************)
(* Every row is resolved in the end, also after failed attempts, lost      *)
(* batches and crashes, when its handler comes to a terminal result.       *)
(***************************************************************************)
EveryRowResolved == \A i \in RowIds : <>(i \in resolved)
=============================================================================
