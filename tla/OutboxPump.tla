----------------------------- MODULE OutboxPump -----------------------------
(***************************************************************************)
(* Delivery of guaranteed events: the pumps that drain lazuli_outbox       *)
(* (events/outbox.go) and the receivers that deduplicate through           *)
(* lazuli_inbox (events/inbox.go).                                         *)
(*                                                                         *)
(* Every service instance runs a pump of its own over the one table and    *)
(* takes no lock on the rows it reads, so two pumps may hold the same row. *)
(* Dispatch hands the row to a transport, a second statement marks it; the *)
(* process may die between the two.  A receiver takes one copy from the    *)
(* transport, asks AlreadySeen, runs the user's handler, calls MarkSeen    *)
(* and acknowledges the copy; the transport redelivers a copy that is not  *)
(* acknowledged.  The transport (River) and the handler are external.      *)
(***************************************************************************)
EXTENDS Naturals, FiniteSets

CONSTANTS
    Pumps,      \* running StartPump goroutines, of all instances
    Receivers,  \* subscriber workers
    MaxId,      \* lazuli_outbox.id ranges over 1..MaxId
    Poison,     \* rows whose Dispatch always fails
    Limit,      \* PumpOnce's limit, 100 in StartPump
    MaxFaults   \* bound on the failures that leave a duplicate behind

Ids == 1..MaxId

ASSUME OutboxPumpAssumption ==
    /\ IsFiniteSet(Pumps)
    /\ IsFiniteSet(Receivers)
    /\ MaxId \in Nat
    /\ Poison \subseteq Ids
    /\ Limit \in Nat \ {0}
    /\ MaxFaults \in Nat

VARIABLES
    committed,  \* rows of lazuli_outbox whose INSERT has committed
    dispatched, \* rows with dispatched_at set
    pump,       \* where each pump is in PumpOnce
    batch,      \* rows of its batch a pump has not come to yet
    current,    \* the row a pump is at (0: none)
    transport,  \* copies of each event the transport holds
    sent,       \* how often each event was handed to the transport
    faults,     \* how often a failure left a sent event unmarked
    worker,     \* where each receiver is
    message,    \* the copy a receiver works on (0: none)
    inbox,      \* rows of lazuli_inbox
    handled,    \* successful runs of the user's handler, per event
    lostMarks   \* runs whose MarkSeen never happened, per event

pumpVars     == <<dispatched, pump, batch, current, sent, faults>>
receiverVars == <<worker, message, inbox, handled, lostMarks>>
vars == <<committed, transport, pumpVars, receiverVars>>

Init ==
    /\ committed = {}
    /\ dispatched = {}
    /\ pump = [p \in Pumps |-> "idle"]
    /\ batch = [p \in Pumps |-> {}]
    /\ current = [p \in Pumps |-> 0]
    /\ transport = [i \in Ids |-> 0]
    /\ sent = [i \in Ids |-> 0]
    /\ faults = [i \in Ids |-> 0]
    /\ worker = [v \in Receivers |-> "idle"]
    /\ message = [v \in Receivers |-> 0]
    /\ inbox = {}
    /\ handled = [i \in Ids |-> 0]
    /\ lostMarks = [i \in Ids |-> 0]

(***************************************************************************)
(* A command's transaction commits with its outbox rows.  Ids are drawn    *)
(* from a sequence before the commit, so rows appear in any order.         *)
(***************************************************************************)
CommitRows(S) ==
    /\ S # {}
    /\ S \cap committed = {}
    /\ committed' = committed \cup S
    /\ UNCHANGED <<transport, pumpVars, receiverVars>>
-----------------------------------------------------------------------------
Undispatched == committed \ dispatched

\* Mutant: a cursor (id > the last one dispatched) instead of dispatched_at.
SelectedAfterCursor == {i \in Undispatched : \A j \in dispatched : j < i}

\* Mutant: no LIMIT.
SelectedUnlimited == Undispatched

\* WHERE dispatched_at IS NULL ORDER BY id LIMIT $1
Selected == {i \in Undispatched : Cardinality({j \in Undispatched : j < i}) < Limit}

\* The tick of StartPump and the SELECT of PumpOnce.
SelectBatch(p) ==
    /\ pump[p] = "idle"
    /\ pump' = [pump EXCEPT ![p] = "next"]
    /\ batch' = [batch EXCEPT ![p] = Selected]
    /\ UNCHANGED <<committed, dispatched, current, transport, sent, faults, receiverVars>>

\* The loop over the batch, in the order of the SELECT.
NextRow(p) ==
    /\ pump[p] = "next"
    /\ \E i \in batch[p] :
          /\ \A j \in batch[p] : i <= j
          /\ current' = [current EXCEPT ![p] = i]
          /\ batch' = [batch EXCEPT ![p] = @ \ {i}]
    /\ pump' = [pump EXCEPT ![p] = "dispatch"]
    /\ UNCHANGED <<committed, dispatched, transport, sent, faults, receiverVars>>

EndOfPass(p) ==
    /\ pump[p] = "next"
    /\ batch[p] = {}
    /\ pump' = [pump EXCEPT ![p] = "idle"]
    /\ UNCHANGED <<committed, dispatched, batch, current, transport, sent, faults, receiverVars>>

Hand(i) ==
    /\ transport' = [transport EXCEPT ![i] = @ + 1]
    /\ sent' = [sent EXCEPT ![i] = @ + 1]

\* Mutant: the call is sent again within the pass until the UPDATE succeeds.
DispatchInLoop(p) ==
    /\ pump[p] \in {"dispatch", "mark"}
    /\ current[p] \notin Poison
    /\ sent[current[p]] <= Cardinality(Pumps) + MaxFaults
    /\ Hand(current[p])
    /\ pump' = [pump EXCEPT ![p] = "mark"]
    /\ UNCHANGED <<committed, dispatched, batch, current, faults, receiverVars>>

\* Dispatch returns nil: the event is in the transport.
Dispatch(p) ==
    /\ pump[p] = "dispatch"
    /\ current[p] \notin Poison
    /\ Hand(current[p])
    /\ pump' = [pump EXCEPT ![p] = "mark"]
    /\ UNCHANGED <<committed, dispatched, batch, current, faults, receiverVars>>

\* Mutant: no `continue` after a failed Dispatch.
DispatchErrorMarked(p) ==
    /\ pump[p] = "dispatch"
    /\ pump' = [pump EXCEPT ![p] = "mark"]
    /\ UNCHANGED <<committed, dispatched, batch, current, transport, sent, faults, receiverVars>>

\* Dispatch returns an error: continue with the next row.
DispatchError(p) ==
    /\ pump[p] = "dispatch"
    /\ pump' = [pump EXCEPT ![p] = "next"]
    /\ current' = [current EXCEPT ![p] = 0]
    /\ UNCHANGED <<committed, dispatched, batch, transport, sent, faults, receiverVars>>

Fault(i) ==
    /\ faults[i] < MaxFaults
    /\ faults' = [faults EXCEPT ![i] = @ + 1]

\* Dispatch returns an error after the transport has taken the event.
DispatchErrorAfterSend(p) ==
    /\ pump[p] = "dispatch"
    /\ current[p] \notin Poison
    /\ Hand(current[p])
    /\ Fault(current[p])
    /\ pump' = [pump EXCEPT ![p] = "next"]
    /\ current' = [current EXCEPT ![p] = 0]
    /\ UNCHANGED <<committed, dispatched, batch, receiverVars>>

\* UPDATE lazuli_outbox SET dispatched_at = now()
MarkDispatched(p) ==
    /\ pump[p] = "mark"
    /\ dispatched' = dispatched \cup {current[p]}
    /\ pump' = [pump EXCEPT ![p] = "next"]
    /\ current' = [current EXCEPT ![p] = 0]
    /\ UNCHANGED <<committed, batch, transport, sent, faults, receiverVars>>

\* The UPDATE fails: PumpOnce returns and drops the rest of its batch.
MarkError(p) ==
    /\ pump[p] = "mark"
    /\ Fault(current[p])
    /\ pump' = [pump EXCEPT ![p] = "idle"]
    /\ batch' = [batch EXCEPT ![p] = {}]
    /\ current' = [current EXCEPT ![p] = 0]
    /\ UNCHANGED <<committed, dispatched, transport, sent, receiverVars>>

\* The instance dies (or pumpCtx is cancelled) and starts again.
PumpCrash(p) ==
    /\ pump[p] # "idle"
    /\ IF pump[p] = "mark" THEN Fault(current[p]) ELSE UNCHANGED faults
    /\ pump' = [pump EXCEPT ![p] = "idle"]
    /\ batch' = [batch EXCEPT ![p] = {}]
    /\ current' = [current EXCEPT ![p] = 0]
    /\ UNCHANGED <<committed, dispatched, transport, sent, receiverVars>>
-----------------------------------------------------------------------------
Done(v) ==
    /\ worker' = [worker EXCEPT ![v] = "idle"]
    /\ message' = [message EXCEPT ![v] = 0]

\* The transport leases a copy to a receiver.
Receive(v, i) ==
    /\ worker[v] = "idle"
    /\ transport[i] > 0
    /\ transport' = [transport EXCEPT ![i] = @ - 1]
    /\ worker' = [worker EXCEPT ![v] = "check"]
    /\ message' = [message EXCEPT ![v] = i]
    /\ UNCHANGED <<committed, pumpVars, inbox, handled, lostMarks>>

\* Mutant: the answer of the EXISTS query is not looked at.
AlreadySeenIgnored(v) ==
    /\ worker[v] = "check"
    /\ worker' = [worker EXCEPT ![v] = "handle"]
    /\ UNCHANGED <<committed, transport, pumpVars, message, inbox, handled, lostMarks>>

AlreadySeen(v) ==
    /\ worker[v] = "check"
    /\ IF message[v] \in inbox
       THEN Done(v)
       ELSE /\ worker' = [worker EXCEPT ![v] = "handle"]
            /\ UNCHANGED message
    /\ UNCHANGED <<committed, transport, pumpVars, inbox, handled, lostMarks>>

RunHandler(v) ==
    /\ worker[v] = "handle"
    /\ handled' = [handled EXCEPT ![message[v]] = @ + 1]
    /\ worker' = [worker EXCEPT ![v] = "mark"]
    /\ UNCHANGED <<committed, transport, pumpVars, message, inbox, lostMarks>>

MarkSeen(v) ==
    /\ worker[v] = "mark"
    /\ inbox' = inbox \cup {message[v]}
    /\ Done(v)
    /\ UNCHANGED <<committed, transport, pumpVars, handled, lostMarks>>

(***************************************************************************)
(* A statement or the handler returns an error, or the worker dies: the    *)
(* copy is not acknowledged and the transport will deliver it again.       *)
(***************************************************************************)
ReceiverFails(v) ==
    /\ worker[v] # "idle"
    /\ Done(v)
    /\ transport' = [transport EXCEPT ![message[v]] = @ + 1]
    /\ IF worker[v] = "mark"
       THEN /\ lostMarks[message[v]] < MaxFaults
            /\ lostMarks' = [lostMarks EXCEPT ![message[v]] = @ + 1]
       ELSE UNCHANGED lostMarks
    /\ UNCHANGED <<committed, pumpVars, inbox, handled>>
-----------------------------------------------------------------------------
PumpStep(p) == SelectBatch(p) \/ NextRow(p) \/ EndOfPass(p) \/ MarkDispatched(p)

\* Dispatch succeeds or, for a poisoned row, reports its error.
Attempt(p) == Dispatch(p) \/ (current[p] \in Poison /\ DispatchError(p))

PumpFailure(p) == DispatchError(p) \/ DispatchErrorAfterSend(p) \/ MarkError(p) \/ PumpCrash(p)

ReceiverStep(v) ==
    (\E i \in Ids : Receive(v, i)) \/ AlreadySeen(v) \/ RunHandler(v) \/ MarkSeen(v)

Next ==
    \/ \E S \in SUBSET Ids : CommitRows(S)
    \/ \E p \in Pumps : PumpStep(p) \/ Attempt(p) \/ PumpFailure(p)
    \/ \E v \in Receivers : ReceiverStep(v) \/ ReceiverFails(v)

Spec == Init /\ [][Next]_vars

(***************************************************************************)
(* For liveness: pumps and receivers keep running, and from some moment on *)
(* nothing but the poisoned rows fails.  Both are assumptions on the       *)
(* environment (database, transport, handler), not on the code.            *)
(***************************************************************************)
Healthy ==
    \/ \E S \in SUBSET Ids : CommitRows(S)
    \/ \E p \in Pumps : PumpStep(p) \/ Attempt(p)
    \/ \E v \in Receivers : ReceiverStep(v)

FairSpec ==
    /\ Spec
    /\ <>[][Healthy]_vars
    /\ \A p \in Pumps : WF_vars(PumpStep(p) \/ Attempt(p))
    /\ \A v \in Receivers : WF_vars(ReceiverStep(v))
-----------------------------------------------------------------------------
\* A set of ids has no more than Limit elements: fewer than Limit precede any of them.
AtMostLimit(S) == \A i \in S : Cardinality({j \in S : j < i}) < Limit

TypeOK ==
    /\ committed \subseteq Ids
    /\ dispatched \subseteq Ids
    /\ pump \in [Pumps -> {"idle", "next", "dispatch", "mark"}]
    /\ batch \in [Pumps -> SUBSET Ids]
    /\ \A p \in Pumps : AtMostLimit(batch[p])
    /\ current \in [Pumps -> Ids \cup {0}]
    /\ \A p \in Pumps : current[p] = 0 <=> pump[p] \in {"idle", "next"}
    /\ transport \in [Ids -> Nat]
    /\ sent \in [Ids -> Nat]
    /\ faults \in [Ids -> 0..MaxFaults]
    /\ worker \in [Receivers -> {"idle", "check", "handle", "mark"}]
    /\ message \in [Receivers -> Ids \cup {0}]
    /\ \A v \in Receivers : message[v] = 0 <=> worker[v] = "idle"
    /\ inbox \subseteq Ids
    /\ handled \in [Ids -> Nat]
    /\ lostMarks \in [Ids -> 0..MaxFaults]

\* A copy of the event exists, or its handler has run to completion.
Survives(i) ==
    \/ transport[i] > 0
    \/ \E v \in Receivers : message[v] = i
    \/ i \in inbox

(***************************************************************************)
(* A row is marked dispatched only when its event can no longer get lost:  *)
(* wherever pumps and receivers die, a copy is in the transport or with a  *)
(* receiver, or the handler has run; and a receiver drops a copy only when *)
(* the handler has run.                                                    *)
(***************************************************************************)
NoEventLost ==
    /\ \A i \in dispatched : Survives(i)
    /\ \A i \in inbox : handled[i] > 0

(***************************************************************************)
(* Pumps share the table without locks, so duplicates are possible but     *)
(* limited: at most one per pump, plus one per failure between the send    *)
(* and the mark.                                                           *)
(***************************************************************************)
DuplicatesBounded ==
    \A i \in Ids : sent[i] <= Cardinality(Pumps) + faults[i]

(***************************************************************************)
(* The inbox limits the runs of the handler for one event to one per       *)
(* receiver, plus one per MarkSeen that never happened, however many       *)
(* copies the pumps sent.                                                  *)
(***************************************************************************)
HandledBounded ==
    \A i \in Ids : handled[i] <= Cardinality(Receivers) + lostMarks[i]

(***************************************************************************)
(* "A repeat dispatch (after a crashed pump or replayed outbox row) is a   *)
(* no-op" (inbox.go): however many copies are sent, the handler runs once. *)
(***************************************************************************)
RepeatIsNoOp == \A i \in Ids : handled[i] <= 1

(***************************************************************************)
(* Every committed event whose dispatch is possible is handled in the end, *)
(* also when it commits after rows with higher ids were dispatched and     *)
(* though failing rows keep being selected first (fewer than Limit).       *)
(***************************************************************************)
EveryEventHandled ==
    \A i \in Ids \ Poison : i \in committed ~> handled[i] > 0
=============================================================================
