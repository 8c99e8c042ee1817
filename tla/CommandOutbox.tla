--------------------------- MODULE CommandOutbox ---------------------------
(***************************************************************************)
(* The whole path of a guaranteed event: commands that write outbox rows   *)
(* in their transactions (CommandTx), pumps and receivers that deliver     *)
(* them (OutboxPump).  The two share the table lazuli_outbox: the rows the *)
(* pumps may see are the ones whose transaction has committed, with ids in *)
(* the order the INSERTs drew them, not the order of the commits.          *)
(***************************************************************************)
EXTENDS CommandTx

CONSTANTS Pumps, Receivers, MaxId, Poison, Limit, MaxFaults

ASSUME CommandOutboxAssumption == MaxId \in Nat

VARIABLES dispatched, pump, batch, current, transport, sent, faults,
          worker, message, inbox, handled, lostMarks

deliveryVars == <<dispatched, pump, batch, current, transport, sent, faults,
                  worker, message, inbox, handled, lostMarks>>
allVars == <<vars, deliveryVars>>

CommittedIds == {x.id : x \in outbox}

P == INSTANCE OutboxPump WITH committed <- CommittedIds

ComposedInit == Init /\ P!Init

\* MaxId bounds the sequence: no INSERT draws an id beyond it.
InRange == nextId' <= MaxId + 1

Commanding == Next /\ InRange /\ UNCHANGED deliveryVars

Delivering ==
    /\ UNCHANGED vars
    /\ \/ \E p \in Pumps : P!PumpStep(p) \/ P!Attempt(p) \/ P!PumpFailure(p)
       \/ \E v \in Receivers : P!ReceiverStep(v) \/ P!ReceiverFails(v)

ComposedNext == Commanding \/ Delivering

ComposedSpec == ComposedInit /\ [][ComposedNext]_allVars

Calm ==
    \/ Commanding
    \/ /\ UNCHANGED vars
       /\ \/ \E p \in Pumps : P!PumpStep(p) \/ P!Attempt(p)
          \/ \E v \in Receivers : P!ReceiverStep(v)

ComposedFairSpec ==
    /\ ComposedSpec
    /\ <>[][Calm]_allVars
    /\ \A r \in Requests : WF_allVars(Step(r) /\ InRange /\ UNCHANGED deliveryVars)
    /\ \A p \in Pumps : WF_allVars(UNCHANGED vars /\ (P!PumpStep(p) \/ P!Attempt(p)))
    /\ \A v \in Receivers : WF_allVars(UNCHANGED vars /\ P!ReceiverStep(v))
-----------------------------------------------------------------------------
\* An event is a guaranteed emit of a request.
Delivery == INSTANCE EventDelivery WITH
    Event <- Requests \X (1..MaxId),
    due   <- {<<x.req, x.emit>> : x \in outbox},
    done  <- {<<x.req, x.emit>> : x \in {y \in outbox : handled[y.id] > 0}}

(***************************************************************************)
(* The pumps never invent work: an event that is sent, on its way or       *)
(* handled belongs to a row of a transaction that committed, and the rows  *)
(* of a rolled back attempt leave no trace although they used up ids.      *)
(***************************************************************************)
OnlyCommittedEvents ==
    \A i \in 1..MaxId : sent[i] > 0 \/ handled[i] > 0 =>
        \E x \in outbox : x.id = i /\ commits[x.req] = 1

(***************************************************************************)
(* Command.Handle, the outbox and the pumps together implement what        *)
(* "outbox guaranteed" promises: what is handled was committed, and what   *)
(* is committed is handled, where no row fails for ever.                   *)
(***************************************************************************)
ImplementsDelivery == Delivery!Spec

(***************************************************************************)
(* Every guaranteed emit of a command that commits is handled in the end,  *)
(* however its commit interleaves with the pumps, also when the client was *)
(* told that the command failed (the answer to the COMMIT was lost).       *)
(***************************************************************************)
CommittedEmitsHandled ==
    \A r \in Requests : commits[r] = 1 ~>
        \A k \in 1..cmd[r].guaranteed :
            \E x \in outbox : x.req = r /\ x.emit = k /\ handled[x.id] > 0
=============================================================================
