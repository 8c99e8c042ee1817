-------------------------- MODULE OutboxPumpProofs --------------------------
(***************************************************************************)
(* Proofs about the delivery of guaranteed events, for any finite sets of  *)
(* pumps and receivers, any number of rows and failures.                   *)
(***************************************************************************)
EXTENDS OutboxPump, FiniteSetTheorems, TLAPS

(***************************************************************************)
(* Next, action by action; each proof below splits along it.               *)
(***************************************************************************)
PumpAction(p) ==
    \/ SelectBatch(p) \/ NextRow(p) \/ EndOfPass(p) \/ Dispatch(p) \/ DispatchError(p)
    \/ DispatchErrorAfterSend(p) \/ MarkDispatched(p) \/ MarkError(p) \/ PumpCrash(p)

ReceiverAction(v) ==
    \/ \E i \in Ids : Receive(v, i)
    \/ AlreadySeen(v) \/ RunHandler(v) \/ MarkSeen(v) \/ ReceiverFails(v)

LEMMA NextIsAction ==
    ASSUME Next
    PROVE  \/ \E S \in SUBSET Ids : CommitRows(S)
           \/ \E p \in Pumps : PumpAction(p)
           \/ \E v \in Receivers : ReceiverAction(v)
    BY DEF Next, PumpStep, Attempt, PumpFailure, ReceiverStep, PumpAction, ReceiverAction

LEMMA IdsAreNat == Ids \subseteq Nat /\ 0 \notin Ids
    BY OutboxPumpAssumption DEF Ids

LEMMA CurrentType ==
    ASSUME TypeOK, NEW p \in Pumps, pump[p] \in {"dispatch", "mark"}
    PROVE  current[p] \in Ids
    BY DEF TypeOK

LEMMA MessageType ==
    ASSUME TypeOK, NEW v \in Receivers, worker[v] # "idle"
    PROVE  message[v] \in Ids
    BY DEF TypeOK

LEMMA BumpType ==
    ASSUME NEW f \in [Ids -> Nat], NEW i \in Ids
    PROVE  [f EXCEPT ![i] = @ + 1] \in [Ids -> Nat]
    OBVIOUS

LEMMA BoundedBumpType ==
    ASSUME NEW f \in [Ids -> 0..MaxFaults], NEW i \in Ids, f[i] < MaxFaults
    PROVE  [f EXCEPT ![i] = @ + 1] \in [Ids -> 0..MaxFaults]
    BY OutboxPumpAssumption

\* A part of a batch is no larger than the batch.
LEMMA PartOfBatch ==
    ASSUME NEW S \in SUBSET Ids, AtMostLimit(S), NEW T \in SUBSET S
    PROVE  AtMostLimit(T)
<1> SUFFICES ASSUME NEW i \in T PROVE Cardinality({j \in T : j < i}) < Limit
    BY DEF AtMostLimit
<1> DEFINE B == {j \in S : j < i}
           A == {j \in T : j < i}
<1>1. IsFiniteSet(B)
  <2>1. IsFiniteSet(Ids)
      BY OutboxPumpAssumption, FS_Interval DEF Ids
  <2>2. QED
      BY <2>1, FS_Subset
<1>2. IsFiniteSet(A) /\ Cardinality(A) <= Cardinality(B)
    BY <1>1, FS_Subset
<1>3. Cardinality(A) \in Nat /\ Cardinality(B) \in Nat
    BY <1>1, <1>2, FS_CardinalityType
<1>4. Cardinality(B) < Limit
    BY DEF AtMostLimit
<1>5. QED
    BY <1>2, <1>3, <1>4, OutboxPumpAssumption

\* The LIMIT of the SELECT is kept.
LEMMA SelectedLimited ==
    ASSUME TypeOK
    PROVE  Selected \in SUBSET Ids /\ AtMostLimit(Selected)
<1>1. Undispatched \in SUBSET Ids /\ Selected \in SUBSET Undispatched
    BY DEF TypeOK, Undispatched, Selected
<1>2. ASSUME NEW i \in Selected PROVE Cardinality({j \in Selected : j < i}) < Limit
  <2> DEFINE B == {j \in Undispatched : j < i}
             A == {j \in Selected : j < i}
  <2>1. IsFiniteSet(B)
    <3>1. IsFiniteSet(Ids)
        BY OutboxPumpAssumption, FS_Interval DEF Ids
    <3>2. QED
        BY <1>1, <3>1, FS_Subset
  <2>2. IsFiniteSet(A) /\ Cardinality(A) <= Cardinality(B)
      BY <1>1, <2>1, FS_Subset
  <2>3. Cardinality(A) \in Nat /\ Cardinality(B) \in Nat
      BY <2>1, <2>2, FS_CardinalityType
  <2>4. Cardinality(B) < Limit
      BY DEF Selected
  <2>5. QED
      BY <2>2, <2>3, <2>4, OutboxPumpAssumption
<1>3. QED
    BY <1>1, <1>2 DEF AtMostLimit

LEMMA EmptyLimited == AtMostLimit({})
    BY DEF AtMostLimit
-----------------------------------------------------------------------------
LEMMA InitTypeOK == Init => TypeOK
    BY OutboxPumpAssumption, IdsAreNat, EmptyLimited DEF Init, TypeOK

LEMMA PumpTypeOK ==
    ASSUME TypeOK, NEW p \in Pumps, PumpAction(p)
    PROVE  TypeOK'
<1> USE IdsAreNat DEF TypeOK, receiverVars
<1>1. CASE SelectBatch(p)
    BY <1>1, SelectedLimited DEF SelectBatch
<1>2. CASE NextRow(p)
  <2>1. PICK i \in batch[p] : batch' = [batch EXCEPT ![p] = @ \ {i}]
                              /\ current' = [current EXCEPT ![p] = i]
      BY <1>2 DEF NextRow
  <2>2. AtMostLimit(batch[p] \ {i})
      BY <2>1, PartOfBatch
  <2>3. QED
      BY <1>2, <2>1, <2>2 DEF NextRow
<1>3. CASE EndOfPass(p)
    BY <1>3 DEF EndOfPass
<1>4. CASE Dispatch(p)
  <2>1. current[p] \in Ids
      BY <1>4, CurrentType DEF Dispatch
  <2>2. transport' \in [Ids -> Nat] /\ sent' \in [Ids -> Nat]
      BY <1>4, <2>1, BumpType DEF Dispatch, Hand
  <2>3. QED
      BY <1>4, <2>1, <2>2 DEF Dispatch
<1>5. CASE DispatchError(p)
    BY <1>5 DEF DispatchError
<1>6. CASE DispatchErrorAfterSend(p)
  <2>1. current[p] \in Ids
      BY <1>6, CurrentType DEF DispatchErrorAfterSend
  <2>2. transport' \in [Ids -> Nat] /\ sent' \in [Ids -> Nat]
      BY <1>6, <2>1, BumpType DEF DispatchErrorAfterSend, Hand
  <2>3. faults' \in [Ids -> 0..MaxFaults]
      BY <1>6, <2>1, BoundedBumpType DEF DispatchErrorAfterSend, Fault
  <2>4. QED
      BY <1>6, <2>1, <2>2, <2>3 DEF DispatchErrorAfterSend
<1>7. CASE MarkDispatched(p)
    BY <1>7 DEF MarkDispatched
<1>8. CASE MarkError(p)
  <2>1. current[p] \in Ids
      BY <1>8, CurrentType DEF MarkError
  <2>2. faults' \in [Ids -> 0..MaxFaults]
      BY <1>8, <2>1, BoundedBumpType DEF MarkError, Fault
  <2>3. QED
      BY <1>8, <2>1, <2>2, EmptyLimited DEF MarkError
<1>9. CASE PumpCrash(p)
  <2>1. faults' \in [Ids -> 0..MaxFaults]
      BY <1>9, CurrentType, BoundedBumpType DEF PumpCrash, Fault
  <2>2. QED
      BY <1>9, <2>1, EmptyLimited DEF PumpCrash
<1>10. QED
    BY <1>1, <1>2, <1>3, <1>4, <1>5, <1>6, <1>7, <1>8, <1>9 DEF PumpAction

LEMMA ReceiverTypeOK ==
    ASSUME TypeOK, NEW v \in Receivers, ReceiverAction(v)
    PROVE  TypeOK'
<1> USE IdsAreNat DEF TypeOK, pumpVars
<1>1. ASSUME NEW i \in Ids, Receive(v, i) PROVE TypeOK'
    BY <1>1 DEF Receive
<1>2. CASE AlreadySeen(v)
    BY <1>2 DEF AlreadySeen, Done
<1>3. CASE RunHandler(v)
  <2>1. message[v] \in Ids
      BY <1>3, MessageType DEF RunHandler
  <2>2. handled' \in [Ids -> Nat]
      BY <1>3, <2>1, BumpType DEF RunHandler
  <2>3. QED
      BY <1>3, <2>1, <2>2 DEF RunHandler
<1>4. CASE MarkSeen(v)
    BY <1>4 DEF MarkSeen, Done
<1>5. CASE ReceiverFails(v)
  <2>1. message[v] \in Ids
      BY <1>5, MessageType DEF ReceiverFails
  <2>2. transport' \in [Ids -> Nat]
      BY <1>5, <2>1, BumpType DEF ReceiverFails
  <2>3. lostMarks' \in [Ids -> 0..MaxFaults]
      BY <1>5, <2>1, BoundedBumpType DEF ReceiverFails
  <2>4. QED
      BY <1>5, <2>1, <2>2, <2>3 DEF ReceiverFails, Done
<1>6. QED
    BY <1>1, <1>2, <1>3, <1>4, <1>5 DEF ReceiverAction

LEMMA StepTypeOK == TypeOK /\ [Next]_vars => TypeOK'
<1> SUFFICES ASSUME TypeOK, [Next]_vars PROVE TypeOK'
    OBVIOUS
<1>1. CASE UNCHANGED vars
    BY <1>1 DEF TypeOK, vars, pumpVars, receiverVars
<1>2. ASSUME NEW S \in SUBSET Ids, CommitRows(S) PROVE TypeOK'
    BY <1>2 DEF TypeOK, CommitRows, pumpVars, receiverVars
<1>3. QED
    BY <1>1, <1>2, NextIsAction, PumpTypeOK, ReceiverTypeOK

(***************************************************************************)
(* Type correctness, for every number of pumps, receivers and rows.        *)
(***************************************************************************)
THEOREM PumpTypeCorrect == Spec => []TypeOK
    BY InitTypeOK, StepTypeOK, PTL DEF Spec

-----------------------------------------------------------------------------
(***************************************************************************)
(* NoEventLost is not inductive: a row is marked after its event was sent, *)
(* so the copy has to survive while a pump stands between the two, and a   *)
(* receiver that is about to mark an event seen must have handled it.      *)
(***************************************************************************)
LossInv ==
    /\ \A i \in dispatched : Survives(i)
    /\ \A p \in Pumps : pump[p] = "mark" => Survives(current[p])
    /\ \A v \in Receivers : worker[v] = "mark" => handled[message[v]] > 0
    /\ \A i \in inbox : handled[i] > 0

\* Pumps holding the row i, to be sent or sent and not marked yet.
Holding(i) == {p \in Pumps : i \in batch[p] \/ (pump[p] = "dispatch" /\ current[p] = i)}
Marking(i) == {p \in Pumps : pump[p] = "mark" /\ current[p] = i}

(***************************************************************************)
(* DuplicatesBounded, with what a pump may still do.  While a row is not   *)
(* dispatched every send of it is a fault or a pump about to mark it; a    *)
(* pump that selects it then is none of those, so that the sends and the   *)
(* pumps holding the row are at most one per pump.                         *)
(***************************************************************************)
CopiesInv ==
    /\ \A p \in Pumps : current[p] \notin batch[p]
    /\ \A i \in Ids \ dispatched : sent[i] <= faults[i] + Cardinality(Marking(i))
    /\ \A i \in Ids : sent[i] + Cardinality(Holding(i)) <= Cardinality(Pumps) + faults[i]

\* Receivers about to run the handler of the event i, or to mark it seen.
Handling(i) == {v \in Receivers : worker[v] = "handle" /\ message[v] = i}
Handled(i)  == {v \in Receivers : worker[v] = "mark" /\ message[v] = i}

(***************************************************************************)
(* HandledBounded in the same way: the inbox plays the part of the mark.   *)
(***************************************************************************)
RunsInv ==
    /\ \A i \in Ids \ inbox : handled[i] <= lostMarks[i] + Cardinality(Handled(i))
    /\ \A i \in Ids : handled[i] + Cardinality(Handling(i)) <= Cardinality(Receivers) + lostMarks[i]
-----------------------------------------------------------------------------
\* An event in the transport survives a step of a pump and stays sent.
LEMMA PumpKeepsCopies ==
    ASSUME TypeOK, NEW p \in Pumps, PumpAction(p), NEW i \in Ids, Survives(i)
    PROVE  Survives(i)'
<1>1. message' = message /\ inbox' = inbox
    BY DEF PumpAction, SelectBatch, NextRow, EndOfPass, Dispatch, DispatchError,
           DispatchErrorAfterSend, MarkDispatched, MarkError, PumpCrash, receiverVars
<1>2. transport[i] > 0 => transport'[i] > 0
  <2>1. CASE Dispatch(p) \/ DispatchErrorAfterSend(p)
    <3>1. current[p] \in Ids
        BY <2>1, CurrentType DEF Dispatch, DispatchErrorAfterSend
    <3>2. QED
        BY <2>1, <3>1 DEF Dispatch, DispatchErrorAfterSend, Hand, TypeOK
  <2>2. CASE UNCHANGED transport
      BY <2>2
  <2>3. QED
      BY <2>1, <2>2 DEF PumpAction, SelectBatch, NextRow, EndOfPass, DispatchError,
                        MarkDispatched, MarkError, PumpCrash
<1>3. QED
    BY <1>1, <1>2 DEF Survives

LEMMA PumpLossInv ==
    ASSUME TypeOK, LossInv, NEW p \in Pumps, PumpAction(p)
    PROVE  LossInv'
<1>1. \A i \in Ids : Survives(i) => Survives(i)'
    BY PumpKeepsCopies
<1>2. worker' = worker /\ message' = message /\ inbox' = inbox /\ handled' = handled
    BY DEF PumpAction, SelectBatch, NextRow, EndOfPass, Dispatch, DispatchError,
           DispatchErrorAfterSend, MarkDispatched, MarkError, PumpCrash, receiverVars
<1>3. \A i \in dispatched' : Survives(i)'
  <2>1. CASE MarkDispatched(p)
    <3>1. current[p] \in Ids /\ Survives(current[p])
        BY <2>1, CurrentType DEF MarkDispatched, LossInv
    <3>2. QED
        BY <2>1, <3>1, <1>1 DEF MarkDispatched, LossInv, TypeOK
  <2>2. CASE UNCHANGED dispatched
      BY <2>2, <1>1 DEF LossInv, TypeOK
  <2>3. QED
      BY <2>1, <2>2 DEF PumpAction, SelectBatch, NextRow, EndOfPass, Dispatch, DispatchError,
                        DispatchErrorAfterSend, MarkError, PumpCrash
<1>4. ASSUME NEW q \in Pumps, pump'[q] = "mark" PROVE Survives(current[q])'
  <2>1. CASE q = p /\ Dispatch(p)
    <3>1. current[p] \in Ids /\ current' = current
        BY <2>1, CurrentType DEF Dispatch
    <3>2. transport'[current[p]] > 0
        BY <2>1, <3>1 DEF Dispatch, Hand, TypeOK
    <3>3. QED
        BY <2>1, <3>1, <3>2 DEF Survives
  <2>2. CASE q = p /\ ~ Dispatch(p)
      BY <1>4, <2>2 DEF PumpAction, SelectBatch, NextRow, EndOfPass, DispatchError, TypeOK,
                        DispatchErrorAfterSend, MarkDispatched, MarkError, PumpCrash
  <2>3. CASE q # p
    <3>1. pump'[q] = pump[q] /\ current'[q] = current[q]
        BY <2>3 DEF PumpAction, SelectBatch, NextRow, EndOfPass, Dispatch, DispatchError, TypeOK,
                    DispatchErrorAfterSend, MarkDispatched, MarkError, PumpCrash
    <3>2. current[q] \in Ids /\ Survives(current[q])
        BY <1>4, <3>1, CurrentType DEF LossInv
    <3>3. QED
        BY <3>1, <3>2, <1>1 DEF Survives
  <2>4. QED
      BY <2>1, <2>2, <2>3
<1>5. QED
    BY <1>2, <1>3, <1>4 DEF LossInv

\* A receiver passes a copy on, back or, once the event is in the inbox, drops it.
LEMMA ReceiverKeepsCopies ==
    ASSUME TypeOK, NEW v \in Receivers, ReceiverAction(v), NEW i \in Ids, Survives(i)
    PROVE  Survives(i)'
<1> USE DEF Survives, TypeOK, Done
<1>1. ASSUME NEW j \in Ids, Receive(v, j) PROVE Survives(i)'
  <2>1. CASE i = j
      BY <1>1, <2>1 DEF Receive
  <2>2. CASE i # j
    <3>1. transport'[i] = transport[i] /\ inbox' = inbox
        BY <1>1, <2>2 DEF Receive
    <3>2. \A w \in Receivers : message[w] = i => message'[w] = i
        BY <1>1, IdsAreNat DEF Receive
    <3>3. QED
        BY <3>1, <3>2
  <2>3. QED
      BY <2>1, <2>2
<1>2. CASE AlreadySeen(v)
    BY <1>2 DEF AlreadySeen
<1>3. CASE RunHandler(v)
    BY <1>3 DEF RunHandler
<1>4. CASE MarkSeen(v)
    BY <1>4 DEF MarkSeen
<1>5. CASE ReceiverFails(v)
  <2>1. message[v] \in Ids
      BY <1>5, MessageType DEF ReceiverFails
  <2>2. CASE message[v] = i
    <3>1. transport'[i] = transport[i] + 1
        BY <1>5, <2>1, <2>2 DEF ReceiverFails
    <3>2. QED
        BY <3>1
  <2>3. CASE message[v] # i
    <3>1. transport'[i] = transport[i] /\ inbox' = inbox
        BY <1>5, <2>3 DEF ReceiverFails
    <3>2. \A w \in Receivers : message[w] = i => message'[w] = i
        BY <1>5, <2>3 DEF ReceiverFails
    <3>3. QED
        BY <3>1, <3>2
  <2>4. QED
      BY <2>2, <2>3
<1>6. QED
    BY <1>1, <1>2, <1>3, <1>4, <1>5 DEF ReceiverAction

LEMMA ReceiverLossInv ==
    ASSUME TypeOK, LossInv, NEW v \in Receivers, ReceiverAction(v)
    PROVE  LossInv'
<1>1. \A i \in Ids : Survives(i) => Survives(i)'
    BY ReceiverKeepsCopies
<1>2. dispatched' = dispatched /\ pump' = pump /\ current' = current
    BY DEF ReceiverAction, Receive, AlreadySeen, RunHandler, MarkSeen, ReceiverFails, pumpVars
<1>3. \A i \in dispatched' : Survives(i)'
    BY <1>1, <1>2 DEF LossInv, TypeOK
<1>4. ASSUME NEW q \in Pumps, pump'[q] = "mark" PROVE Survives(current[q])'
  <2>1. current[q] \in Ids /\ Survives(current[q])
      BY <1>2, <1>4, CurrentType DEF LossInv
  <2>2. QED
      BY <2>1, <1>1, <1>2 DEF Survives
<1>5. \A i \in Ids : handled[i] > 0 => handled'[i] > 0
  <2>1. CASE RunHandler(v)
    <3>1. message[v] \in Ids
        BY <2>1, MessageType DEF RunHandler
    <3>2. QED
        BY <2>1, <3>1 DEF RunHandler, TypeOK
  <2>2. QED
      BY <2>1 DEF ReceiverAction, Receive, AlreadySeen, MarkSeen, ReceiverFails
<1>6. ASSUME NEW w \in Receivers, worker'[w] = "mark" PROVE handled'[message'[w]] > 0
  <2>1. CASE w = v /\ RunHandler(v)
    <3>1. message[v] \in Ids /\ message' = message
        BY <2>1, MessageType DEF RunHandler
    <3>2. QED
        BY <2>1, <3>1 DEF RunHandler, TypeOK
  <2>2. CASE w = v /\ ~ RunHandler(v)
      BY <1>6, <2>2 DEF ReceiverAction, Receive, AlreadySeen, MarkSeen, ReceiverFails, Done, TypeOK
  <2>3. CASE w # v
    <3>1. worker'[w] = worker[w] /\ message'[w] = message[w]
        BY <2>3 DEF ReceiverAction, Receive, AlreadySeen, RunHandler, MarkSeen, ReceiverFails,
                    Done, TypeOK
    <3>2. message[w] \in Ids /\ handled[message[w]] > 0
        BY <1>6, <3>1, MessageType DEF LossInv
    <3>3. QED
        BY <3>1, <3>2, <1>5
  <2>4. QED
      BY <2>1, <2>2, <2>3
<1>7. ASSUME NEW i \in inbox' PROVE handled'[i] > 0
  <2>1. CASE i \in inbox
      BY <2>1, <1>5 DEF LossInv, TypeOK
  <2>2. CASE i \notin inbox
    <3>1. MarkSeen(v) /\ i = message[v]
        BY <1>7, <2>2 DEF ReceiverAction, Receive, AlreadySeen, RunHandler, MarkSeen, ReceiverFails
    <3>2. message[v] \in Ids /\ handled[message[v]] > 0
        BY <3>1, MessageType DEF MarkSeen, LossInv
    <3>3. QED
        BY <3>1, <3>2, <1>5
  <2>3. QED
      BY <2>1, <2>2
<1>8. QED
    BY <1>3, <1>4, <1>6, <1>7 DEF LossInv

LEMMA StepLossInv == TypeOK /\ LossInv /\ [Next]_vars => LossInv'
<1> SUFFICES ASSUME TypeOK, LossInv, [Next]_vars PROVE LossInv'
    OBVIOUS
<1>1. CASE UNCHANGED vars
    BY <1>1 DEF LossInv, Survives, vars, pumpVars, receiverVars
<1>2. ASSUME NEW S \in SUBSET Ids, CommitRows(S) PROVE LossInv'
    BY <1>2 DEF LossInv, Survives, CommitRows, pumpVars, receiverVars
<1>3. QED
    BY <1>1, <1>2, NextIsAction, PumpLossInv, ReceiverLossInv

(***************************************************************************)
(* A row marked dispatched has a copy of its event in the transport or     *)
(* with a receiver, or its handler has run, wherever pumps and receivers   *)
(* fail: PumpOnce marks after Dispatch, MarkSeen comes after the handler.  *)
(***************************************************************************)
THEOREM GuaranteedDelivery == Spec => []NoEventLost
<1>1. Init => LossInv
    BY DEF Init, LossInv
<1>2. LossInv => NoEventLost
    BY DEF LossInv, NoEventLost
<1>3. QED
    BY <1>1, <1>2, StepLossInv, PumpTypeCorrect, PTL DEF Spec
-----------------------------------------------------------------------------
\* The sizes of two sets that differ at most in p.
CountMoves(p, S, T) ==
    /\ Cardinality(S) \in Nat /\ Cardinality(T) \in Nat
    /\ (p \in S <=> p \in T) => Cardinality(T) = Cardinality(S)
    /\ (p \in S /\ p \notin T) => Cardinality(T) = Cardinality(S) - 1
    /\ (p \notin S /\ p \in T) => Cardinality(T) = Cardinality(S) + 1

LEMMA OneMoves ==
    ASSUME NEW P, IsFiniteSet(P), NEW p, NEW S \in SUBSET P, NEW T \in SUBSET P,
           S \ {p} = T \ {p}
    PROVE  CountMoves(p, S, T)
<1>1. IsFiniteSet(S) /\ IsFiniteSet(T)
    BY FS_Subset
<1>2. Cardinality(S) \in Nat /\ Cardinality(T) \in Nat
    BY <1>1, FS_CardinalityType
<1>3. Cardinality(S \ {p}) = IF p \in S THEN Cardinality(S) - 1 ELSE Cardinality(S)
    BY <1>1, FS_RemoveElement
<1>4. Cardinality(T \ {p}) = IF p \in T THEN Cardinality(T) - 1 ELSE Cardinality(T)
    BY <1>1, FS_RemoveElement
<1>5. QED
    BY <1>2, <1>3, <1>4 DEF CountMoves

LEMMA DisjointSubsets ==
    ASSUME NEW P, IsFiniteSet(P), NEW S \in SUBSET P, NEW T \in SUBSET P, S \cap T = {}
    PROVE  Cardinality(S) + Cardinality(T) <= Cardinality(P)
<1>1. IsFiniteSet(S) /\ IsFiniteSet(T)
    BY FS_Subset
<1>2. /\ Cardinality(S) \in Nat /\ Cardinality(T) \in Nat
      /\ Cardinality(S \cup T) = Cardinality(S) + Cardinality(T) - Cardinality(S \cap T)
    BY <1>1, FS_CardinalityType, FS_Union
<1>3. Cardinality(S \cap T) = 0
    BY FS_EmptySet
<1>4. S \cup T \in SUBSET P
    OBVIOUS
<1>5. Cardinality(S \cup T) <= Cardinality(P)
    BY <1>4, FS_Subset
<1>6. QED
    BY <1>2, <1>3, <1>5

\* A step of the pump p moves nobody but p in or out of Holding and Marking.
LEMMA PumpMoves ==
    ASSUME TypeOK, NEW p \in Pumps, PumpAction(p), NEW i \in Ids
    PROVE  /\ CountMoves(p, Holding(i), Holding(i)')
           /\ CountMoves(p, Marking(i), Marking(i)')
<1>1. ASSUME NEW q \in Pumps \ {p}
      PROVE  pump'[q] = pump[q] /\ current'[q] = current[q] /\ batch'[q] = batch[q]
    BY <1>1 DEF PumpAction, SelectBatch, NextRow, EndOfPass, Dispatch, DispatchError, TypeOK,
                DispatchErrorAfterSend, MarkDispatched, MarkError, PumpCrash
<1>2. /\ Holding(i) \in SUBSET Pumps /\ Holding(i)' \in SUBSET Pumps
      /\ Holding(i) \ {p} = Holding(i)' \ {p}
    BY <1>1 DEF Holding
<1>3. /\ Marking(i) \in SUBSET Pumps /\ Marking(i)' \in SUBSET Pumps
      /\ Marking(i) \ {p} = Marking(i)' \ {p}
    BY <1>1 DEF Marking
<1>4. QED
    BY <1>2, <1>3, OneMoves, OutboxPumpAssumption

LEMMA PumpCopiesInv ==
    ASSUME TypeOK, CopiesInv, NEW p \in Pumps, PumpAction(p)
    PROVE  CopiesInv'
<1> USE DEF TypeOK
<1>1. ASSUME NEW q \in Pumps PROVE current'[q] \notin batch'[q]
  <2>1. current[q] \notin batch[q] /\ 0 \notin batch[q]
      BY IdsAreNat DEF CopiesInv
  <2>2. CASE SelectBatch(p)
    <3>1. current[p] = 0 /\ 0 \notin Selected
        BY <2>2, IdsAreNat DEF SelectBatch, Selected, Undispatched
    <3>2. QED
        BY <2>1, <2>2, <3>1 DEF SelectBatch
  <2>3. CASE NextRow(p)
      BY <2>1, <2>3 DEF NextRow
  <2>4. CASE EndOfPass(p) \/ Dispatch(p)
      BY <2>1, <2>4 DEF EndOfPass, Dispatch
  <2>5. CASE DispatchError(p) \/ DispatchErrorAfterSend(p) \/ MarkDispatched(p)
      BY <2>1, <2>5 DEF DispatchError, DispatchErrorAfterSend, MarkDispatched
  <2>6. CASE MarkError(p) \/ PumpCrash(p)
      BY <2>1, <2>6 DEF MarkError, PumpCrash
  <2>7. QED
      BY <2>2, <2>3, <2>4, <2>5, <2>6 DEF PumpAction
<1>2. ASSUME NEW i \in Ids
      PROVE  /\ i \notin dispatched' => sent'[i] <= faults'[i] + Cardinality(Marking(i)')
             /\ sent'[i] + Cardinality(Holding(i)') <= Cardinality(Pumps) + faults'[i]
  <2> USE DEF CountMoves
  <2> DEFINE H == Cardinality(Holding(i))
             M == Cardinality(Marking(i))
             HH == Cardinality(Holding(i)')
  <2>1. CountMoves(p, Holding(i), Holding(i)')
      BY PumpMoves
  <2>2. CountMoves(p, Marking(i), Marking(i)')
      BY PumpMoves
  <2>3. /\ i \notin dispatched => sent[i] <= faults[i] + M
        /\ sent[i] + H <= Cardinality(Pumps) + faults[i]
      BY DEF CopiesInv
  <2>4. Cardinality(Pumps) \in Nat /\ sent[i] \in Nat /\ faults[i] \in Nat
      BY OutboxPumpAssumption, FS_CardinalityType
  <2>5. CASE SelectBatch(p)
    <3>1. sent' = sent /\ faults' = faults /\ dispatched' = dispatched
        BY <2>5 DEF SelectBatch
    <3>2. p \notin Marking(i) /\ p \notin Marking(i)'
        BY <2>5 DEF SelectBatch, Marking
    <3>3. CASE i \in Selected
      <4>1. i \notin dispatched
          BY <3>3 DEF Selected, Undispatched
      <4>2. Marking(i) \cap Holding(i)' = {}
        <5>1. ASSUME NEW q \in Marking(i), q \in Holding(i)' PROVE FALSE
          <6>1. q # p /\ q \in Pumps /\ pump[q] = "mark" /\ current[q] = i
              BY <3>2, <5>1 DEF Marking
          <6>2. i \notin batch[q]
              BY <6>1 DEF CopiesInv
          <6>3. QED
              BY <2>5, <5>1, <6>1, <6>2 DEF SelectBatch, Holding
        <5>2. QED
            BY <5>1
      <4>3. M + HH <= Cardinality(Pumps)
          BY <4>2, DisjointSubsets, OutboxPumpAssumption DEF Holding, Marking
      <4>4. QED
          BY <2>1, <2>2, <2>3, <2>4, <3>1, <3>2, <4>1, <4>3
    <3>4. CASE i \notin Selected
      <4>1. p \notin Holding(i)'
          BY <2>5, <3>4 DEF SelectBatch, Holding
      <4>2. QED
          BY <2>1, <2>2, <2>3, <2>4, <3>1, <3>2, <4>1
    <3>5. QED
        BY <3>3, <3>4
  <2>6. CASE NextRow(p) \/ EndOfPass(p) \/ DispatchError(p)
    <3>1. sent' = sent /\ faults' = faults /\ dispatched' = dispatched
        BY <2>6 DEF NextRow, EndOfPass, DispatchError
    <3>2. p \notin Marking(i) /\ p \notin Marking(i)'
        BY <2>6 DEF NextRow, EndOfPass, DispatchError, Marking
    <3>3. p \in Holding(i)' => p \in Holding(i)
        BY <2>6 DEF NextRow, EndOfPass, DispatchError, Holding
    <3>4. QED
        BY <2>1, <2>2, <2>3, <2>4, <3>1, <3>2, <3>3
  <2>7. CASE Dispatch(p)
    <3>1. faults' = faults /\ dispatched' = dispatched /\ current[p] \in Ids
        BY <2>7, CurrentType DEF Dispatch
    <3>2. p \notin Marking(i)
        BY <2>7 DEF Dispatch, Marking
    <3>3. CASE current[p] = i
      <4>1. sent'[i] = sent[i] + 1
          BY <2>7, <3>1, <3>3 DEF Dispatch, Hand
      <4>2. p \in Marking(i)' /\ p \in Holding(i)
          BY <2>7, <3>3 DEF Dispatch, Marking, Holding
      <4>3. p \notin Holding(i)'
          BY <2>7, <3>3 DEF Dispatch, Holding, CopiesInv
      <4>4. QED
          BY <2>1, <2>2, <2>3, <2>4, <3>1, <3>2, <4>1, <4>2, <4>3
    <3>4. CASE current[p] # i
      <4>1. sent'[i] = sent[i]
          BY <2>7, <3>1, <3>4 DEF Dispatch, Hand
      <4>2. p \notin Marking(i)' /\ (p \in Holding(i) <=> p \in Holding(i)')
          BY <2>7, <3>4 DEF Dispatch, Marking, Holding
      <4>3. QED
          BY <2>1, <2>2, <2>3, <2>4, <3>1, <3>2, <4>1, <4>2
    <3>5. QED
        BY <3>3, <3>4
  <2>8. CASE DispatchErrorAfterSend(p)
    <3>1. dispatched' = dispatched /\ current[p] \in Ids
        BY <2>8, CurrentType DEF DispatchErrorAfterSend
    <3>2. p \notin Marking(i) /\ p \notin Marking(i)'
        BY <2>8 DEF DispatchErrorAfterSend, Marking
    <3>3. CASE current[p] = i
      <4>1. sent'[i] = sent[i] + 1 /\ faults'[i] = faults[i] + 1
          BY <2>8, <3>1, <3>3 DEF DispatchErrorAfterSend, Hand, Fault
      <4>2. p \in Holding(i) /\ p \notin Holding(i)'
          BY <2>8, <3>3 DEF DispatchErrorAfterSend, Holding, CopiesInv
      <4>3. QED
          BY <2>1, <2>2, <2>3, <2>4, <3>1, <3>2, <4>1, <4>2
    <3>4. CASE current[p] # i
      <4>1. sent'[i] = sent[i] /\ faults'[i] = faults[i]
          BY <2>8, <3>1, <3>4 DEF DispatchErrorAfterSend, Hand, Fault
      <4>2. p \in Holding(i) <=> p \in Holding(i)'
          BY <2>8, <3>4 DEF DispatchErrorAfterSend, Holding
      <4>3. QED
          BY <2>1, <2>2, <2>3, <2>4, <3>1, <3>2, <4>1, <4>2
    <3>5. QED
        BY <3>3, <3>4
  <2>9. CASE MarkDispatched(p)
    <3>1. sent' = sent /\ faults' = faults
        BY <2>9 DEF MarkDispatched
    <3>2. p \in Holding(i) <=> p \in Holding(i)'
        BY <2>9 DEF MarkDispatched, Holding
    <3>3. i \notin dispatched' => i \notin dispatched /\ p \notin Marking(i) /\ p \notin Marking(i)'
        BY <2>9 DEF MarkDispatched, Marking
    <3>4. QED
        BY <2>1, <2>2, <2>3, <2>4, <3>1, <3>2, <3>3
  <2>10. CASE MarkError(p) \/ PumpCrash(p)
    <3>1. sent' = sent /\ dispatched' = dispatched
        BY <2>10 DEF MarkError, PumpCrash
    <3>2. p \notin Holding(i)' /\ p \notin Marking(i)'
        BY <2>10 DEF MarkError, PumpCrash, Holding, Marking
    <3>3. CASE p \in Marking(i)
      <4>1. faults'[i] = faults[i] + 1
          BY <2>10, <3>3 DEF MarkError, PumpCrash, Fault, Marking
      <4>2. QED
          BY <2>1, <2>2, <2>3, <2>4, <3>1, <3>2, <3>3, <4>1
    <3>4. CASE p \notin Marking(i)
      <4>1. faults'[i] = faults[i]
          BY <2>10, <3>4 DEF MarkError, PumpCrash, Fault, Marking
      <4>2. QED
          BY <2>1, <2>2, <2>3, <2>4, <3>1, <3>2, <3>4, <4>1
    <3>5. QED
        BY <3>3, <3>4
  <2>11. QED
      BY <2>5, <2>6, <2>7, <2>8, <2>9, <2>10 DEF PumpAction
<1>3. QED
    BY <1>1, <1>2 DEF CopiesInv

LEMMA StepCopiesInv == TypeOK /\ CopiesInv /\ [Next]_vars => CopiesInv'
<1> SUFFICES ASSUME TypeOK, CopiesInv, [Next]_vars PROVE CopiesInv'
    OBVIOUS
<1>1. CASE UNCHANGED pumpVars
    BY <1>1 DEF CopiesInv, Holding, Marking, pumpVars
<1>2. ASSUME NEW S \in SUBSET Ids, CommitRows(S) PROVE UNCHANGED pumpVars
    BY <1>2 DEF CommitRows
<1>3. ASSUME NEW v \in Receivers, ReceiverAction(v) PROVE UNCHANGED pumpVars
    BY <1>3 DEF ReceiverAction, Receive, AlreadySeen, RunHandler, MarkSeen, ReceiverFails
<1>4. QED
    BY <1>1, <1>2, <1>3, NextIsAction, PumpCopiesInv DEF vars

(***************************************************************************)
(* However many pumps drain lazuli_outbox without locking its rows, an     *)
(* event is sent at most once per pump and once per failure between the    *)
(* Dispatch and the UPDATE of PumpOnce.                                    *)
(***************************************************************************)
THEOREM CopiesBounded == Spec => []DuplicatesBounded
<1>1. Init => CopiesInv
  <2> SUFFICES ASSUME Init PROVE CopiesInv
      OBVIOUS
  <2>1. Cardinality(Pumps) \in Nat
      BY OutboxPumpAssumption, FS_CardinalityType
  <2>2. \A i \in Ids : Holding(i) = {} /\ Marking(i) = {}
      BY DEF Init, Holding, Marking
  <2>3. \A i \in Ids : Cardinality(Holding(i)) = 0 /\ Cardinality(Marking(i)) = 0
      BY <2>2, FS_EmptySet
  <2>4. QED
      BY <2>1, <2>3 DEF Init, CopiesInv
<1>2. TypeOK /\ CopiesInv => DuplicatesBounded
  <2> SUFFICES ASSUME TypeOK, CopiesInv, NEW i \in Ids
               PROVE  sent[i] <= Cardinality(Pumps) + faults[i]
      BY DEF DuplicatesBounded
  <2>1. IsFiniteSet(Holding(i))
      BY OutboxPumpAssumption, FS_Subset DEF Holding
  <2>2. Cardinality(Holding(i)) \in Nat /\ Cardinality(Pumps) \in Nat
      BY <2>1, OutboxPumpAssumption, FS_CardinalityType
  <2>3. QED
      BY <2>2 DEF CopiesInv, TypeOK
<1>3. QED
    BY <1>1, <1>2, StepCopiesInv, PumpTypeCorrect, PTL DEF Spec
-----------------------------------------------------------------------------
\* A step of the receiver v moves nobody but v in or out of Handling and Handled.
LEMMA ReceiverMoves ==
    ASSUME TypeOK, NEW v \in Receivers, ReceiverAction(v), NEW i \in Ids
    PROVE  /\ CountMoves(v, Handling(i), Handling(i)')
           /\ CountMoves(v, Handled(i), Handled(i)')
<1>1. ASSUME NEW w \in Receivers \ {v}
      PROVE  worker'[w] = worker[w] /\ message'[w] = message[w]
    BY <1>1 DEF ReceiverAction, Receive, AlreadySeen, RunHandler, MarkSeen, ReceiverFails,
                Done, TypeOK
<1>2. /\ Handling(i) \in SUBSET Receivers /\ Handling(i)' \in SUBSET Receivers
      /\ Handling(i) \ {v} = Handling(i)' \ {v}
    BY <1>1 DEF Handling
<1>3. /\ Handled(i) \in SUBSET Receivers /\ Handled(i)' \in SUBSET Receivers
      /\ Handled(i) \ {v} = Handled(i)' \ {v}
    BY <1>1 DEF Handled
<1>4. QED
    BY <1>2, <1>3, OneMoves, OutboxPumpAssumption

LEMMA ReceiverRunsInv ==
    ASSUME TypeOK, RunsInv, NEW v \in Receivers, ReceiverAction(v)
    PROVE  RunsInv'
<1> USE DEF TypeOK
<1>1. ASSUME NEW i \in Ids
      PROVE  /\ i \notin inbox' => handled'[i] <= lostMarks'[i] + Cardinality(Handled(i)')
             /\ handled'[i] + Cardinality(Handling(i)') <= Cardinality(Receivers) + lostMarks'[i]
  <2> USE DEF CountMoves
  <2> DEFINE H == Cardinality(Handling(i))
             M == Cardinality(Handled(i))
             HH == Cardinality(Handling(i)')
  <2>1. CountMoves(v, Handling(i), Handling(i)')
      BY ReceiverMoves
  <2>2. CountMoves(v, Handled(i), Handled(i)')
      BY ReceiverMoves
  <2>3. /\ i \notin inbox => handled[i] <= lostMarks[i] + M
        /\ handled[i] + H <= Cardinality(Receivers) + lostMarks[i]
      BY DEF RunsInv
  <2>4. Cardinality(Receivers) \in Nat /\ handled[i] \in Nat /\ lostMarks[i] \in Nat
      BY OutboxPumpAssumption, FS_CardinalityType
  <2>5. ASSUME NEW j \in Ids, Receive(v, j)
        PROVE  /\ UNCHANGED <<inbox, handled, lostMarks>>
               /\ v \notin Handled(i) /\ v \notin Handled(i)'
               /\ v \notin Handling(i) /\ v \notin Handling(i)'
      BY <2>5 DEF Receive, Handling, Handled
  <2>6. CASE AlreadySeen(v)
    <3>1. UNCHANGED <<inbox, handled, lostMarks>> /\ v \notin Handled(i) /\ v \notin Handled(i)'
        BY <2>6 DEF AlreadySeen, Done, Handled
    <3>2. CASE v \in Handling(i)'
      <4>1. i \notin inbox
          BY <2>6, <3>2 DEF AlreadySeen, Done, Handling
      <4>2. Handled(i) \cap Handling(i)' = {}
        <5>1. ASSUME NEW w \in Handled(i), w \in Handling(i)' PROVE FALSE
          <6>1. w # v /\ w \in Receivers /\ worker[w] = "mark"
              BY <3>1, <5>1 DEF Handled
          <6>2. QED
              BY <2>6, <5>1, <6>1 DEF AlreadySeen, Done, Handling
        <5>2. QED
            BY <5>1
      <4>3. M + HH <= Cardinality(Receivers)
          BY <4>2, DisjointSubsets, OutboxPumpAssumption DEF Handled, Handling
      <4>4. QED
          BY <2>1, <2>2, <2>3, <2>4, <3>1, <4>1, <4>3
    <3>3. CASE v \notin Handling(i)'
        BY <2>1, <2>2, <2>3, <2>4, <3>1, <3>3
    <3>4. QED
        BY <3>2, <3>3
  <2>7. CASE RunHandler(v)
    <3>1. UNCHANGED <<inbox, lostMarks>> /\ message[v] \in Ids /\ v \notin Handled(i)
        BY <2>7, MessageType DEF RunHandler, Handled
    <3>2. v \notin Handling(i)'
        BY <2>7 DEF RunHandler, Handling
    <3>3. CASE message[v] = i
      <4>1. handled'[i] = handled[i] + 1
          BY <2>7, <3>1, <3>3 DEF RunHandler
      <4>2. v \in Handling(i) /\ v \in Handled(i)'
          BY <2>7, <3>3 DEF RunHandler, Handling, Handled
      <4>3. QED
          BY <2>1, <2>2, <2>3, <2>4, <3>1, <3>2, <4>1, <4>2
    <3>4. CASE message[v] # i
      <4>1. handled'[i] = handled[i]
          BY <2>7, <3>1, <3>4 DEF RunHandler
      <4>2. v \notin Handling(i) /\ v \notin Handled(i)'
          BY <2>7, <3>4 DEF RunHandler, Handling, Handled
      <4>3. QED
          BY <2>1, <2>2, <2>3, <2>4, <3>1, <3>2, <4>1, <4>2
    <3>5. QED
        BY <3>3, <3>4
  <2>8. CASE MarkSeen(v)
    <3>1. UNCHANGED <<handled, lostMarks>> /\ v \notin Handling(i) /\ v \notin Handling(i)'
        BY <2>8 DEF MarkSeen, Done, Handling
    <3>2. i \notin inbox' => i \notin inbox /\ v \notin Handled(i) /\ v \notin Handled(i)'
        BY <2>8 DEF MarkSeen, Done, Handled
    <3>3. QED
        BY <2>1, <2>2, <2>3, <2>4, <3>1, <3>2
  <2>9. CASE ReceiverFails(v)
    <3>1. UNCHANGED <<inbox, handled>> /\ v \notin Handling(i)' /\ v \notin Handled(i)'
        BY <2>9 DEF ReceiverFails, Done, Handling, Handled
    <3>2. CASE v \in Handled(i)
      <4>1. lostMarks'[i] = lostMarks[i] + 1
          BY <2>9, <3>2 DEF ReceiverFails, Handled
      <4>2. QED
          BY <2>1, <2>2, <2>3, <2>4, <3>1, <3>2, <4>1
    <3>3. CASE v \notin Handled(i)
      <4>1. lostMarks'[i] = lostMarks[i]
          BY <2>9, <3>3 DEF ReceiverFails, Handled
      <4>2. QED
          BY <2>1, <2>2, <2>3, <2>4, <3>1, <3>3, <4>1
    <3>4. QED
        BY <3>2, <3>3
  <2>10. ASSUME NEW j \in Ids, Receive(v, j)
         PROVE  /\ i \notin inbox' => handled'[i] <= lostMarks'[i] + Cardinality(Handled(i)')
                /\ handled'[i] + Cardinality(Handling(i)') <= Cardinality(Receivers) + lostMarks'[i]
      BY <2>1, <2>2, <2>3, <2>4, <2>5, <2>10
  <2>11. QED
      BY <2>6, <2>7, <2>8, <2>9, <2>10 DEF ReceiverAction
<1>2. QED
    BY <1>1 DEF RunsInv

LEMMA StepRunsInv == TypeOK /\ RunsInv /\ [Next]_vars => RunsInv'
<1> SUFFICES ASSUME TypeOK, RunsInv, [Next]_vars PROVE RunsInv'
    OBVIOUS
<1>1. CASE UNCHANGED receiverVars
    BY <1>1 DEF RunsInv, Handling, Handled, receiverVars
<1>2. ASSUME NEW S \in SUBSET Ids, CommitRows(S) PROVE UNCHANGED receiverVars
    BY <1>2 DEF CommitRows
<1>3. ASSUME NEW p \in Pumps, PumpAction(p) PROVE UNCHANGED receiverVars
    BY <1>3 DEF PumpAction, SelectBatch, NextRow, EndOfPass, Dispatch, DispatchError,
                DispatchErrorAfterSend, MarkDispatched, MarkError, PumpCrash
<1>4. QED
    BY <1>1, <1>2, <1>3, NextIsAction, ReceiverRunsInv DEF vars

(***************************************************************************)
(* However many copies of an event arrive, the check of lazuli_inbox keeps *)
(* the runs of its handler to one per receiver and one per receiver that   *)
(* failed between the handler and MarkSeen.                                *)
(***************************************************************************)
THEOREM RunsBounded == Spec => []HandledBounded
<1>1. Init => RunsInv
  <2> SUFFICES ASSUME Init PROVE RunsInv
      OBVIOUS
  <2>1. Cardinality(Receivers) \in Nat
      BY OutboxPumpAssumption, FS_CardinalityType
  <2>2. \A i \in Ids : Handling(i) = {} /\ Handled(i) = {}
      BY DEF Init, Handling, Handled
  <2>3. \A i \in Ids : Cardinality(Handling(i)) = 0 /\ Cardinality(Handled(i)) = 0
      BY <2>2, FS_EmptySet
  <2>4. QED
      BY <2>1, <2>3 DEF Init, RunsInv
<1>2. TypeOK /\ RunsInv => HandledBounded
  <2> SUFFICES ASSUME TypeOK, RunsInv, NEW i \in Ids
               PROVE  handled[i] <= Cardinality(Receivers) + lostMarks[i]
      BY DEF HandledBounded
  <2>1. IsFiniteSet(Handling(i))
      BY OutboxPumpAssumption, FS_Subset DEF Handling
  <2>2. Cardinality(Handling(i)) \in Nat /\ Cardinality(Receivers) \in Nat
      BY <2>1, OutboxPumpAssumption, FS_CardinalityType
  <2>3. QED
      BY <2>2 DEF RunsInv, TypeOK
<1>3. QED
    BY <1>1, <1>2, StepRunsInv, PumpTypeCorrect, PTL DEF Spec
=============================================================================
