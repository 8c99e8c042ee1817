---------------------------- MODULE PollerProofs ----------------------------
(***************************************************************************)
(* Proofs about the pollers, for any finite number of loops, any rows and  *)
(* any number of attempts and failures.                                    *)
(***************************************************************************)
EXTENDS Poller, FiniteSetTheorems, TLAPS

(***************************************************************************)
(* Next, action by action.  A quiet action commits and publishes nothing.  *)
(***************************************************************************)
Quiet(p) ==
    \/ SelectEligible(p) \/ NextId(p) \/ EndOfBatch(p) \/ LoadRow(p) \/ ApplyQuirk(p)
    \/ Reload(p) \/ ResolvePending(p) \/ ResolveEmpty(p)
    \/ ResolveTerminal(p) \/ DatabaseError(p) \/ Crash(p)

LEMMA NextIsAction ==
    ASSUME [Next]_vars
    PROVE  \/ \E i \in RowIds : Elapse(i)
           \/ \E p \in Pollers : Quiet(p) \/ CommitPending(p) \/ CommitTerminal(p)
                                 \/ PublishTerminal(p)
           \/ UNCHANGED vars
    BY DEF Next, Step, Failure, IdleTick, Quiet
-----------------------------------------------------------------------------
LEMMA InitTypeOK == Init => TypeOK
    BY PollerAssumption DEF Init, TypeOK

LEMMA QuietTypeOK ==
    ASSUME TypeOK, NEW p \in Pollers, Quiet(p)
    PROVE  TypeOK'
<1> USE DEF TypeOK, Goto, rowVars, loopVars
<1>1. CASE SelectEligible(p)
    BY <1>1 DEF SelectEligible, Eligible
<1>2. CASE NextId(p)
    BY <1>2 DEF NextId
<1>3. CASE EndOfBatch(p) \/ LoadRow(p) \/ ApplyQuirk(p) \/ Reload(p)
    BY <1>3 DEF EndOfBatch, LoadRow, ApplyQuirk, Reload
<1>4. CASE ResolvePending(p) \/ ResolveEmpty(p)
    BY <1>4 DEF ResolvePending, ResolveEmpty, Unfinished
<1>5. CASE ResolveTerminal(p)
    BY <1>5, PollerAssumption DEF ResolveTerminal
<1>6. CASE DatabaseError(p) \/ Crash(p)
    BY <1>6 DEF DatabaseError, Crash
<1>7. QED
    BY <1>1, <1>2, <1>3, <1>4, <1>5, <1>6 DEF Quiet

LEMMA StepTypeOK ==
    ASSUME TypeOK, [Next]_vars
    PROVE  TypeOK'
<1>1. CASE \E i \in RowIds : Elapse(i)
    BY <1>1 DEF Elapse, TypeOK, loopVars
<1>2. ASSUME NEW p \in Pollers, CommitPending(p) PROVE TypeOK'
    BY <1>2 DEF CommitPending, TypeOK, Goto
<1>3. ASSUME NEW p \in Pollers, CommitTerminal(p) PROVE TypeOK'
    BY <1>3 DEF CommitTerminal, TypeOK, Goto
<1>4. ASSUME NEW p \in Pollers, PublishTerminal(p) PROVE TypeOK'
    BY <1>4 DEF PublishTerminal, TypeOK, Goto, rowVars
<1>5. CASE UNCHANGED vars
    BY <1>5 DEF vars, rowVars, loopVars, TypeOK
<1>6. QED
    BY <1>1, <1>2, <1>3, <1>4, <1>5, NextIsAction, QuietTypeOK

(***************************************************************************)
(* The values of the pollers' variables; a loop has a result in hand       *)
(* exactly between the handler and the last publication.                   *)
(***************************************************************************)
THEOREM PollerTypeCorrect == Spec => []TypeOK
<1>1. Init => TypeOK
    BY InitTypeOK
<1>2. TypeOK /\ [Next]_vars => TypeOK'
    BY StepTypeOK
<1>3. QED
    BY <1>1, <1>2, PTL DEF Spec

-----------------------------------------------------------------------------
(***************************************************************************)
(* Announcements.  EmitsFollowTerminal compares two counters and says      *)
(* nothing of the loops on their way to a publication, which the inductive *)
(* invariant counts: before the row is resolved those whose copy is stale, *)
(* since only they may publish what they did not write, and afterwards all *)
(* that still hold the row.                                                *)
(***************************************************************************)
Copied == {"quirk", "reload", "resolve", "pending", "terminal", "publish"}
Busy   == Copied \cup {"load"}

\* Loops whose copy of the row another loop's attempt has overtaken.
Stale(i) == {p \in Pollers : pc[p] \in Copied /\ current[p] = i /\ seen[p] < attempts[i]}

\* Loops that have the row in their batch or in hand.
Holders(i) == {p \in Pollers : i \in batch[p] \/ (pc[p] \in Busy /\ current[p] = i)}

BatchInv ==
    \A p \in Pollers : /\ pc[p] = "idle" => batch[p] = {}
                       /\ pc[p] \in Busy => current[p] \notin batch[p]

SeenInv ==
    \A p \in Pollers : pc[p] \in Copied => seen[p] <= attempts[current[p]]

PublishInv ==
    \A p \in Pollers :
        pc[p] = "publish" => current[p] \in resolved \/ seen[p] < attempts[current[p]]

Loops == Cardinality(Pollers)

EmitsPart(i) ==
    IF i \in resolved
    THEN published[i] + Cardinality(Holders(i)) <= attempts[i] * (Loops - 1) + Loops
    ELSE published[i] + Cardinality(Stale(i)) <= attempts[i] * (Loops - 1)

EmitsInv == \A i \in RowIds : EmitsPart(i)

IndInv == TypeOK /\ BatchInv /\ SeenInv /\ PublishInv /\ EmitsInv

LEMMA LoopsType ==
    /\ Loops \in Nat
    /\ \A S \in SUBSET Pollers : IsFiniteSet(S) /\ Cardinality(S) \in 0..Loops
<1>1. Loops \in Nat
    BY PollerAssumption, FS_CardinalityType DEF Loops
<1>2. ASSUME NEW S \in SUBSET Pollers
      PROVE  IsFiniteSet(S) /\ Cardinality(S) \in 0..Loops
  <2>1. IsFiniteSet(S) /\ Cardinality(S) <= Loops
      BY PollerAssumption, FS_Subset DEF Loops
  <2>2. Cardinality(S) \in Nat
      BY <2>1, FS_CardinalityType
  <2>3. QED
      BY <1>1, <2>1, <2>2
<1>3. QED
    BY <1>1, <1>2

LEMMA SmallerSet ==
    ASSUME NEW T \in SUBSET Pollers, NEW S \in SUBSET T
    PROVE  Cardinality(S) <= Cardinality(T)
    BY LoopsType, FS_Subset

LEMMA WithoutOne ==
    ASSUME NEW T \in SUBSET Pollers, NEW p \in T, NEW S \in SUBSET T, p \notin S
    PROVE  Cardinality(S) <= Cardinality(T) - 1
<1>1. S \in SUBSET (T \ {p}) /\ T \ {p} \in SUBSET Pollers
    OBVIOUS
<1>2. Cardinality(T \ {p}) = Cardinality(T) - 1
    BY LoopsType, FS_RemoveElement
<1>3. QED
    BY <1>1, <1>2, SmallerSet

LEMMA SetsOfLoops ==
    ASSUME NEW i
    PROVE  /\ Stale(i) \in SUBSET Pollers /\ Holders(i) \in SUBSET Pollers
           /\ Stale(i)' \in SUBSET Pollers /\ Holders(i)' \in SUBSET Pollers
    BY DEF Stale, Holders

\* (a + 1) * n = a * n + n, and products of naturals are naturals.
LEMMA Products ==
    ASSUME NEW a \in Nat, NEW n \in Int
    PROVE  a * n \in Int /\ (a + 1) * n = a * n + n
    OBVIOUS
-----------------------------------------------------------------------------
LEMMA InitInd == Init => IndInv
<1> SUFFICES ASSUME Init PROVE IndInv
    OBVIOUS
<1>1. TypeOK
    BY InitTypeOK
<1>2. BatchInv /\ SeenInv /\ PublishInv
    BY DEF Init, BatchInv, SeenInv, PublishInv, Busy, Copied
<1>3. ASSUME NEW i \in RowIds PROVE EmitsPart(i)
  <2>1. Stale(i) = {}
      BY DEF Init, Stale, Copied
  <2>2. Cardinality(Stale(i)) = 0
      BY <2>1, FS_EmptySet
  <2>3. published[i] = 0 /\ attempts[i] = 0 /\ i \notin resolved
      BY DEF Init
  <2>4. 0 * (Loops - 1) = 0
      BY LoopsType
  <2>5. QED
      BY <2>2, <2>3, <2>4 DEF EmitsPart
<1>4. QED
    BY <1>1, <1>2, <1>3 DEF IndInv, EmitsInv

LEMMA BatchStep ==
    ASSUME TypeOK, BatchInv, NEW p \in Pollers,
           Quiet(p) \/ CommitPending(p) \/ CommitTerminal(p) \/ PublishTerminal(p)
    PROVE  BatchInv'
<1> USE DEF TypeOK, BatchInv, Busy, Copied, Goto
<1>1. CASE SelectEligible(p) \/ NextId(p) \/ EndOfBatch(p) \/ LoadRow(p)
    BY <1>1 DEF SelectEligible, NextId, EndOfBatch, LoadRow
<1>2. CASE ApplyQuirk(p) \/ Reload(p) \/ ResolvePending(p)
           \/ ResolveEmpty(p) \/ ResolveTerminal(p)
    BY <1>2 DEF ApplyQuirk, Reload, ResolvePending, ResolveEmpty, Unfinished,
       ResolveTerminal
<1>3. CASE DatabaseError(p) \/ Crash(p)
    BY <1>3 DEF DatabaseError, Crash
<1>4. CASE CommitPending(p) \/ CommitTerminal(p) \/ PublishTerminal(p)
    BY <1>4 DEF CommitPending, CommitTerminal, PublishTerminal
<1>5. QED
    BY <1>1, <1>2, <1>3, <1>4 DEF Quiet

LEMMA SeenStep ==
    ASSUME TypeOK, SeenInv, NEW p \in Pollers,
           Quiet(p) \/ CommitPending(p) \/ CommitTerminal(p) \/ PublishTerminal(p)
    PROVE  SeenInv'
<1> USE DEF TypeOK, SeenInv, Copied, Goto, rowVars
<1>1. CASE SelectEligible(p) \/ NextId(p) \/ EndOfBatch(p) \/ LoadRow(p)
    BY <1>1 DEF SelectEligible, NextId, EndOfBatch, LoadRow
<1>2. CASE ApplyQuirk(p) \/ Reload(p) \/ ResolvePending(p)
           \/ ResolveEmpty(p) \/ ResolveTerminal(p)
    BY <1>2 DEF ApplyQuirk, Reload, ResolvePending, ResolveEmpty, Unfinished,
       ResolveTerminal
<1>3. CASE DatabaseError(p) \/ Crash(p)
    BY <1>3 DEF DatabaseError, Crash
<1>4. CASE CommitPending(p)
    BY <1>4 DEF CommitPending
<1>5. CASE CommitTerminal(p) \/ PublishTerminal(p)
    BY <1>5 DEF CommitTerminal, PublishTerminal
<1>6. QED
    BY <1>1, <1>2, <1>3, <1>4, <1>5 DEF Quiet

LEMMA PublishStep ==
    ASSUME TypeOK, SeenInv, PublishInv, NEW p \in Pollers,
           Quiet(p) \/ CommitPending(p) \/ CommitTerminal(p) \/ PublishTerminal(p)
    PROVE  PublishInv'
<1> USE DEF TypeOK, PublishInv, Goto, rowVars
<1>1. CASE SelectEligible(p) \/ NextId(p) \/ EndOfBatch(p) \/ LoadRow(p)
    BY <1>1 DEF SelectEligible, NextId, EndOfBatch, LoadRow
<1>2. CASE ApplyQuirk(p) \/ Reload(p) \/ ResolvePending(p)
           \/ ResolveEmpty(p) \/ ResolveTerminal(p)
    BY <1>2 DEF ApplyQuirk, Reload, ResolvePending, ResolveEmpty, Unfinished,
       ResolveTerminal
<1>3. CASE DatabaseError(p) \/ Crash(p)
    BY <1>3 DEF DatabaseError, Crash
<1>4. CASE CommitPending(p)
    BY <1>4 DEF CommitPending
<1>5. CASE CommitTerminal(p)
    BY <1>5 DEF CommitTerminal, SeenInv, Copied
<1>6. CASE PublishTerminal(p)
    BY <1>6 DEF PublishTerminal
<1>7. QED
    BY <1>1, <1>2, <1>3, <1>4, <1>5, <1>6 DEF Quiet
-----------------------------------------------------------------------------
(***************************************************************************)
(* A step that publishes nothing, resolves nothing and leaves the attempts *)
(* of a row alone keeps its part of EmitsInv if the counted loops become   *)
(* no more.                                                                *)
(***************************************************************************)
LEMMA NoMoreLoops ==
    ASSUME TypeOK, TypeOK', NEW i \in RowIds, EmitsPart(i),
           published'[i] = published[i], attempts'[i] = attempts[i],
           i \in resolved' <=> i \in resolved,
           i \notin resolved => Stale(i)' \subseteq Stale(i),
           i \in resolved => Holders(i)' \subseteq Holders(i)
    PROVE  EmitsPart(i)'
<1> USE SetsOfLoops, LoopsType, Products DEF EmitsPart, TypeOK
<1>1. Loops' = Loops
    BY DEF Loops
<1>2. CASE i \in resolved
  <2>1. Cardinality(Holders(i)') <= Cardinality(Holders(i))
      BY <1>2, SmallerSet
  <2>2. QED
      BY <1>1, <1>2, <2>1
<1>3. CASE i \notin resolved
  <2>1. Cardinality(Stale(i)') <= Cardinality(Stale(i))
      BY <1>3, SmallerSet
  <2>2. QED
      BY <1>1, <1>3, <2>1
<1>4. QED
    BY <1>2, <1>3

LEMMA QuietStep ==
    ASSUME TypeOK, BatchInv, EmitsInv, NEW p \in Pollers, Quiet(p)
    PROVE  EmitsInv'
<1>1. TypeOK'
    BY QuietTypeOK
<1>2. UNCHANGED <<published, attempts, resolved>>
    BY DEF Quiet, SelectEligible, NextId, EndOfBatch, LoadRow, ApplyQuirk, Reload,
       ResolvePending, ResolveEmpty, Unfinished, ResolveTerminal, DatabaseError, Crash, rowVars
<1>3. ASSUME NEW i \in RowIds PROVE Stale(i)' \subseteq Stale(i)
  <2> USE <1>2 DEF Stale, Copied, TypeOK, Goto
  <2>1. CASE SelectEligible(p) \/ NextId(p) \/ EndOfBatch(p) \/ LoadRow(p)
      BY <2>1 DEF SelectEligible, NextId, EndOfBatch, LoadRow
  <2>2. CASE ApplyQuirk(p) \/ Reload(p)
      BY <2>2 DEF ApplyQuirk, Reload
  <2>3. CASE ResolvePending(p) \/ ResolveEmpty(p) \/ ResolveTerminal(p)
      BY <2>3 DEF ResolvePending, ResolveEmpty, Unfinished, ResolveTerminal
  <2>4. CASE DatabaseError(p) \/ Crash(p)
      BY <2>4 DEF DatabaseError, Crash
  <2>5. QED
      BY <2>1, <2>2, <2>3, <2>4 DEF Quiet
<1>4. ASSUME NEW i \in resolved PROVE Holders(i)' \subseteq Holders(i)
  <2> USE <1>2, <1>4 DEF Holders, Busy, Copied, TypeOK, Goto
  <2>1. CASE SelectEligible(p)
      BY <2>1 DEF SelectEligible, Eligible
  <2>2. CASE NextId(p) \/ EndOfBatch(p) \/ LoadRow(p)
      BY <2>2 DEF NextId, EndOfBatch, LoadRow
  <2>3. CASE ApplyQuirk(p) \/ Reload(p)
      BY <2>3 DEF ApplyQuirk, Reload
  <2>4. CASE ResolvePending(p) \/ ResolveEmpty(p) \/ ResolveTerminal(p)
      BY <2>4 DEF ResolvePending, ResolveEmpty, Unfinished, ResolveTerminal
  <2>5. CASE DatabaseError(p) \/ Crash(p)
      BY <2>5 DEF DatabaseError, Crash
  <2>6. QED
      BY <2>1, <2>2, <2>3, <2>4, <2>5 DEF Quiet
<1>5. QED
    BY <1>1, <1>2, <1>3, <1>4, NoMoreLoops DEF EmitsInv

\* An attempt makes every copy but that of its own loop stale.
LEMMA CommitPendingStep ==
    ASSUME TypeOK, EmitsInv, NEW p \in Pollers, CommitPending(p)
    PROVE  EmitsInv'
<1>1. TypeOK'
    BY StepTypeOK DEF Next, Step
<1>2. UNCHANGED <<published, resolved, current, seen, batch>> /\ pc' = [pc EXCEPT ![p] = "next"]
    BY DEF CommitPending, Goto
<1>h. ASSUME NEW i \in RowIds PROVE Holders(i)' \subseteq Holders(i)
    BY <1>2 DEF Holders, Busy, Copied, TypeOK
<1>3. ASSUME NEW i \in RowIds, attempts'[i] = attempts[i] PROVE EmitsPart(i)'
  <2>1. Stale(i)' \subseteq Stale(i)
      BY <1>2, <1>3 DEF Stale, Copied, TypeOK
  <2>2. QED
      BY <1>1, <1>2, <1>3, <1>h, <2>1, NoMoreLoops DEF EmitsInv
<1>4. ASSUME NEW i \in RowIds, attempts'[i] # attempts[i] PROVE EmitsPart(i)'
  <2> USE SetsOfLoops, LoopsType DEF TypeOK
  <2>1. i = current[p] /\ attempts'[i] = attempts[i] + 1
      BY <1>4 DEF CommitPending
  <2>2. attempts'[i] * (Loops - 1) = attempts[i] * (Loops - 1) + (Loops - 1)
      BY <2>1, Products
  <2>3. Loops' = Loops /\ attempts[i] * (Loops - 1) \in Int
      BY Products DEF Loops
  <2>4. Loops >= 1
      BY WithoutOne, LoopsType, FS_EmptySet, SmallerSet DEF Loops
  <2>5. CASE i \in resolved
    <3>1. Cardinality(Holders(i)') <= Cardinality(Holders(i))
        BY <1>h, SmallerSet
    <3>2. QED
        BY <1>1, <1>2, <2>2, <2>3, <2>4, <2>5, <3>1 DEF EmitsInv, EmitsPart
  <2>6. CASE i \notin resolved
    <3>1. p \notin Stale(i)'
        BY <1>2 DEF Stale, Copied
    <3>2. Cardinality(Stale(i)') <= Loops - 1
        BY <3>1, WithoutOne DEF Loops
    <3>3. published[i] <= attempts[i] * (Loops - 1)
        BY <2>3, <2>6 DEF EmitsInv, EmitsPart
    <3>4. QED
        BY <1>1, <1>2, <2>2, <2>3, <2>6, <3>2, <3>3 DEF EmitsPart
  <2>7. QED
      BY <2>5, <2>6
<1>5. QED
    BY <1>3, <1>4 DEF EmitsInv

\* A resolution: from here on every loop that holds the row is counted.
LEMMA CommitTerminalStep ==
    ASSUME TypeOK, EmitsInv, NEW p \in Pollers, CommitTerminal(p)
    PROVE  EmitsInv'
<1>1. TypeOK'
    BY StepTypeOK DEF Next, Step
<1>2. /\ UNCHANGED <<published, attempts, current, seen, batch>>
      /\ pc' = [pc EXCEPT ![p] = "publish"] /\ pc[p] = "terminal"
      /\ resolved \subseteq resolved'
    BY DEF CommitTerminal, Goto
<1>3. ASSUME NEW i \in RowIds, i \in resolved' <=> i \in resolved PROVE EmitsPart(i)'
  <2>1. Stale(i)' \subseteq Stale(i) /\ Holders(i)' \subseteq Holders(i)
      BY <1>2 DEF Stale, Holders, Busy, Copied, TypeOK
  <2>2. QED
      BY <1>1, <1>2, <1>3, <2>1, NoMoreLoops DEF EmitsInv
<1>4. ASSUME NEW i \in RowIds, i \in resolved', i \notin resolved PROVE EmitsPart(i)'
  <2> USE SetsOfLoops, LoopsType DEF TypeOK
  <2>1. Loops' = Loops /\ attempts[i] * (Loops - 1) \in Int
      BY Products DEF Loops
  <2>2. published[i] <= attempts[i] * (Loops - 1)
      BY <1>4, <2>1 DEF EmitsInv, EmitsPart
  <2>3. Cardinality(Holders(i)') <= Loops
      OBVIOUS
  <2>4. QED
      BY <1>1, <1>2, <1>4, <2>1, <2>2, <2>3 DEF EmitsPart
<1>5. QED
    BY <1>2, <1>3, <1>4 DEF EmitsInv

\* The publishing loop was counted, and is no longer.
LEMMA PublishTerminalStep ==
    ASSUME TypeOK, BatchInv, PublishInv, EmitsInv, NEW p \in Pollers, PublishTerminal(p)
    PROVE  EmitsInv'
<1>1. TypeOK'
    BY StepTypeOK DEF Next, Step
<1>2. /\ UNCHANGED <<attempts, resolved, current, seen, batch>>
      /\ pc' = [pc EXCEPT ![p] = "next"] /\ pc[p] = "publish"
      /\ published' = [published EXCEPT ![current[p]] = @ + 1]
    BY DEF PublishTerminal, Goto, rowVars
<1>s. ASSUME NEW i \in RowIds
      PROVE  Stale(i)' \subseteq Stale(i) /\ Holders(i)' \subseteq Holders(i)
    BY <1>2 DEF Stale, Holders, Busy, Copied, TypeOK
<1>3. ASSUME NEW i \in RowIds, i # current[p] PROVE EmitsPart(i)'
  <2>1. published'[i] = published[i]
      BY <1>2, <1>3 DEF TypeOK
  <2>2. QED
      BY <1>1, <1>2, <1>s, <2>1, NoMoreLoops DEF EmitsInv
<1>4. ASSUME NEW i \in RowIds, i = current[p] PROVE EmitsPart(i)'
  <2> USE SetsOfLoops, LoopsType DEF TypeOK
  <2>1. Loops' = Loops /\ attempts[i] * (Loops - 1) \in Int
      BY Products DEF Loops
  <2>2. published'[i] = published[i] + 1
      BY <1>2, <1>4
  <2>3. CASE i \in resolved
    <3>1. p \in Holders(i) /\ p \notin Holders(i)'
        BY <1>2, <1>4 DEF Holders, BatchInv, Busy, Copied
    <3>2. Cardinality(Holders(i)') <= Cardinality(Holders(i)) - 1
        BY <3>1, <1>s, WithoutOne
    <3>3. QED
        BY <1>1, <1>2, <2>1, <2>2, <2>3, <3>2 DEF EmitsInv, EmitsPart
  <2>4. CASE i \notin resolved
    <3>1. p \in Stale(i) /\ p \notin Stale(i)'
        BY <1>2, <1>4, <2>4 DEF Stale, PublishInv, Copied
    <3>2. Cardinality(Stale(i)') <= Cardinality(Stale(i)) - 1
        BY <3>1, <1>s, WithoutOne
    <3>3. QED
        BY <1>1, <1>2, <2>1, <2>2, <2>4, <3>2 DEF EmitsInv, EmitsPart
  <2>5. QED
      BY <2>3, <2>4
<1>5. QED
    BY <1>3, <1>4 DEF EmitsInv
-----------------------------------------------------------------------------
LEMMA IndStep ==
    ASSUME IndInv, [Next]_vars
    PROVE  IndInv'
<1> USE DEF IndInv
<1>1. TypeOK'
    BY StepTypeOK
<1>2. ASSUME NEW p \in Pollers,
             Quiet(p) \/ CommitPending(p) \/ CommitTerminal(p) \/ PublishTerminal(p)
      PROVE  IndInv'
  <2>1. BatchInv' /\ SeenInv' /\ PublishInv'
      BY <1>2, BatchStep, SeenStep, PublishStep
  <2>2. EmitsInv'
      BY <1>2, QuietStep, CommitPendingStep, CommitTerminalStep, PublishTerminalStep
  <2>3. QED
      BY <1>1, <2>1, <2>2
<1>3. CASE (\E i \in RowIds : Elapse(i)) \/ UNCHANGED vars
  <2>1. UNCHANGED <<attempts, resolved, pc, batch, current, seen, published>>
      BY <1>3 DEF Elapse, vars, rowVars, loopVars
  <2>2. BatchInv' /\ SeenInv' /\ PublishInv'
      BY <2>1 DEF BatchInv, SeenInv, PublishInv
  <2>3. \A i \in RowIds : Stale(i)' = Stale(i) /\ Holders(i)' = Holders(i)
      BY <2>1 DEF Stale, Holders
  <2>4. EmitsInv'
      BY <1>1, <2>1, <2>3, NoMoreLoops DEF EmitsInv
  <2>5. QED
      BY <1>1, <2>2, <2>4
<1>4. QED
    BY <1>2, <1>3, NextIsAction

(***************************************************************************)
(* How often the terminal events of a row are published, though no loop    *)
(* looks at whether its commit took effect: not before another loop's      *)
(* attempt has overtaken a copy or the row is resolved, and then at most   *)
(* once per overtaken copy and once per loop.                              *)
(***************************************************************************)
THEOREM AnnouncementsBounded == Spec => []EmitsFollowTerminal
<1>1. Init => IndInv
    BY InitInd
<1>2. IndInv /\ [Next]_vars => IndInv'
    BY IndStep
<1>3. IndInv => EmitsFollowTerminal
  <2> SUFFICES ASSUME IndInv, NEW i \in RowIds
               PROVE  published[i] <= attempts[i] * (Loops - 1)
                                      + (IF i \in resolved THEN Loops ELSE 0)
      BY DEF EmitsFollowTerminal, Loops
  <2>1. attempts[i] * (Loops - 1) \in Int /\ published[i] \in Nat
      BY Products, LoopsType DEF IndInv, TypeOK
  <2>2. QED
      BY <2>1, SetsOfLoops, LoopsType DEF IndInv, EmitsInv, EmitsPart
<1>4. QED
    BY <1>1, <1>2, <1>3, PTL DEF Spec
=============================================================================
