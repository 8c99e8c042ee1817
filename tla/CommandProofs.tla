--------------------------- MODULE CommandProofs ---------------------------
(***************************************************************************)
(* Proofs about the command pipeline (CommandTx), for any requests, rows   *)
(* and commands; then about the whole path of a guaranteed event, from the *)
(* transaction that inserts its row to the handler (CommandOutbox), for    *)
(* any pumps, receivers and failures.  The inductive invariant of the      *)
(* pipeline and the order of the ids hold of the composed system too.      *)
(***************************************************************************)
EXTENDS CommandOutbox, TLAPS

(***************************************************************************)
(* Next, action by action; each proof below splits along it.               *)
(***************************************************************************)
ActionOf(r) ==
    \/ Admit(r) \/ Reject(r) \/ ApplyReturns(r) \/ Begin(r)
    \/ \E w \in Rows : LockRow(r, w)
    \/ LockLifecycleTransition(r) \/ ApplyEffect(r)
    \/ AdvanceLifecycleTransition(r) \/ WriteOutboxRow(r)
    \/ WriteAuditRow(r) \/ WriteAuditMaterializeRow(r)
    \/ \E answer \in {"publish", "error"} : Commit(r, answer)
    \/ PublishEmits(r) \/ InvalidateQueries(r)
    \/ RetryAfterBackoff(r) \/ CancelInBackoff(r) \/ Crash(r)
    \/ \E retryable \in BOOLEAN : Rollback(r, retryable) /\ pc[r] \in InTx

(***************************************************************************)
(* Every step of Next is one of these actions of some request: a deadlock  *)
(* victim waits inside its transaction, so its rollback is one of them.    *)
(***************************************************************************)
LEMMA NextIsAction ==
    Next => UNCHANGED vars \/ \E r \in Requests : ActionOf(r)
<1> SUFFICES ASSUME Next
             PROVE  UNCHANGED vars \/ \E r \in Requests : ActionOf(r)
    OBVIOUS
<1>1. CASE Quiescent
    BY <1>1 DEF Quiescent
<1>2. ASSUME NEW r \in Requests, Step(r) \/ Failure(r)
      PROVE  ActionOf(r)
  <2>1. CASE DeadlockVictim(r)
    <3>1. pc[r] \in InTx
        BY <2>1 DEF DeadlockVictim, Deadlocked, WaitsFor, Wanted, InTx
    <3>2. QED
        BY <2>1, <3>1 DEF DeadlockVictim, ActionOf
  <2>2. CASE \E retryable \in BOOLEAN : StatementError(r, retryable)
      BY <2>2 DEF StatementError, ActionOf
  <2>3. QED
      BY <1>2, <2>1, <2>2 DEF Step, Failure, ActionOf
<1>3. QED
    BY <1>1, <1>2 DEF Next

LEMMA InitTypeOK == Init => TypeOK
<1> SUFFICES ASSUME Init PROVE TypeOK
    OBVIOUS
<1> USE CommandTxAssumption
<1>1. EmptyTx \in Tx
    BY DEF EmptyTx, Tx, ZeroRow, RowVal
<1>2. rows \in [Rows -> RowVal]
    BY DEF Init, RowVal
<1>3. QED
    BY <1>1, <1>2 DEF Init, TypeOK, PCs

LEMMA EmptyTxType == EmptyTx \in Tx
    BY CommandTxAssumption DEF EmptyTx, Tx, ZeroRow, RowVal

LEMMA NewImageType ==
    ASSUME TypeOK, NEW r \in Requests, NEW w \in Rows
    PROVE  NewImage(r, w) \in RowVal
<1>1. rows[w] \in RowVal
    BY DEF TypeOK
<1>2. QED
    BY <1>1, CommandTxAssumption DEF NewImage, RowVal

LEMMA ReturnedType ==
    ASSUME TypeOK, NEW r \in Requests
    PROVE  Returned(r) \in RowVal
<1>1. ZeroRow \in RowVal
    BY CommandTxAssumption DEF ZeroRow, RowVal
<1>2. ASSUME cmd[r].effect # "reorder"
      PROVE  (CHOOSE w \in cmd[r].targets : TRUE) \in Rows
  <2>1. PICK w \in Rows : cmd[r].targets = {w}
      BY <1>2, CommandTxAssumption DEF TypeOK
  <2>2. QED
      BY <2>1
<1>3. QED
    BY <1>1, <1>2, NewImageType DEF Returned

LEMMA RollbackType ==
    ASSUME TypeOK, NEW r \in Requests, NEW retryable \in BOOLEAN,
           Rollback(r, retryable)
    PROVE  TypeOK'
BY EmptyTxType DEF TypeOK, Rollback, Goto, Unlocked, PCs, Terminal, db, post

(* A request backs off only while withTx has an attempt left for it. *)
BackoffInv == \A r \in Requests : pc[r] = "backoff" => attempt[r] < MaxAttempts - 1

LEMMA StepBackoffInv ==
    ASSUME TypeOK, BackoffInv, NEW r \in Requests, ActionOf(r)
    PROVE  BackoffInv'
<1> USE DEF Goto, db, post, BackoffInv, TypeOK
<1>1. CASE RetryAfterBackoff(r)
    BY <1>1 DEF RetryAfterBackoff
<1>2. ASSUME NEW retryable \in BOOLEAN, Rollback(r, retryable)
      PROVE  BackoffInv'
    BY <1>2 DEF Rollback
<1>3. CASE UNCHANGED attempt /\ \E l : l # "backoff" /\ Goto(r, l)
    BY <1>3
<1>4. CASE UNCHANGED <<attempt, pc>>
    BY <1>4
<1>5. CASE LockLifecycleTransition(r) \/ ApplyEffect(r)
    BY <1>5, <1>2, <1>3 DEF LockLifecycleTransition, ApplyEffect, AfterEffect,
       AfterAdvance, AfterOutbox
<1>6. QED
    BY <1>1, <1>2, <1>3, <1>4, <1>5
    DEF ActionOf, Admit, Reject, ApplyReturns, Begin, AfterBegin, LockRow,
        AdvanceLifecycleTransition, AfterAdvance, AfterOutbox, WriteOutboxRow,
        WriteAuditRow, AfterAudit, WriteAuditMaterializeRow, AfterMaterialize,
        Commit, PublishEmits, AfterPublish, InvalidateQueries, CancelInBackoff, Crash

(* No step leaves the types. *)
LEMMA StepTypeOK ==
    ASSUME TypeOK, BackoffInv, NEW r \in Requests, ActionOf(r)
    PROVE  TypeOK'
<1> USE CommandTxAssumption
<1> USE DEF Goto, PCs, InTx, Terminal, db, post
<1>c. cmd[r] \in Command
    BY DEF TypeOK
<1>t. tx[r] \in Tx
    BY DEF TypeOK
<1>1. CASE Admit(r)
    BY <1>1 DEF Admit, TypeOK
<1>2. CASE Reject(r)
    BY <1>2 DEF Reject, TypeOK
<1>3. CASE ApplyReturns(r)
    BY <1>3 DEF ApplyReturns, TypeOK
<1>4. CASE Begin(r)
    BY <1>4 DEF Begin, AfterBegin, TypeOK
<1>5. CASE \E w \in Rows : LockRow(r, w)
    BY <1>5 DEF LockRow, TypeOK
<1>6. CASE LockLifecycleTransition(r)
  <2>1. CASE GuardHolds(r)
      BY <1>6, <2>1 DEF LockLifecycleTransition, TypeOK
  <2>2. CASE ~GuardHolds(r)
      BY <1>6, <2>2, RollbackType DEF LockLifecycleTransition
  <2>3. QED
      BY <2>1, <2>2
<1>7. CASE ApplyEffect(r)
  <2>1. CASE EffectMatches(r)
    <3>1. Written(r) \in SUBSET Rows
        BY <1>c DEF Written, Command
    <3>2. [w \in Rows |-> IF w \in Written(r) THEN NewImage(r, w) ELSE rows[w]]
              \in [Rows -> RowVal]
        BY NewImageType DEF TypeOK
    <3> DEFINE t == [tx[r] EXCEPT !.dirty = Written(r),
                                  !.image = [w \in Rows |-> IF w \in Written(r)
                                                            THEN NewImage(r, w)
                                                            ELSE rows[w]],
                                  !.out = Returned(r)]
    <3>t. t \in Tx
        BY <1>t, <3>1, <3>2, ReturnedType DEF Tx
    <3>3. tx' \in [Requests -> Tx]
      <4>1. tx' = [tx EXCEPT ![r] = t]
          BY <1>7, <2>1 DEF ApplyEffect
      <4>2. QED
          BY <4>1, <3>t DEF TypeOK
    <3>4. AfterEffect(cmd[r]) \in PCs
        BY DEF AfterEffect, AfterAdvance, AfterOutbox, PCs, InTx
    <3>5. /\ pc' = [pc EXCEPT ![r] = AfterEffect(cmd[r])]
          /\ UNCHANGED <<cmd, attempt, lock, nextId, db, post>>
        BY <1>7, <2>1 DEF ApplyEffect, Goto
    <3>6. QED
        BY <3>3, <3>4, <3>5 DEF TypeOK, db, post
  <2>2. CASE ~EffectMatches(r)
      BY <1>7, <2>2, RollbackType DEF ApplyEffect
  <2>3. QED
      BY <2>1, <2>2
<1>8. CASE AdvanceLifecycleTransition(r)
  <2>1. \A w \in Rows : [tx[r].image[w] EXCEPT !.state = cmd[r].to] \in RowVal
      BY <1>c, <1>t DEF Tx, RowVal, Command
  <2>2. [w \in Rows |-> IF w \in cmd[r].targets
                        THEN [tx[r].image[w] EXCEPT !.state = cmd[r].to]
                        ELSE tx[r].image[w]] \in [Rows -> RowVal]
      BY <2>1, <1>t DEF Tx
  <2>3. tx[r].dirty \cup cmd[r].targets \in SUBSET Rows
      BY <1>c, <1>t DEF Tx, Command
  <2>4. tx' \in [Requests -> Tx]
      BY <1>8, <1>t, <2>2, <2>3 DEF AdvanceLifecycleTransition, TypeOK, Tx
  <2>5. QED
      BY <1>8, <2>4 DEF AdvanceLifecycleTransition, AfterAdvance, AfterOutbox, TypeOK
<1>9. CASE WriteOutboxRow(r)
  <2>1. [id |-> nextId, req |-> r, emit |-> tx[r].n + 1, payload |-> tx[r].out] \in OutboxRow
      BY <1>t DEF TypeOK, Tx, OutboxRow
  <2> DEFINE x == [id |-> nextId, req |-> r, emit |-> tx[r].n + 1, payload |-> tx[r].out]
             t == [tx[r] EXCEPT !.n = tx[r].n + 1, !.inserted = tx[r].inserted \cup {x}]
  <2>t. t \in Tx
    <3>1. /\ tx[r].n + 1 \in Nat
          /\ tx[r].inserted \cup {x} \in SUBSET OutboxRow
        BY <1>t, <2>1 DEF Tx
    <3> HIDE DEF x
    <3>2. QED
        BY <1>t, <3>1 DEF Tx
  <2>2. tx' \in [Requests -> Tx]
    <3>1. tx' = [tx EXCEPT ![r] = t]
        BY <1>9 DEF WriteOutboxRow
    <3>2. QED
        BY <3>1, <2>t DEF TypeOK
  <2>3. QED
      BY <1>9, <2>2 DEF WriteOutboxRow, AfterOutbox, TypeOK
<1>10. CASE WriteAuditRow(r)
  <2>t. [tx[r] EXCEPT !.audit = 1] \in Tx
      BY <1>t DEF Tx
  <2>1. tx' \in [Requests -> Tx]
    <3>1. tx' = [tx EXCEPT ![r] = [tx[r] EXCEPT !.audit = 1]]
        BY <1>10 DEF WriteAuditRow
    <3>2. QED
        BY <3>1, <2>t DEF TypeOK
  <2>2. QED
      BY <1>10, <2>1 DEF WriteAuditRow, AfterAudit, TypeOK
<1>11. CASE WriteAuditMaterializeRow(r)
  <2>t. [tx[r] EXCEPT !.oplog = 1] \in Tx
      BY <1>t DEF Tx
  <2>1. tx' \in [Requests -> Tx]
    <3>1. tx' = [tx EXCEPT ![r] = [tx[r] EXCEPT !.oplog = 1]]
        BY <1>11 DEF WriteAuditMaterializeRow
    <3>2. QED
        BY <3>1, <2>t DEF TypeOK
  <2>2. QED
      BY <1>11, <2>1 DEF WriteAuditMaterializeRow, AfterMaterialize, TypeOK
<1>12. ASSUME NEW answer \in {"publish", "error"}, Commit(r, answer)
       PROVE  TypeOK'
  <2>1. rows' \in [Rows -> RowVal]
      BY <1>12, <1>t DEF Commit, TypeOK, Tx
  <2>2. outbox' \subseteq OutboxRow
      BY <1>12, <1>t DEF Commit, TypeOK, Tx
  <2>3. /\ audit' \in [Requests -> Nat]
        /\ oplog' \in [Requests -> Nat]
        /\ commits' \in [Requests -> Nat]
      BY <1>12, <1>t DEF Commit, TypeOK, Tx
  <2>4. /\ tx' \in [Requests -> Tx]
        /\ lock' \in [Rows -> Requests \cup {NoRequest}]
        /\ pc' \in [Requests -> PCs]
      BY <1>12, EmptyTxType DEF Commit, Unlocked, TypeOK
  <2>5. QED
      BY <1>12, <2>1, <2>2, <2>3, <2>4 DEF Commit, TypeOK
<1>13. CASE PublishEmits(r)
  <2>1. published' \subseteq published \cup {r}
      BY <1>13 DEF PublishEmits
  <2>2. QED
      BY <1>13, <2>1 DEF PublishEmits, AfterPublish, TypeOK
<1>14. CASE InvalidateQueries(r)
    BY <1>14 DEF InvalidateQueries, TypeOK
<1>15. CASE RetryAfterBackoff(r)
    BY <1>15 DEF RetryAfterBackoff, BackoffInv, TypeOK
<1>16. CASE CancelInBackoff(r)
    BY <1>16 DEF CancelInBackoff, TypeOK
<1>17. CASE Crash(r)
    BY <1>17, EmptyTxType DEF Crash, Unlocked, TypeOK
<1>18. ASSUME NEW retryable \in BOOLEAN, Rollback(r, retryable)
       PROVE  TypeOK'
    BY <1>18, RollbackType
<1>19. QED
    BY <1>1, <1>2, <1>3, <1>4, <1>5, <1>6, <1>7, <1>8, <1>9, <1>10, <1>11,
       <1>12, <1>13, <1>14, <1>15, <1>16, <1>17, <1>18 DEF ActionOf

(***************************************************************************)
(* Type correctness of the command pipeline; in particular withTx never    *)
(* starts an attempt beyond MaxAttempts, for any number of requests.       *)
(***************************************************************************)
THEOREM TypeCorrect == Spec => []TypeOK
<1>1. Init => TypeOK /\ BackoffInv
    BY InitTypeOK DEF Init, BackoffInv
<1>2. TypeOK /\ BackoffInv /\ [Next]_vars => (TypeOK /\ BackoffInv)'
  <2> SUFFICES ASSUME TypeOK, BackoffInv, [Next]_vars
               PROVE  TypeOK' /\ BackoffInv'
      OBVIOUS
  <2>1. CASE UNCHANGED vars
      BY <2>1 DEF vars, TypeOK, BackoffInv
  <2>2. CASE \E r \in Requests : ActionOf(r)
      BY <2>2, StepTypeOK, StepBackoffInv
  <2>3. QED
      BY <2>1, <2>2, NextIsAction
<1>3. QED
    BY <1>1, <1>2, PTL DEF Spec
-----------------------------------------------------------------------------
(***************************************************************************)
(* The inductive invariant, in four parts.  CommitInv ties the number of   *)
(* commits to the place a request has reached.                             *)
(***************************************************************************)
BeforeCommit == InTx \cup {"idle", "handler", "backoff"}
AfterCommit  == {"publish", "invalidate", "ok"}

CommitInv ==
    \A r \in Requests :
        /\ commits[r] <= 1
        /\ pc[r] \in BeforeCommit => commits[r] = 0
        /\ pc[r] = "handler" => cmd[r].effect = "returns"
        /\ pc[r] \in AfterCommit \/ r \in published \/ r \in invalidated =>
              commits[r] = 1 \/ cmd[r].effect = "returns"

(***************************************************************************)
(* The statements write nothing before the effect, and roll back whole.    *)
(***************************************************************************)
Writing == {"advance", "outbox", "audit", "materialize", "commit"}

EmptyInv == \A r \in Requests : pc[r] \notin Writing => tx[r] = EmptyTx

(***************************************************************************)
(* Outbox rows inside a transaction: one for each emit written so far, and *)
(* all of them once the request has left writeGuaranteedOutboxRows.        *)
(***************************************************************************)
OnePerEmit(S, r, n) ==
    /\ \A x \in S : x.req = r /\ x.emit \in 1..n
    /\ \A k \in 1..n : \E x \in S : x.emit = k
    /\ \A x, y \in S : x.emit = y.emit => x = y

OutboxPart(r) ==
    /\ OnePerEmit(tx[r].inserted, r, tx[r].n)
    /\ pc[r] = "advance" => tx[r].n = 0
    /\ pc[r] = "outbox" => tx[r].n < cmd[r].guaranteed
    /\ pc[r] \in {"audit", "materialize", "commit"} => tx[r].n = cmd[r].guaranteed
    /\ OnePerEmit(OutboxOf(r), r, IF commits[r] = 0 THEN 0 ELSE cmd[r].guaranteed)

OutboxInv == \A r \in Requests : OutboxPart(r)

(***************************************************************************)
(* The same for the audit rows.                                            *)
(***************************************************************************)
AuditPart(r) ==
    /\ pc[r] \in {"audit", "materialize"} => cmd[r].audit
    /\ pc[r] = "materialize" => cmd[r].materialize
    /\ tx[r].audit = IF pc[r] = "materialize" \/ (pc[r] = "commit" /\ cmd[r].audit)
                     THEN 1 ELSE 0
    /\ tx[r].oplog = IF pc[r] = "commit" /\ cmd[r].audit /\ cmd[r].materialize
                     THEN 1 ELSE 0
    /\ audit[r] = IF cmd[r].audit THEN commits[r] ELSE 0
    /\ oplog[r] = IF cmd[r].audit /\ cmd[r].materialize THEN commits[r] ELSE 0

AuditInv == \A r \in Requests : AuditPart(r)

(***************************************************************************)
(* Rows: what a transaction has passed the guard on or will write is under *)
(* its lock, and no other request has changed it since.                    *)
(***************************************************************************)
GuardedPart(r) ==
    pc[r] \in Writing \cup {"effect"} /\ cmd[r].transition =>
        \A w \in cmd[r].targets :
            lock[w] = r /\ rows[w].live /\ rows[w].state \in cmd[r].froms

GuardedInv == \A r \in Requests : GuardedPart(r)

DirtyPart(r, w) ==
    /\ w \in cmd[r].targets
    /\ lock[w] = r
    /\ cmd[r].effect = "creates" => ~rows[w].live
    /\ \/ tx[r].image[w] = NewImage(r, w)
       \/ /\ cmd[r].transition
          /\ tx[r].image[w] = [NewImage(r, w) EXCEPT !.state = cmd[r].to]

DirtyInv == \A r \in Requests : \A w \in tx[r].dirty : DirtyPart(r, w)

AdvancePart(r) ==
    pc[r] = "advance" =>
        /\ cmd[r].transition
        /\ \A w \in cmd[r].targets : tx[r].image[w] = NewImage(r, w)

AdvanceInv == \A r \in Requests : AdvancePart(r)
-----------------------------------------------------------------------------
LEMMA CommitStep ==
    ASSUME TypeOK, CommitInv, NEW r \in Requests, ActionOf(r)
    PROVE  CommitInv'
<1> USE DEF Goto, db, post, CommitInv, BeforeCommit, AfterCommit, InTx, TypeOK
<1>1. CASE Admit(r) \/ Reject(r) \/ ApplyReturns(r) \/ Begin(r)
           \/ \E w \in Rows : LockRow(r, w)
    BY <1>1 DEF Admit, Reject, ApplyReturns, Begin, AfterBegin, LockRow
<1>2. ASSUME NEW retryable \in BOOLEAN, Rollback(r, retryable), pc[r] \in InTx
      PROVE  CommitInv'
    BY <1>2 DEF Rollback
<1>m. ASSUME NEW l \in InTx, pc[r] \in InTx, pc' = [pc EXCEPT ![r] = l],
             UNCHANGED <<cmd, commits, published, invalidated>>
      PROVE  CommitInv'
    BY <1>m
<1>3. CASE LockLifecycleTransition(r) \/ ApplyEffect(r)
  <2>1. CASE LockLifecycleTransition(r) /\ GuardHolds(r)
      BY <2>1, <1>m DEF LockLifecycleTransition
  <2>2. CASE LockLifecycleTransition(r) /\ ~GuardHolds(r)
      BY <2>2, <1>2 DEF LockLifecycleTransition
  <2>3. CASE ApplyEffect(r) /\ EffectMatches(r)
    <3>1. AfterEffect(cmd[r]) \in InTx
        BY DEF AfterEffect, AfterAdvance, AfterOutbox
    <3>2. QED
        BY <2>3, <3>1, <1>m DEF ApplyEffect
  <2>4. CASE ApplyEffect(r) /\ ~EffectMatches(r)
      BY <2>4, <1>2 DEF ApplyEffect
  <2>5. QED
      BY <1>3, <2>1, <2>2, <2>3, <2>4
<1>4. CASE AdvanceLifecycleTransition(r) \/ WriteOutboxRow(r) \/ WriteAuditRow(r)
           \/ WriteAuditMaterializeRow(r)
    BY <1>4 DEF AdvanceLifecycleTransition, AfterAdvance, AfterOutbox, WriteOutboxRow,
       WriteAuditRow, AfterAudit, WriteAuditMaterializeRow, AfterMaterialize
<1>5. ASSUME NEW answer \in {"publish", "error"}, Commit(r, answer)
      PROVE  CommitInv'
    BY <1>5 DEF Commit
<1>6. CASE PublishEmits(r)
  <2>1. published' \subseteq published \cup {r}
      BY <1>6 DEF PublishEmits
  <2>2. QED
      BY <1>6, <2>1 DEF PublishEmits, AfterPublish
<1>7. CASE InvalidateQueries(r) \/ RetryAfterBackoff(r) \/ CancelInBackoff(r) \/ Crash(r)
    BY <1>7 DEF InvalidateQueries, RetryAfterBackoff, CancelInBackoff, Crash
<1>8. QED
    BY <1>1, <1>2, <1>3, <1>4, <1>5, <1>6, <1>7 DEF ActionOf

LEMMA EmptyStep ==
    ASSUME TypeOK, EmptyInv, NEW r \in Requests, ActionOf(r)
    PROVE  EmptyInv'
<1> USE DEF Goto, db, post, EmptyInv, Writing, TypeOK
<1>1. CASE Admit(r) \/ Reject(r) \/ ApplyReturns(r) \/ Begin(r)
           \/ \E w \in Rows : LockRow(r, w)
    BY <1>1 DEF Admit, Reject, ApplyReturns, Begin, AfterBegin, LockRow
<1>2. ASSUME NEW retryable \in BOOLEAN, Rollback(r, retryable)
      PROVE  EmptyInv'
    BY <1>2 DEF Rollback
<1>3. CASE LockLifecycleTransition(r)
    BY <1>3, <1>2 DEF LockLifecycleTransition
<1>4. ASSUME NEW l \in Writing, pc' = [pc EXCEPT ![r] = l],
             NEW t, tx' = [tx EXCEPT ![r] = t]
      PROVE  EmptyInv'
    BY <1>4
<1>5. CASE ApplyEffect(r)
  <2>1. AfterEffect(cmd[r]) \in Writing
      BY DEF AfterEffect, AfterAdvance, AfterOutbox
  <2>2. QED
      BY <1>5, <1>2, <1>4, <2>1 DEF ApplyEffect
<1>6. CASE AdvanceLifecycleTransition(r) \/ WriteOutboxRow(r) \/ WriteAuditRow(r)
           \/ WriteAuditMaterializeRow(r)
    BY <1>6, <1>4 DEF AdvanceLifecycleTransition, AfterAdvance, AfterOutbox,
       WriteOutboxRow, WriteAuditRow, AfterAudit, WriteAuditMaterializeRow,
       AfterMaterialize
<1>7. ASSUME NEW answer \in {"publish", "error"}, Commit(r, answer)
      PROVE  EmptyInv'
    BY <1>7 DEF Commit
<1>8. CASE PublishEmits(r) \/ InvalidateQueries(r) \/ RetryAfterBackoff(r)
           \/ CancelInBackoff(r) \/ Crash(r)
    BY <1>8 DEF PublishEmits, AfterPublish, InvalidateQueries, RetryAfterBackoff,
       CancelInBackoff, Crash
<1>9. QED
    BY <1>1, <1>2, <1>3, <1>5, <1>6, <1>7, <1>8 DEF ActionOf

(***************************************************************************)
(* A step that leaves the transaction of r empty and commits nothing keeps *)
(* every invariant about the contents of transactions.                     *)
(***************************************************************************)
Empties(r) ==
    /\ \E l \in PCs \ Writing : pc' = [pc EXCEPT ![r] = l]
    /\ tx' = [tx EXCEPT ![r] = EmptyTx]
    /\ UNCHANGED <<cmd, db>>

LEMMA EmptyingSteps ==
    ASSUME TypeOK, EmptyInv, NEW r \in Requests, ActionOf(r)
    PROVE  \/ Empties(r)
           \/ ApplyEffect(r) /\ EffectMatches(r)
           \/ AdvanceLifecycleTransition(r) \/ WriteOutboxRow(r)
           \/ WriteAuditRow(r) \/ WriteAuditMaterializeRow(r)
           \/ \E answer \in {"publish", "error"} : Commit(r, answer)
<1> USE DEF Goto, post, Empties, Writing, PCs, InTx, Terminal
<1>1. ASSUME pc[r] \notin Writing, UNCHANGED tx
      PROVE  tx' = [tx EXCEPT ![r] = EmptyTx]
    BY <1>1 DEF EmptyInv, TypeOK
<1>2. CASE Admit(r) \/ Reject(r) \/ ApplyReturns(r) \/ Begin(r)
    BY <1>2, <1>1 DEF Admit, Reject, ApplyReturns, Begin, AfterBegin
<1>3. CASE \E w \in Rows : LockRow(r, w)
  <2>1. pc[r] \in {"guard", "effect"}
      BY <1>3 DEF LockRow, Wanted
  <2>2. pc' = [pc EXCEPT ![r] = pc[r]]
      BY <1>3 DEF LockRow, TypeOK
  <2>3. QED
      BY <1>3, <1>1, <2>1, <2>2 DEF LockRow
<1>4. ASSUME NEW retryable \in BOOLEAN, Rollback(r, retryable)
      PROVE  Empties(r)
  <2> DEFINE l == IF retryable /\ attempt[r] < MaxAttempts - 1 THEN "backoff" ELSE "error"
  <2>1. l \in PCs \ Writing
      OBVIOUS
  <2>2. pc' = [pc EXCEPT ![r] = l]
      BY <1>4 DEF Rollback
  <2> HIDE DEF l
  <2>3. QED
      BY <1>4, <2>1, <2>2 DEF Rollback, db
<1>5. CASE LockLifecycleTransition(r)
    BY <1>5, <1>1, <1>4 DEF LockLifecycleTransition
<1>6. CASE ApplyEffect(r) /\ ~EffectMatches(r)
    BY <1>6, <1>4 DEF ApplyEffect
<1>7. CASE PublishEmits(r) \/ InvalidateQueries(r) \/ RetryAfterBackoff(r)
           \/ CancelInBackoff(r)
    BY <1>7, <1>1 DEF PublishEmits, AfterPublish, InvalidateQueries,
       RetryAfterBackoff, CancelInBackoff
<1>8. CASE Crash(r)
    BY <1>8 DEF Crash
<1>9. QED
    BY <1>2, <1>3, <1>4, <1>5, <1>6, <1>7, <1>8 DEF ActionOf

LEMMA EmptyTxFields ==
    /\ EmptyTx.inserted = {} /\ EmptyTx.n = 0
    /\ EmptyTx.dirty = {} /\ EmptyTx.audit = 0 /\ EmptyTx.oplog = 0
BY DEF EmptyTx

\* Nothing has been written when the effect starts.
LEMMA EffectStartsEmpty ==
    ASSUME EmptyInv, NEW r \in Requests, pc[r] = "effect"
    PROVE  tx[r] = EmptyTx
BY DEF EmptyInv, Writing

\* What ApplyEffect leaves in the transaction.
LEMMA EffectFields ==
    ASSUME TypeOK, NEW r \in Requests, ApplyEffect(r), EffectMatches(r)
    PROVE  /\ tx'[r].dirty = Written(r)
           /\ tx'[r].image = [w \in Rows |-> IF w \in Written(r) THEN NewImage(r, w)
                                                                 ELSE rows[w]]
           /\ tx'[r].inserted = tx[r].inserted /\ tx'[r].n = tx[r].n
           /\ tx'[r].audit = tx[r].audit /\ tx'[r].oplog = tx[r].oplog
           /\ pc' = [pc EXCEPT ![r] = AfterEffect(cmd[r])]
           /\ UNCHANGED <<cmd, attempt, lock, nextId, db, post>>
           /\ \A q \in Requests \ {r} : tx'[q] = tx[q]
<1>1. tx[r] \in Tx
    BY DEF TypeOK
<1> DEFINE img == [w \in Rows |-> IF w \in Written(r) THEN NewImage(r, w) ELSE rows[w]]
           t == [tx[r] EXCEPT !.dirty = Written(r), !.image = img, !.out = Returned(r)]
<1>2. tx' = [tx EXCEPT ![r] = t]
    BY DEF ApplyEffect
<1>3. tx'[r] = t /\ \A q \in Requests \ {r} : tx'[q] = tx[q]
    BY <1>2 DEF TypeOK
<1> HIDE DEF img
<1>4. /\ t.dirty = Written(r) /\ t.image = img
      /\ t.inserted = tx[r].inserted /\ t.n = tx[r].n
      /\ t.audit = tx[r].audit /\ t.oplog = tx[r].oplog
    BY <1>1 DEF Tx
<1> HIDE DEF t
<1>5. QED
    BY <1>3, <1>4 DEF ApplyEffect, Goto, img

(***************************************************************************)
(* It is enough to look at the request that moves.                         *)
(***************************************************************************)
LEMMA OutboxFrame ==
    ASSUME OutboxInv, NEW r \in Requests, OutboxPart(r)', cmd' = cmd,
           \A q \in Requests \ {r} : /\ pc'[q] = pc[q]
                                     /\ tx'[q] = tx[q]
                                     /\ commits'[q] = commits[q]
                                     /\ OutboxOf(q)' = OutboxOf(q)
    PROVE  OutboxInv'
<1> SUFFICES ASSUME NEW q \in Requests \ {r} PROVE OutboxPart(q)'
    BY DEF OutboxInv
<1>1. OutboxPart(q)
    BY DEF OutboxInv
<1>2. QED
    BY <1>1 DEF OutboxPart

LEMMA OutboxStep ==
    ASSUME TypeOK, EmptyInv, CommitInv, OutboxInv, NEW r \in Requests, ActionOf(r)
    PROVE  OutboxInv'
<1> USE DEF Goto, db
<1>c. cmd[r].guaranteed \in Nat
    BY CommandTxAssumption DEF TypeOK, Command
<1>p. OutboxPart(r)
    BY DEF OutboxInv
<1>z. OnePerEmit({}, r, 0)
    BY DEF OnePerEmit
<1>o. ASSUME UNCHANGED outbox PROVE \A q \in Requests : OutboxOf(q)' = OutboxOf(q)
    BY <1>o DEF OutboxOf
<1>1. CASE Empties(r)
  <2>1. /\ pc'[r] \notin Writing /\ tx'[r] = EmptyTx
        /\ \A q \in Requests \ {r} : pc'[q] = pc[q] /\ tx'[q] = tx[q]
        /\ UNCHANGED <<cmd, commits, outbox>>
      BY <1>1 DEF Empties, TypeOK
  <2>2. OutboxPart(r)'
      BY <2>1, <1>o, <1>p, <1>z, EmptyTxFields DEF OutboxPart, Writing
  <2>3. QED
      BY <2>1, <2>2, <1>o, OutboxFrame
<1>2. CASE ApplyEffect(r) /\ EffectMatches(r)
  <2>1. tx'[r].inserted = {} /\ tx'[r].n = 0
    <3>1. pc[r] = "effect"
        BY <1>2 DEF ApplyEffect
    <3>2. QED
        BY <1>2, <3>1, EffectFields, EffectStartsEmpty, EmptyTxFields
  <2>2. /\ pc'[r] = AfterEffect(cmd[r])
        /\ \A q \in Requests \ {r} : pc'[q] = pc[q] /\ tx'[q] = tx[q]
        /\ UNCHANGED <<cmd, commits, outbox>>
      BY <1>2, EffectFields DEF TypeOK
  <2>3. OutboxPart(r)'
      BY <2>1, <2>2, <1>c, <1>o, <1>p, <1>z DEF OutboxPart, AfterEffect,
         AfterAdvance, AfterOutbox
  <2>4. QED
      BY <2>2, <2>3, <1>o, OutboxFrame
<1>3. CASE AdvanceLifecycleTransition(r)
  <2>1. tx'[r].inserted = tx[r].inserted /\ tx'[r].n = tx[r].n
      BY <1>3 DEF AdvanceLifecycleTransition, TypeOK, Tx
  <2>2. /\ pc[r] = "advance" /\ pc'[r] = AfterAdvance(cmd[r])
        /\ \A q \in Requests \ {r} : pc'[q] = pc[q] /\ tx'[q] = tx[q]
        /\ UNCHANGED <<cmd, commits, outbox>>
      BY <1>3 DEF AdvanceLifecycleTransition, TypeOK
  <2>3. OutboxPart(r)'
      BY <2>1, <2>2, <1>c, <1>o, <1>p DEF OutboxPart, AfterAdvance, AfterOutbox
  <2>4. QED
      BY <2>2, <2>3, <1>o, OutboxFrame
<1>4. CASE WriteOutboxRow(r)
  <2> DEFINE k == tx[r].n + 1
             x == [id |-> nextId, req |-> r, emit |-> k, payload |-> tx[r].out]
  <2>1. tx[r].n \in Nat
      BY DEF TypeOK, Tx
  <2>2. tx'[r].inserted = tx[r].inserted \cup {x} /\ tx'[r].n = k
      BY <1>4 DEF WriteOutboxRow, TypeOK, Tx
  <2>3. OnePerEmit(tx[r].inserted \cup {x}, r, k)
    <3>1. OnePerEmit(tx[r].inserted, r, tx[r].n)
        BY <1>p DEF OutboxPart
    <3>2. x.emit = k /\ x.req = r
        OBVIOUS
    <3> HIDE DEF x
    <3>3. QED
        BY <2>1, <3>1, <3>2 DEF OnePerEmit
  <2>4. /\ pc[r] = "outbox"
        /\ pc'[r] = IF k < cmd[r].guaranteed THEN "outbox" ELSE AfterOutbox(cmd[r])
        /\ \A q \in Requests \ {r} : pc'[q] = pc[q] /\ tx'[q] = tx[q]
        /\ UNCHANGED <<cmd, commits, outbox>>
      BY <1>4 DEF WriteOutboxRow, TypeOK
  <2>5. tx[r].n < cmd[r].guaranteed
      BY <2>4, <1>p DEF OutboxPart
  <2> HIDE DEF x
  <2>6. OutboxPart(r)'
      BY <2>1, <2>2, <2>3, <2>4, <2>5, <1>c, <1>o, <1>p DEF OutboxPart, AfterOutbox
  <2>7. QED
      BY <2>4, <2>6, <1>o, OutboxFrame
<1>5. CASE WriteAuditRow(r) \/ WriteAuditMaterializeRow(r)
  <2>1. tx'[r].inserted = tx[r].inserted /\ tx'[r].n = tx[r].n
      BY <1>5 DEF WriteAuditRow, WriteAuditMaterializeRow, TypeOK, Tx
  <2>2. /\ pc[r] \in {"audit", "materialize"} /\ pc'[r] \in {"materialize", "commit"}
        /\ \A q \in Requests \ {r} : pc'[q] = pc[q] /\ tx'[q] = tx[q]
        /\ UNCHANGED <<cmd, commits, outbox>>
      BY <1>5 DEF WriteAuditRow, AfterAudit, WriteAuditMaterializeRow,
         AfterMaterialize, TypeOK
  <2>3. OutboxPart(r)'
      BY <2>1, <2>2, <1>o, <1>p DEF OutboxPart
  <2>4. QED
      BY <2>2, <2>3, <1>o, OutboxFrame
<1>6. ASSUME NEW answer \in {"publish", "error"}, Commit(r, answer)
      PROVE  OutboxInv'
  <2>1. commits[r] = 0 /\ commits'[r] = 1
      BY <1>6 DEF Commit, CommitInv, BeforeCommit, InTx, TypeOK
  <2>2. tx[r].n = cmd[r].guaranteed /\ OnePerEmit(tx[r].inserted, r, tx[r].n)
      BY <1>6, <1>p DEF Commit, OutboxPart
  <2>3. OutboxOf(r) = {}
      BY <2>1, <1>p DEF OutboxPart, OnePerEmit
  <2>4. OutboxOf(r)' = tx[r].inserted
      BY <1>6, <2>2, <2>3 DEF Commit, OutboxOf, OnePerEmit
  <2>5. \A q \in Requests \ {r} : OutboxOf(q)' = OutboxOf(q)
      BY <1>6, <2>2 DEF Commit, OutboxOf, OnePerEmit
  <2>6. /\ cmd' = cmd
        /\ pc'[r] \in {"publish", "error"}
        /\ tx'[r] = EmptyTx
        /\ \A q \in Requests \ {r} : /\ pc'[q] = pc[q]
                                     /\ tx'[q] = tx[q]
                                     /\ commits'[q] = commits[q]
      BY <1>6 DEF Commit, TypeOK
  <2>7. OutboxPart(r)'
      BY <2>1, <2>2, <2>4, <2>6, <1>z, EmptyTxFields DEF OutboxPart
  <2>8. QED
      BY <2>5, <2>6, <2>7, OutboxFrame
<1>7. QED
    BY <1>1, <1>2, <1>3, <1>4, <1>5, <1>6, EmptyingSteps

LEMMA AuditStep ==
    ASSUME TypeOK, EmptyInv, CommitInv, AuditInv, NEW r \in Requests, ActionOf(r)
    PROVE  AuditInv'
<1> USE DEF Goto, db
<1>b. cmd[r].audit \in BOOLEAN /\ cmd[r].materialize \in BOOLEAN
    BY CommandTxAssumption DEF TypeOK, Command
<1>p. AuditPart(r)
    BY DEF AuditInv
\* It is enough to look at the request that moves.
<1>f. ASSUME AuditPart(r)', cmd' = cmd,
             \A q \in Requests \ {r} : /\ pc'[q] = pc[q] /\ tx'[q] = tx[q]
                                       /\ commits'[q] = commits[q]
                                       /\ audit'[q] = audit[q] /\ oplog'[q] = oplog[q]
      PROVE  AuditInv'
    BY <1>f DEF AuditInv, AuditPart
<1>1. CASE Empties(r)
  <2>1. /\ pc'[r] \notin Writing /\ tx'[r] = EmptyTx
        /\ \A q \in Requests \ {r} : pc'[q] = pc[q] /\ tx'[q] = tx[q]
        /\ UNCHANGED <<cmd, commits, audit, oplog>>
      BY <1>1 DEF Empties, TypeOK
  <2>2. AuditPart(r)'
      BY <2>1, <1>p, EmptyTxFields DEF AuditPart, Writing
  <2>3. QED
      BY <2>1, <2>2, <1>f
<1>2. CASE ApplyEffect(r) /\ EffectMatches(r)
  <2>1. tx'[r].audit = 0 /\ tx'[r].oplog = 0
    <3>1. pc[r] = "effect"
        BY <1>2 DEF ApplyEffect
    <3>2. QED
        BY <1>2, <3>1, EffectFields, EffectStartsEmpty, EmptyTxFields
  <2>2. /\ pc'[r] = AfterEffect(cmd[r])
        /\ \A q \in Requests \ {r} : pc'[q] = pc[q] /\ tx'[q] = tx[q]
        /\ UNCHANGED <<cmd, commits, audit, oplog>>
      BY <1>2, EffectFields DEF TypeOK
  <2>3. AuditPart(r)'
      BY <2>1, <2>2, <1>b, <1>p DEF AuditPart, AfterEffect, AfterAdvance, AfterOutbox
  <2>4. QED
      BY <2>2, <2>3, <1>f
<1>3. CASE AdvanceLifecycleTransition(r) \/ WriteOutboxRow(r)
  <2>1. tx'[r].audit = tx[r].audit /\ tx'[r].oplog = tx[r].oplog
      BY <1>3 DEF AdvanceLifecycleTransition, WriteOutboxRow, TypeOK, Tx
  <2>2. /\ pc[r] \in {"advance", "outbox"}
        /\ pc'[r] \in {"outbox", AfterOutbox(cmd[r])}
        /\ \A q \in Requests \ {r} : pc'[q] = pc[q] /\ tx'[q] = tx[q]
        /\ UNCHANGED <<cmd, commits, audit, oplog>>
      BY <1>3 DEF AdvanceLifecycleTransition, AfterAdvance, WriteOutboxRow, TypeOK
  <2>3. AuditPart(r)'
      BY <2>1, <2>2, <1>b, <1>p DEF AuditPart, AfterOutbox
  <2>4. QED
      BY <2>2, <2>3, <1>f
<1>4. CASE WriteAuditRow(r)
  <2>1. tx'[r].audit = 1 /\ tx'[r].oplog = tx[r].oplog
      BY <1>4 DEF WriteAuditRow, TypeOK, Tx
  <2>2. /\ pc[r] = "audit" /\ pc'[r] = AfterAudit(cmd[r])
        /\ \A q \in Requests \ {r} : pc'[q] = pc[q] /\ tx'[q] = tx[q]
        /\ UNCHANGED <<cmd, commits, audit, oplog>>
      BY <1>4 DEF WriteAuditRow, TypeOK
  <2>3. AuditPart(r)'
      BY <2>1, <2>2, <1>b, <1>p DEF AuditPart, AfterAudit
  <2>4. QED
      BY <2>2, <2>3, <1>f
<1>5. CASE WriteAuditMaterializeRow(r)
  <2>1. tx'[r].audit = tx[r].audit /\ tx'[r].oplog = 1
      BY <1>5 DEF WriteAuditMaterializeRow, TypeOK, Tx
  <2>2. /\ pc[r] = "materialize" /\ pc'[r] = "commit"
        /\ \A q \in Requests \ {r} : pc'[q] = pc[q] /\ tx'[q] = tx[q]
        /\ UNCHANGED <<cmd, commits, audit, oplog>>
      BY <1>5 DEF WriteAuditMaterializeRow, AfterMaterialize, TypeOK
  <2>3. AuditPart(r)'
      BY <2>1, <2>2, <1>b, <1>p DEF AuditPart
  <2>4. QED
      BY <2>2, <2>3, <1>f
<1>6. ASSUME NEW answer \in {"publish", "error"}, Commit(r, answer)
      PROVE  AuditInv'
  <2>1. commits[r] = 0 /\ commits'[r] = 1
      BY <1>6 DEF Commit, CommitInv, BeforeCommit, InTx, TypeOK
  <2>2. /\ pc[r] = "commit"
        /\ audit'[r] = audit[r] + tx[r].audit
        /\ oplog'[r] = oplog[r] + tx[r].oplog
      BY <1>6 DEF Commit, TypeOK
  <2>3. /\ cmd' = cmd
        /\ pc'[r] \in {"publish", "error"}
        /\ tx'[r] = EmptyTx
        /\ \A q \in Requests \ {r} : /\ pc'[q] = pc[q] /\ tx'[q] = tx[q]
                                     /\ commits'[q] = commits[q]
                                     /\ audit'[q] = audit[q] /\ oplog'[q] = oplog[q]
      BY <1>6 DEF Commit, TypeOK
  <2>4. AuditPart(r)'
      BY <2>1, <2>2, <2>3, <1>b, <1>p, EmptyTxFields DEF AuditPart
  <2>5. QED
      BY <2>3, <2>4, <1>f
<1>7. QED
    BY <1>1, <1>2, <1>3, <1>4, <1>5, <1>6, EmptyingSteps

(***************************************************************************)
(* A step of r changes rows and locks that another request holds neither   *)
(* in value nor in holder: this is what the row locks are for.             *)
(***************************************************************************)
LEMMA LockedRowsStable ==
    ASSUME TypeOK, DirtyInv, NEW r \in Requests, ActionOf(r),
           NEW w \in Rows, lock[w] \in Requests \ {r}
    PROVE  lock'[w] = lock[w] /\ rows'[w] = rows[w]
<1> USE DEF Goto, db, post, Unlocked, TypeOK
<1>1. ASSUME NEW answer \in {"publish", "error"}, Commit(r, answer)
      PROVE  lock'[w] = lock[w] /\ rows'[w] = rows[w]
  <2>1. w \notin tx[r].dirty
      BY DEF DirtyInv, DirtyPart
  <2>2. QED
      BY <1>1, <2>1 DEF Commit
<1>2. ASSUME NEW v \in Rows, LockRow(r, v)
      PROVE  lock'[w] = lock[w] /\ rows'[w] = rows[w]
    BY <1>2, CommandTxAssumption DEF LockRow
<1>3. ASSUME NEW retryable \in BOOLEAN, Rollback(r, retryable)
      PROVE  lock'[w] = lock[w] /\ rows'[w] = rows[w]
    BY <1>3 DEF Rollback
<1>4. CASE LockLifecycleTransition(r) \/ ApplyEffect(r)
    BY <1>4, <1>3 DEF LockLifecycleTransition, ApplyEffect
<1>5. CASE Crash(r)
    BY <1>5 DEF Crash
<1>6. QED
    BY <1>1, <1>2, <1>3, <1>4, <1>5
    DEF ActionOf, Admit, Reject, ApplyReturns, Begin, AdvanceLifecycleTransition,
        WriteOutboxRow, WriteAuditRow, WriteAuditMaterializeRow, PublishEmits,
        InvalidateQueries, RetryAfterBackoff, CancelInBackoff

\* A step of r leaves the position and the transaction of the others alone.
LEMMA OthersUnchanged ==
    ASSUME TypeOK, NEW r \in Requests, ActionOf(r), NEW q \in Requests \ {r}
    PROVE  pc'[q] = pc[q] /\ tx'[q] = tx[q] /\ cmd' = cmd
<1> USE DEF Goto, TypeOK
<1>1. ASSUME NEW retryable \in BOOLEAN, Rollback(r, retryable)
      PROVE  pc'[q] = pc[q] /\ tx'[q] = tx[q] /\ cmd' = cmd
    BY <1>1 DEF Rollback
<1>2. CASE LockLifecycleTransition(r) \/ ApplyEffect(r)
    BY <1>2, <1>1 DEF LockLifecycleTransition, ApplyEffect
<1>3. QED
    BY <1>1, <1>2
    DEF ActionOf, Admit, Reject, ApplyReturns, Begin, LockRow,
        AdvanceLifecycleTransition, WriteOutboxRow, WriteAuditRow,
        WriteAuditMaterializeRow, Commit, PublishEmits, InvalidateQueries,
        RetryAfterBackoff, CancelInBackoff, Crash

LEMMA GuardedStep ==
    ASSUME TypeOK, DirtyInv, GuardedInv, NEW r \in Requests, ActionOf(r)
    PROVE  GuardedInv'
<1> USE DEF Goto, db
<1>t. \A q \in Requests : cmd[q].targets \in SUBSET Rows
    BY CommandTxAssumption DEF TypeOK, Command
<1>q. ASSUME NEW q \in Requests \ {r} PROVE GuardedPart(q)'
  <2>1. GuardedPart(q)
      BY DEF GuardedInv
  <2>2. QED
      BY <2>1, <1>t, OthersUnchanged, LockedRowsStable DEF GuardedPart
<1> SUFFICES GuardedPart(r)'
    BY <1>q DEF GuardedInv
<1>r. GuardedPart(r)
    BY DEF GuardedInv
\* Steps within the transaction that neither write rows nor release locks.
<1>k. ASSUME UNCHANGED <<cmd, rows, lock>>, pc[r] \in Writing \cup {"effect"}
      PROVE  GuardedPart(r)'
    BY <1>k, <1>r DEF GuardedPart
\* Steps that lead outside the guarded part of the transaction.
<1>o. ASSUME UNCHANGED cmd, NEW l, l \notin Writing \cup {"effect"}, Goto(r, l)
      PROVE  GuardedPart(r)'
    BY <1>o DEF GuardedPart, TypeOK
<1>1. CASE Admit(r) \/ Reject(r) \/ ApplyReturns(r)
    BY <1>1, <1>o DEF Admit, Reject, ApplyReturns, Writing, GuardedPart
<1>2. CASE Begin(r)
    BY <1>2 DEF Begin, AfterBegin, Writing, GuardedPart, TypeOK
<1>3. ASSUME NEW w \in Rows, LockRow(r, w) PROVE GuardedPart(r)'
    BY <1>3, <1>r, <1>t DEF LockRow, GuardedPart, TypeOK
<1>4. ASSUME NEW retryable \in BOOLEAN, Rollback(r, retryable) PROVE GuardedPart(r)'
  <2> DEFINE l == IF retryable /\ attempt[r] < MaxAttempts - 1 THEN "backoff" ELSE "error"
  <2>1. l \notin Writing \cup {"effect"} /\ Goto(r, l) /\ UNCHANGED cmd
      BY <1>4 DEF Rollback, Writing
  <2> HIDE DEF l
  <2>2. QED
      BY <2>1, <1>o
<1>5. CASE LockLifecycleTransition(r)
  <2>1. CASE GuardHolds(r)
    <3>1. \A w \in cmd[r].targets : rows[w].live /\ rows[w].state \in cmd[r].froms
        BY <2>1 DEF GuardHolds
    <3>2. pc[r] = "guard" /\ Wanted(r) = {}
        BY <1>5 DEF LockLifecycleTransition
    <3>3. cmd[r].effect # "creates" => \A w \in cmd[r].targets : lock[w] = r
        BY <3>1, <3>2, <1>t DEF Wanted
    <3>4. cmd[r].transition => cmd[r].effect # "creates"
        BY CommandTxAssumption DEF TypeOK
    <3>5. UNCHANGED <<cmd, rows, lock>>
        BY <1>5, <2>1 DEF LockLifecycleTransition
    <3>6. QED
        BY <3>1, <3>3, <3>4, <3>5 DEF GuardedPart
  <2>2. CASE ~GuardHolds(r)
      BY <1>5, <2>2, <1>4 DEF LockLifecycleTransition
  <2>3. QED
      BY <2>1, <2>2
<1>6. CASE ApplyEffect(r)
    BY <1>6, <1>k, <1>4 DEF ApplyEffect
<1>7. CASE AdvanceLifecycleTransition(r) \/ WriteOutboxRow(r) \/ WriteAuditRow(r)
           \/ WriteAuditMaterializeRow(r)
    BY <1>7, <1>k DEF AdvanceLifecycleTransition, WriteOutboxRow, WriteAuditRow,
       WriteAuditMaterializeRow, Writing
<1>8. ASSUME NEW answer \in {"publish", "error"}, Commit(r, answer)
      PROVE  GuardedPart(r)'
    BY <1>8, <1>o DEF Commit, Writing
<1>9. CASE PublishEmits(r) \/ InvalidateQueries(r) \/ RetryAfterBackoff(r)
           \/ CancelInBackoff(r) \/ Crash(r)
    BY <1>9, <1>o DEF PublishEmits, AfterPublish, InvalidateQueries,
       RetryAfterBackoff, CancelInBackoff, Crash, Writing
<1>10. QED
    BY <1>1, <1>2, <1>3, <1>4, <1>5, <1>6, <1>7, <1>8, <1>9 DEF ActionOf

LEMMA AdvanceStep ==
    ASSUME TypeOK, EmptyInv, GuardedInv, DirtyInv, AdvanceInv,
           NEW r \in Requests, ActionOf(r)
    PROVE  AdvanceInv'
<1> USE DEF Goto, db
<1>t. \A q \in Requests : cmd[q].targets \in SUBSET Rows
    BY CommandTxAssumption DEF TypeOK, Command
<1>q. ASSUME NEW q \in Requests \ {r} PROVE AdvancePart(q)'
  <2>1. AdvancePart(q) /\ GuardedPart(q)
      BY DEF AdvanceInv, GuardedInv
  <2>2. tx'[q] = tx[q] /\ cmd' = cmd /\ pc'[q] = pc[q]
      BY OthersUnchanged
  <2>3. ASSUME pc[q] = "advance", NEW w \in cmd[q].targets PROVE rows'[w] = rows[w]
      BY <2>1, <2>3, <1>t, LockedRowsStable DEF AdvancePart, GuardedPart, Writing
  <2>4. ASSUME pc[q] = "advance", NEW w \in cmd[q].targets
        PROVE  NewImage(q, w)' = NewImage(q, w)
      BY <2>2, <2>3, <2>4 DEF NewImage
  <2>5. QED
      BY <2>1, <2>2, <2>4 DEF AdvancePart
<1>o. ASSUME pc'[r] # "advance" PROVE AdvanceInv'
  <2>1. AdvancePart(r)'
      BY <1>o DEF AdvancePart
  <2>2. QED
      BY <1>q, <2>1 DEF AdvanceInv
<1>1. CASE Empties(r)
    BY <1>1, <1>o DEF Empties, Writing, TypeOK
<1>2. CASE ApplyEffect(r) /\ EffectMatches(r)
  <2>1. CASE ~cmd[r].transition
    <3>1. pc'[r] = AfterEffect(cmd[r])
        BY <1>2, EffectFields DEF TypeOK
    <3>2. QED
        BY <2>1, <3>1, <1>o DEF AfterEffect, AfterAdvance, AfterOutbox
  <2>2. CASE cmd[r].transition
    <3>1. cmd[r].effect \in {"updates", "noop"}
        BY <2>2, CommandTxAssumption DEF TypeOK
    <3>2. /\ tx'[r].image = [w \in Rows |-> IF w \in Written(r) THEN NewImage(r, w)
                                                                 ELSE rows[w]]
          /\ UNCHANGED <<cmd, rows>>
        BY <1>2, EffectFields
    <3>3. \A w \in cmd[r].targets : tx'[r].image[w] = NewImage(r, w)
        BY <3>1, <3>2, <1>t DEF Written, NewImage
    <3>4. \A w \in cmd[r].targets : NewImage(r, w)' = NewImage(r, w)
        BY <3>2 DEF NewImage
    <3>5. AdvancePart(r)'
        BY <2>2, <3>2, <3>3, <3>4 DEF AdvancePart
    <3>6. QED
        BY <1>q, <3>5 DEF AdvanceInv
  <2>3. QED
      BY <2>1, <2>2
<1>3. CASE AdvanceLifecycleTransition(r) \/ WriteOutboxRow(r) \/ WriteAuditRow(r)
           \/ WriteAuditMaterializeRow(r)
    BY <1>3, <1>o DEF AdvanceLifecycleTransition, AfterAdvance, AfterOutbox,
       WriteOutboxRow, WriteAuditRow, AfterAudit, WriteAuditMaterializeRow,
       AfterMaterialize, TypeOK
<1>4. ASSUME NEW answer \in {"publish", "error"}, Commit(r, answer)
      PROVE  AdvanceInv'
    BY <1>4, <1>o DEF Commit, TypeOK
<1>5. QED
    BY <1>1, <1>2, <1>3, <1>4, EmptyingSteps

LEMMA DirtyStep ==
    ASSUME TypeOK, EmptyInv, GuardedInv, DirtyInv, AdvanceInv,
           NEW r \in Requests, ActionOf(r)
    PROVE  DirtyInv'
<1> USE DEF Goto, db
<1>t. \A q \in Requests : cmd[q].targets \in SUBSET Rows /\ tx[q].dirty \in SUBSET Rows
    BY CommandTxAssumption DEF TypeOK, Command, Tx
<1>q. ASSUME NEW q \in Requests \ {r}, NEW w \in tx'[q].dirty PROVE DirtyPart(q, w)'
  <2>1. tx'[q] = tx[q] /\ cmd' = cmd /\ w \in Rows
      BY <1>q, <1>t, OthersUnchanged
  <2>2. DirtyPart(q, w)
      BY <1>q, <2>1 DEF DirtyInv
  <2>3. lock'[w] = lock[w] /\ rows'[w] = rows[w]
      BY <1>q, <2>1, <2>2, LockedRowsStable DEF DirtyPart
  <2>4. QED
      BY <2>1, <2>2, <2>3 DEF DirtyPart, NewImage
<1>1. CASE Empties(r)
  <2>1. tx'[r].dirty = {}
      BY <1>1, EmptyTxFields DEF Empties, TypeOK
  <2>2. QED
      BY <1>q, <2>1 DEF DirtyInv
<1>2. CASE ApplyEffect(r) /\ EffectMatches(r)
  <2>1. /\ tx'[r].dirty = Written(r)
        /\ UNCHANGED <<cmd, lock, rows>>
        /\ \A w \in Written(r) : w \in Rows => tx'[r].image[w] = NewImage(r, w)
      BY <1>2, EffectFields
  <2>2. ASSUME NEW w \in Written(r)
        PROVE  /\ w \in cmd[r].targets /\ w \in Rows
               /\ lock[w] = r
               /\ cmd[r].effect = "creates" => ~rows[w].live
    <3>1. w \in cmd[r].targets /\ w \in Rows /\ cmd[r].effect # "noop"
        BY <2>2, <1>t DEF Written
    <3>2. cmd[r].effect # "creates" => rows[w].live
        BY <1>2, <2>2, <3>1 DEF Written, EffectMatches
    <3>3. cmd[r].effect = "creates" => ~rows[w].live
        BY <1>2, <3>1 DEF EffectMatches
    <3>4. pc[r] = "effect" /\ Wanted(r) = {}
        BY <1>2 DEF ApplyEffect
    <3>5. lock[w] = r
        BY <3>1, <3>2, <3>4 DEF Wanted
    <3>6. QED
        BY <3>1, <3>3, <3>5
  <2>3. \A w \in Written(r) : NewImage(r, w)' = NewImage(r, w)
      BY <2>1 DEF NewImage
  <2>4. \A w \in tx'[r].dirty : DirtyPart(r, w)'
      BY <2>1, <2>2, <2>3 DEF DirtyPart
  <2>5. QED
      BY <1>q, <2>4 DEF DirtyInv
<1>3. CASE AdvanceLifecycleTransition(r)
  <2>1. pc[r] = "advance" /\ AdvancePart(r) /\ GuardedPart(r)
      BY <1>3 DEF AdvanceLifecycleTransition, AdvanceInv, GuardedInv
  <2>2. /\ tx'[r].dirty = tx[r].dirty \cup cmd[r].targets
        /\ tx'[r].image = [w \in Rows |-> IF w \in cmd[r].targets
                                          THEN [tx[r].image[w] EXCEPT !.state = cmd[r].to]
                                          ELSE tx[r].image[w]]
        /\ UNCHANGED <<cmd, lock, rows>>
      BY <1>3 DEF AdvanceLifecycleTransition, TypeOK, Tx
  <2>3. \A w \in Rows : NewImage(r, w)' = NewImage(r, w)
      BY <2>2 DEF NewImage
  <2>4. cmd[r].effect # "creates"
      BY <2>1, CommandTxAssumption DEF AdvancePart, TypeOK
  <2>5. \A w \in cmd[r].targets :
            /\ lock[w] = r
            /\ tx'[r].image[w] = [NewImage(r, w) EXCEPT !.state = cmd[r].to]
      BY <2>1, <2>2, <1>t DEF AdvancePart, GuardedPart, Writing
  <2>6. tx[r].dirty \subseteq cmd[r].targets
      BY DEF DirtyInv, DirtyPart
  <2>7. ASSUME NEW w \in tx'[r].dirty PROVE DirtyPart(r, w)'
    <3>1. w \in cmd[r].targets /\ w \in Rows /\ lock[w] = r
        BY <2>2, <2>5, <2>6, <1>t
    <3>2. tx'[r].image[w] = [NewImage(r, w)' EXCEPT !.state = cmd[r].to]
        BY <2>3, <2>5, <3>1
    <3>3. QED
        BY <2>1, <2>2, <2>4, <3>1, <3>2 DEF DirtyPart, AdvancePart
  <2>8. QED
      BY <1>q, <2>7 DEF DirtyInv
<1>4. CASE WriteOutboxRow(r) \/ WriteAuditRow(r) \/ WriteAuditMaterializeRow(r)
  <2>1. /\ tx'[r].dirty = tx[r].dirty /\ tx'[r].image = tx[r].image
        /\ UNCHANGED <<cmd, lock, rows>>
      BY <1>4 DEF WriteOutboxRow, WriteAuditRow, WriteAuditMaterializeRow, TypeOK, Tx
  <2>2. \A w \in tx[r].dirty : NewImage(r, w)' = NewImage(r, w)
      BY <2>1 DEF NewImage
  <2>3. \A w \in tx'[r].dirty : DirtyPart(r, w)'
      BY <2>1, <2>2 DEF DirtyInv, DirtyPart
  <2>4. QED
      BY <1>q, <2>3 DEF DirtyInv
<1>5. ASSUME NEW answer \in {"publish", "error"}, Commit(r, answer)
      PROVE  DirtyInv'
  <2>1. tx'[r].dirty = {}
      BY <1>5, EmptyTxFields DEF Commit, TypeOK
  <2>2. QED
      BY <1>q, <2>1 DEF DirtyInv
<1>6. QED
    BY <1>1, <1>2, <1>3, <1>4, <1>5, EmptyingSteps
-----------------------------------------------------------------------------
IndInv == /\ TypeOK /\ BackoffInv /\ EmptyInv /\ CommitInv /\ OutboxInv
          /\ AuditInv /\ GuardedInv /\ DirtyInv /\ AdvanceInv

LEMMA InitIndInv == Init => IndInv
<1> SUFFICES ASSUME Init PROVE IndInv
    OBVIOUS
<1>1. TypeOK
    BY InitTypeOK
<1>2. BackoffInv /\ EmptyInv /\ GuardedInv /\ AdvanceInv
    BY DEF Init, BackoffInv, EmptyInv, GuardedInv, GuardedPart, AdvanceInv,
       AdvancePart, Writing
<1>3. CommitInv
    BY DEF Init, CommitInv, AfterCommit
<1>4. OutboxInv
    BY EmptyTxFields DEF Init, OutboxInv, OutboxPart, OnePerEmit, OutboxOf
<1>5. AuditInv /\ DirtyInv
    BY EmptyTxFields DEF Init, AuditInv, AuditPart, DirtyInv
<1>6. QED
    BY <1>1, <1>2, <1>3, <1>4, <1>5 DEF IndInv

LEMMA UnchangedIndInv == IndInv /\ UNCHANGED vars => IndInv'
<1> SUFFICES ASSUME IndInv, UNCHANGED vars PROVE IndInv'
    OBVIOUS
<1> USE DEF vars
<1>1. TypeOK' /\ BackoffInv' /\ EmptyInv' /\ CommitInv'
    BY DEF IndInv, TypeOK, BackoffInv, EmptyInv, CommitInv
<1>2. OutboxInv' /\ AuditInv'
    BY DEF IndInv, OutboxInv, OutboxPart, OutboxOf, AuditInv, AuditPart
<1>3. \A r, w : NewImage(r, w)' = NewImage(r, w)
    BY DEF NewImage
<1>4. GuardedInv' /\ AdvanceInv'
    BY <1>3 DEF IndInv, GuardedInv, GuardedPart, AdvanceInv, AdvancePart
<1>5. DirtyInv'
    BY <1>3 DEF IndInv, DirtyInv, DirtyPart
<1>6. QED
    BY <1>1, <1>2, <1>4, <1>5 DEF IndInv

LEMMA StepIndInv == IndInv /\ [Next]_vars => IndInv'
<1> SUFFICES ASSUME IndInv, [Next]_vars PROVE IndInv'
    OBVIOUS
<1>1. CASE UNCHANGED vars
    BY <1>1, UnchangedIndInv
<1>2. ASSUME NEW r \in Requests, ActionOf(r) PROVE IndInv'
    BY <1>2, StepTypeOK, StepBackoffInv, EmptyStep, CommitStep, OutboxStep,
       AuditStep, GuardedStep, DirtyStep, AdvanceStep DEF IndInv
<1>3. QED
    BY <1>1, <1>2, NextIsAction

LEMMA Invariance == Spec => []IndInv
BY InitIndInv, StepIndInv, PTL DEF Spec

LEMMA OnePerEmitSet ==
    ASSUME NEW S, NEW r, NEW n \in Nat, OnePerEmit(S, r, n)
    PROVE  {x.emit : x \in S} = 1..n
BY DEF OnePerEmit

(***************************************************************************)
(* The transactional outbox and audit trail of Handle, for any number of   *)
(* requests, rows, emits and attempts: a request commits at most once, and *)
(* its outbox and audit rows are there exactly when it did.                *)
(***************************************************************************)
THEOREM CommandAtomicity ==
    Spec => [](AtMostOneCommit /\ OutboxAtomic /\ AuditAtomic)
<1>1. IndInv => AtMostOneCommit
    BY DEF IndInv, CommitInv, AtMostOneCommit
<1>2. IndInv => OutboxAtomic
  <2> SUFFICES ASSUME IndInv, NEW r \in Requests
               PROVE  /\ {x.emit : x \in OutboxOf(r)} =
                           (IF commits[r] = 0 THEN {} ELSE 1..cmd[r].guaranteed)
                      /\ \A x, y \in OutboxOf(r) : x.emit = y.emit => x = y
      BY DEF OutboxAtomic
  <2> DEFINE n == IF commits[r] = 0 THEN 0 ELSE cmd[r].guaranteed
  <2>1. n \in Nat
      BY CommandTxAssumption DEF IndInv, TypeOK, Command
  <2>2. OnePerEmit(OutboxOf(r), r, n)
      BY DEF IndInv, OutboxInv, OutboxPart
  <2>3. {x.emit : x \in OutboxOf(r)} = 1..n
    <3> HIDE DEF n
    <3>1. QED
        BY <2>1, <2>2, OnePerEmitSet
  <2>4. QED
      BY <2>2, <2>3 DEF OnePerEmit
<1>3. IndInv => AuditAtomic
    BY DEF IndInv, AuditInv, AuditPart, AuditAtomic
<1>4. QED
    BY <1>1, <1>2, <1>3, Invariance, PTL

(***************************************************************************)
(* The effect of a request is applied at most once, for any number of      *)
(* attempts and whatever becomes of the answer to its COMMIT.              *)
(***************************************************************************)
THEOREM EffectAppliedOnce == Spec => []AtMostOneCommit
    BY CommandAtomicity, PTL

(***************************************************************************)
(* The order of the outbox ids.  It has to be kept by the rows that are    *)
(* still inside a transaction too: they are what the table gets next.      *)
(***************************************************************************)
AnyRow(x) == x \in outbox \/ \E r \in Requests : x \in tx[r].inserted

IdsInv ==
    /\ nextId >= 1
    /\ \A r \in Requests : tx[r].n < nextId
    /\ \A x : AnyRow(x) => x.id \in 1..(nextId - 1) /\ x.emit <= x.id
    /\ \A x, y : AnyRow(x) /\ AnyRow(y) =>
           /\ x.id = y.id => x = y
           /\ x.req = y.req /\ x.emit < y.emit => x.id < y.id

LEMMA AnyRowType ==
    ASSUME TypeOK, NEW x, AnyRow(x)
    PROVE  x \in OutboxRow
<1>1. ASSUME NEW r \in Requests PROVE tx[r].inserted \subseteq OutboxRow
  <2>1. tx[r] \in Tx
      BY DEF TypeOK
  <2>2. QED
      BY <2>1 DEF Tx
<1>2. QED
    BY <1>1 DEF AnyRow, TypeOK

\* Only WriteOutboxRow draws an id and makes a row.
LEMMA IdFrame ==
    ASSUME TypeOK, EmptyInv, NEW r \in Requests, ActionOf(r), ~WriteOutboxRow(r)
    PROVE  /\ nextId' = nextId
           /\ \A x : AnyRow(x)' => AnyRow(x)
           /\ \A q \in Requests : tx'[q].n = tx[q].n \/ tx'[q].n = 0
<1> USE DEF Goto, db, post
<1>1. nextId' = nextId
  <2>1. ASSUME NEW retryable \in BOOLEAN, Rollback(r, retryable) PROVE nextId' = nextId
      BY <2>1 DEF Rollback
  <2>2. CASE LockLifecycleTransition(r) \/ ApplyEffect(r)
      BY <2>1, <2>2 DEF LockLifecycleTransition, ApplyEffect
  <2>3. QED
      BY <2>1, <2>2 DEF ActionOf, Admit, Reject, ApplyReturns, Begin, LockRow,
         AdvanceLifecycleTransition, WriteAuditRow, WriteAuditMaterializeRow, Commit,
         PublishEmits, InvalidateQueries, RetryAfterBackoff, CancelInBackoff, Crash
<1>2. ASSUME NEW t, tx' = [tx EXCEPT ![r] = t], outbox' \subseteq outbox \cup tx[r].inserted,
             \/ t.inserted = {} /\ t.n = 0
             \/ t.inserted = tx[r].inserted /\ t.n = tx[r].n
      PROVE  /\ \A x : AnyRow(x)' => AnyRow(x)
             /\ \A q \in Requests : tx'[q].n = tx[q].n \/ tx'[q].n = 0
  <2>1. tx'[r] = t /\ \A q \in Requests \ {r} : tx'[q] = tx[q]
      BY <1>2 DEF TypeOK
  <2>2. ASSUME NEW x, AnyRow(x)' PROVE AnyRow(x)
      BY <1>2, <2>1, <2>2 DEF AnyRow
  <2>3. QED
      BY <1>2, <2>1, <2>2
<1>3. tx[r] \in Tx /\ tx \in [Requests -> Tx]
    BY DEF TypeOK
<1>4. CASE Empties(r)
    BY <1>1, <1>2, <1>4, EmptyTxFields DEF Empties
<1>5. CASE ApplyEffect(r) /\ EffectMatches(r)
  <2>1. tx' = [tx EXCEPT ![r] = tx'[r]]
      BY <1>5, EffectFields, <1>3 DEF ApplyEffect
  <2>2. QED
      BY <1>1, <1>2, <1>5, <2>1, EffectFields
<1>6. CASE AdvanceLifecycleTransition(r)
  <2> DEFINE t == [tx[r] EXCEPT
                     !.dirty = @ \cup cmd[r].targets,
                     !.image = [w \in Rows |-> IF w \in cmd[r].targets
                                               THEN [tx[r].image[w] EXCEPT !.state = cmd[r].to]
                                               ELSE tx[r].image[w]]]
  <2>1. tx' = [tx EXCEPT ![r] = t] /\ outbox' = outbox
      BY <1>6 DEF AdvanceLifecycleTransition
  <2>2. t.inserted = tx[r].inserted /\ t.n = tx[r].n
      BY <1>3 DEF Tx
  <2> HIDE DEF t
  <2>3. QED
      BY <1>1, <1>2, <2>1, <2>2
<1>7. CASE WriteAuditRow(r)
  <2> DEFINE t == [tx[r] EXCEPT !.audit = 1]
  <2>1. tx' = [tx EXCEPT ![r] = t] /\ outbox' = outbox
      BY <1>7 DEF WriteAuditRow
  <2>2. t.inserted = tx[r].inserted /\ t.n = tx[r].n
      BY <1>3 DEF Tx
  <2> HIDE DEF t
  <2>3. QED
      BY <1>1, <1>2, <2>1, <2>2
<1>8. CASE WriteAuditMaterializeRow(r)
  <2> DEFINE t == [tx[r] EXCEPT !.oplog = 1]
  <2>1. tx' = [tx EXCEPT ![r] = t] /\ outbox' = outbox
      BY <1>8 DEF WriteAuditMaterializeRow
  <2>2. t.inserted = tx[r].inserted /\ t.n = tx[r].n
      BY <1>3 DEF Tx
  <2> HIDE DEF t
  <2>3. QED
      BY <1>1, <1>2, <2>1, <2>2
<1>9. ASSUME NEW answer \in {"publish", "error"}, Commit(r, answer)
      PROVE  /\ \A x : AnyRow(x)' => AnyRow(x)
             /\ \A q \in Requests : tx'[q].n = tx[q].n \/ tx'[q].n = 0
  <2>1. tx' = [tx EXCEPT ![r] = EmptyTx] /\ outbox' = outbox \cup tx[r].inserted
      BY <1>9 DEF Commit
  <2>2. QED
      BY <1>2, <2>1, EmptyTxFields
<1>10. QED
    BY <1>1, <1>4, <1>5, <1>6, <1>7, <1>8, <1>9, EmptyingSteps

\* The new row has the newest id and the highest emit of its request.
LEMMA IdDraw ==
    ASSUME IndInv, IdsInv, NEW r \in Requests, WriteOutboxRow(r)
    PROVE  IdsInv'
<1> DEFINE k == tx[r].n + 1
           z == [id |-> nextId, req |-> r, emit |-> k, payload |-> tx[r].out]
           t == [tx[r] EXCEPT !.n = k, !.inserted = tx[r].inserted \cup {z}]
<1>1. tx[r] \in Tx /\ tx \in [Requests -> Tx] /\ nextId \in Nat
    BY DEF IndInv, TypeOK
<1>2. /\ pc[r] = "outbox" /\ tx' = [tx EXCEPT ![r] = t]
      /\ nextId' = nextId + 1 /\ outbox' = outbox
    BY DEF WriteOutboxRow, db
<1>3. z.id = nextId /\ z.req = r /\ z.emit = k
    OBVIOUS
<1> HIDE DEF z
<1>4. t.n = k /\ t.inserted = tx[r].inserted \cup {z} /\ tx[r].n \in Nat
    BY <1>1 DEF Tx
<1> HIDE DEF t
<1>5. tx'[r] = t /\ \A q \in Requests \ {r} : tx'[q] = tx[q]
    BY <1>1, <1>2
<1>6. ASSUME NEW x, AnyRow(x)' PROVE AnyRow(x) \/ x = z
    BY <1>2, <1>4, <1>5, <1>6 DEF AnyRow
<1>7. ASSUME NEW x, AnyRow(x), x.req = r PROVE x.emit < k
  <2>1. x \notin outbox
    <3>1. commits[r] = 0
        BY <1>2 DEF IndInv, CommitInv, BeforeCommit, InTx
    <3>2. OnePerEmit(OutboxOf(r), r, 0)
        BY <3>1 DEF IndInv, OutboxInv, OutboxPart
    <3>3. QED
        BY <1>7, <3>2 DEF OnePerEmit, OutboxOf
  <2>2. PICK q \in Requests : x \in tx[q].inserted
      BY <1>7, <2>1 DEF AnyRow
  <2>3. OnePerEmit(tx[q].inserted, q, tx[q].n)
      BY DEF IndInv, OutboxInv, OutboxPart
  <2>4. q = r /\ x.emit \in 1..tx[r].n
      BY <1>7, <2>2, <2>3 DEF OnePerEmit
  <2>5. QED
      BY <1>4, <2>4
<1>8. \A q \in Requests : tx[q].n \in Nat
  <2>1. \A q \in Requests : tx[q] \in Tx
      BY <1>1
  <2>2. QED
      BY <2>1 DEF Tx
<1>9. nextId' >= 1 /\ \A q \in Requests : tx'[q].n < nextId'
    BY <1>1, <1>2, <1>4, <1>5, <1>8 DEF IdsInv
<1>10. \A x : AnyRow(x) => x.id \in 1..(nextId - 1) /\ x.emit <= x.id
    BY DEF IdsInv
<1>11. ASSUME NEW x, AnyRow(x)' PROVE x.id \in 1..(nextId' - 1) /\ x.emit <= x.id
  <2>1. CASE x = z
      BY <1>1, <1>2, <1>3, <1>4, <2>1 DEF IdsInv
  <2>2. CASE AnyRow(x)
      BY <1>1, <1>2, <1>10, <2>2
  <2>3. QED
      BY <1>6, <1>11, <2>1, <2>2
<1>12. ASSUME NEW x, NEW y, AnyRow(x)', AnyRow(y)'
       PROVE  /\ x.id = y.id => x = y
              /\ x.req = y.req /\ x.emit < y.emit => x.id < y.id
  <2>1. CASE AnyRow(x) /\ AnyRow(y)
      BY <2>1 DEF IdsInv
  <2>2. CASE x = z /\ y = z
    <3>1. ~ (k < k)
        BY <1>4
    <3>2. QED
        BY <1>3, <2>2, <3>1
  <2>3. CASE x = z /\ AnyRow(y)
    <3>1. y.id # nextId
        BY <1>1, <1>10, <2>3
    <3>2. y \in OutboxRow
        BY <2>3, AnyRowType DEF IndInv
    <3>3. y.req = r => ~ (k < y.emit)
        BY <1>4, <1>7, <2>3, <3>2 DEF OutboxRow
    <3>4. QED
        BY <1>3, <2>3, <3>1, <3>3
  <2>4. CASE AnyRow(x) /\ y = z
    <3>1. x.id < nextId /\ x.id # nextId
        BY <1>1, <1>10, <2>4
    <3>2. QED
        BY <1>3, <2>4, <3>1
  <2>5. QED
      BY <1>6, <1>12, <2>1, <2>2, <2>3, <2>4
<1>13. QED
    BY <1>9, <1>11, <1>12 DEF IdsInv

LEMMA StepIdsInv == IndInv /\ IdsInv /\ [Next]_vars => IdsInv'
<1> SUFFICES ASSUME IndInv, IdsInv, [Next]_vars PROVE IdsInv'
    OBVIOUS
<1>1. CASE UNCHANGED vars
  <2>1. \A x : AnyRow(x)' <=> AnyRow(x)
      BY <1>1 DEF vars, AnyRow
  <2>2. nextId' = nextId /\ tx' = tx
      BY <1>1 DEF vars
  <2>3. QED
      BY <2>1, <2>2 DEF IdsInv
<1>2. ASSUME NEW r \in Requests, ActionOf(r) PROVE IdsInv'
  <2>1. CASE WriteOutboxRow(r)
      BY <2>1, IdDraw
  <2>2. CASE ~WriteOutboxRow(r)
    <3>1. /\ nextId' = nextId
          /\ \A x : AnyRow(x)' => AnyRow(x)
          /\ \A q \in Requests : tx'[q].n = tx[q].n \/ tx'[q].n = 0
        BY <1>2, <2>2, IdFrame DEF IndInv
    <3>2. nextId \in Nat
        BY DEF IndInv, TypeOK
    <3>3. QED
        BY <3>1, <3>2 DEF IdsInv
  <2>3. QED
      BY <2>1, <2>2
<1>3. QED
    BY <1>1, <1>2, NextIsAction

LEMMA InitIdsInv == Init => IdsInv
<1> SUFFICES ASSUME Init PROVE IdsInv
    OBVIOUS
<1>1. \A r \in Requests : tx[r].inserted = {} /\ tx[r].n = 0
    BY EmptyTxFields DEF Init
<1>2. \A x : ~ AnyRow(x)
    BY <1>1 DEF Init, AnyRow
<1>3. QED
    BY <1>1, <1>2 DEF Init, IdsInv

(***************************************************************************)
(* ORDER BY id is the order of declaration within a command, and an id     *)
(* names one row, although every rolled back attempt has used up ids.      *)
(***************************************************************************)
THEOREM OutboxOrder == Spec => []OutboxIdsOrdered
<1>1. IdsInv => OutboxIdsOrdered
    BY DEF IdsInv, AnyRow, OutboxIdsOrdered
<1>2. QED
    BY <1>1, InitIdsInv, StepIdsInv, Invariance, PTL DEF Spec

(***************************************************************************)
(* Best-effort events, cache invalidation and the "ok" answer follow the   *)
(* commit, never precede it.                                               *)
(***************************************************************************)
THEOREM ReactionsAfterCommit == Spec => []ReactionsFollowCommit
<1>1. IndInv => ReactionsFollowCommit
    BY DEF IndInv, CommitInv, AfterCommit, ReactionsFollowCommit
<1>2. QED
    BY <1>1, Invariance, PTL

(***************************************************************************)
(* Concurrent writers of one row never overwrite each other unseen.        *)
(***************************************************************************)
THEOREM WritesUnderLock == Spec => []NoLostUpdate
<1>1. IndInv => NoLostUpdate
    BY DEF IndInv, DirtyInv, DirtyPart, NoLostUpdate
<1>2. QED
    BY <1>1, Invariance, PTL

(***************************************************************************)
(* The lifecycle guard is not stale when the advance commits: a committed  *)
(* lifecycle column only ever moves along an edge of the command that      *)
(* moves it, however requests interleave.                                  *)
(***************************************************************************)
THEOREM LifecycleSafety == Spec => LifecycleFollowsEdges
<1>1. ASSUME IndInv, NEW r \in Requests, ActionOf(r) PROVE LifecycleStep
  <2> USE DEF db
  <2>1. ASSUME NEW answer \in {"publish", "error"}, Commit(r, answer)
        PROVE  LifecycleStep
    <3> SUFFICES ASSUME NEW w \in Rows, rows[w].live, rows'[w].live,
                        rows[w].state # rows'[w].state
                 PROVE  /\ commits'[r] = commits[r] + 1
                        /\ w \in cmd[r].targets
                        /\ cmd[r].transition
                        /\ rows[w].state \in cmd[r].froms
                        /\ rows'[w].state = cmd[r].to
        BY DEF LifecycleStep
    <3>1. commits'[r] = commits[r] + 1
        BY <1>1, <2>1 DEF Commit, IndInv, TypeOK
    <3>2. rows'[w] = IF w \in tx[r].dirty THEN tx[r].image[w] ELSE rows[w]
        BY <2>1 DEF Commit
    <3>3. w \in tx[r].dirty /\ rows'[w] = tx[r].image[w]
        BY <3>2
    <3>4. DirtyPart(r, w)
        BY <1>1, <3>3 DEF IndInv, DirtyInv
    <3>5. rows[w] \in RowVal
        BY <1>1 DEF IndInv, TypeOK
    <3>6. NewImage(r, w).state = rows[w].state \/ cmd[r].effect = "creates"
        BY <3>5 DEF NewImage, RowVal
    <3>7. /\ cmd[r].transition
          /\ tx[r].image[w] = [NewImage(r, w) EXCEPT !.state = cmd[r].to]
        BY <3>3, <3>4, <3>6 DEF DirtyPart
    <3>8. NewImage(r, w) \in RowVal
        BY <1>1, NewImageType DEF IndInv
    <3>9. rows'[w].state = cmd[r].to
        BY <3>3, <3>7, <3>8 DEF RowVal
    <3>10. rows[w].state \in cmd[r].froms /\ w \in cmd[r].targets
        BY <1>1, <2>1, <3>4, <3>7 DEF IndInv, GuardedInv, GuardedPart, DirtyPart, Commit,
           Writing
    <3>11. QED
        BY <3>1, <3>7, <3>9, <3>10
  <2>2. CASE UNCHANGED rows
      BY <2>2 DEF LifecycleStep
  <2>3. ASSUME NEW retryable \in BOOLEAN, Rollback(r, retryable)
        PROVE  UNCHANGED rows
      BY <2>3 DEF Rollback
  <2>4. CASE LockLifecycleTransition(r) \/ ApplyEffect(r)
      BY <2>4, <2>2, <2>3 DEF LockLifecycleTransition, ApplyEffect
  <2>5. QED
      BY <1>1, <2>1, <2>2, <2>3, <2>4
      DEF ActionOf, Admit, Reject, ApplyReturns, Begin, LockRow,
          AdvanceLifecycleTransition, WriteOutboxRow, WriteAuditRow,
          WriteAuditMaterializeRow, PublishEmits, InvalidateQueries,
          RetryAfterBackoff, CancelInBackoff, Crash
<1>2. IndInv /\ [Next]_vars => [LifecycleStep]_vars
    BY <1>1, NextIsAction
<1>3. QED
    BY <1>2, Invariance, PTL DEF Spec, LifecycleFollowsEdges
-----------------------------------------------------------------------------
(***************************************************************************)
(* A request only goes forward: the variant behind EveryRequestEnds.       *)
(***************************************************************************)
\* How far a label is from the end of an attempt, and of the request.
Stage(l) ==
    CASE l = "idle" -> 13 [] l = "handler" -> 12 [] l = "begin" -> 11 [] l = "guard" -> 10
      [] l = "effect" -> 9 [] l = "advance" -> 8 [] l = "outbox" -> 7 [] l = "audit" -> 6
      [] l = "materialize" -> 5 [] l = "commit" -> 4 [] l = "publish" -> 3
      [] l = "invalidate" -> 2 [] l = "backoff" -> 1 [] OTHER -> 0

\* The next of the attempts there are; the next statement or answer of this
\* one; or the next of the outbox rows there are.
GoesOn(r) ==
    \/ attempt[r] < attempt'[r] /\ attempt'[r] < MaxAttempts
    \/ attempt'[r] = attempt[r] /\ Stage(pc'[r]) < Stage(pc[r])
    \/ /\ attempt'[r] = attempt[r] /\ pc[r] = "outbox" /\ pc'[r] = "outbox"
       /\ tx[r].n < tx'[r].n /\ tx'[r].n < cmd[r].guaranteed

\* A request that stays where it is lets go of no lock and loses no work.
Waits(r) ==
    /\ pc'[r] = pc[r] /\ attempt'[r] = attempt[r] /\ tx'[r] = tx[r]
    /\ \A w \in Rows : lock[w] = r => lock'[w] = r

OnlyForward == \A r \in Requests : GoesOn(r) \/ Waits(r)

LEMMA Stages ==
    /\ Stage("idle") = 13 /\ Stage("handler") = 12 /\ Stage("begin") = 11
    /\ Stage("guard") = 10 /\ Stage("effect") = 9 /\ Stage("advance") = 8
    /\ Stage("outbox") = 7 /\ Stage("audit") = 6 /\ Stage("materialize") = 5
    /\ Stage("commit") = 4 /\ Stage("publish") = 3 /\ Stage("invalidate") = 2
    /\ Stage("backoff") = 1
    /\ \A l \in Terminal : Stage(l) = 0
BY DEF Stage, Terminal

\* What comes after a statement is a later one.
LEMMA LaterStages ==
    ASSUME NEW c
    PROVE  /\ Stage(AfterBegin(c)) < 11 /\ Stage(AfterEffect(c)) < 9
           /\ Stage(AfterAdvance(c)) < 8 /\ Stage(AfterOutbox(c)) < 7
           /\ Stage(AfterAudit(c)) < 6 /\ Stage(AfterMaterialize(c)) < 5
           /\ Stage(AfterPublish(c)) < 3
<1>1. "ok" \in Terminal
    BY DEF Terminal
<1>2. /\ AfterBegin(c) \in {"guard", "effect"} /\ AfterOutbox(c) \in {"audit", "commit"}
      /\ AfterAudit(c) \in {"materialize", "commit"} /\ AfterMaterialize(c) = "commit"
      /\ AfterPublish(c) \in {"invalidate", "ok"}
    BY DEF AfterBegin, AfterOutbox, AfterAudit, AfterMaterialize, AfterPublish
<1>3. AfterAdvance(c) \in {"outbox", "audit", "commit"}
    BY <1>2 DEF AfterAdvance
<1>4. AfterEffect(c) \in {"advance", "outbox", "audit", "commit"}
    BY <1>3 DEF AfterEffect
<1>5. QED
    BY <1>1, <1>2, <1>3, <1>4, Stages

LEMMA StepGoesOn ==
    ASSUME TypeOK, BackoffInv, NEW r \in Requests, ActionOf(r)
    PROVE  GoesOn(r) \/ Waits(r)
<1>1. /\ pc[r] \in PCs /\ attempt[r] \in 0..(MaxAttempts - 1) /\ MaxAttempts \in Nat \ {0}
      /\ tx[r] \in Tx /\ tx[r].n \in Nat /\ cmd[r] \in Command /\ cmd[r].guaranteed \in Nat
  <2>1. cmd[r] \in Command /\ tx[r] \in Tx
      BY CommandTxAssumption DEF TypeOK
  <2>2. cmd[r].guaranteed \in Nat /\ tx[r].n \in Nat
      BY <2>1 DEF Command, Tx
  <2>3. QED
      BY <2>1, <2>2, CommandTxAssumption DEF TypeOK
\* A step within the attempt, to a later place.
<1>2. ASSUME NEW l, Goto(r, l), UNCHANGED attempt, Stage(l) < Stage(pc[r])
      PROVE  GoesOn(r)
  <2>1. pc'[r] = l
      BY <1>2 DEF Goto, TypeOK
  <2>2. QED
      BY <1>2, <2>1 DEF GoesOn
<1>3. \A l \in Terminal : Stage(l) = 0
    BY Stages
<1>4. "error" \in Terminal /\ "crashed" \in Terminal
    BY DEF Terminal
<1>5. ASSUME NEW retryable \in BOOLEAN, Rollback(r, retryable), pc[r] \in InTx PROVE GoesOn(r)
  <2>1. Stage(pc[r]) > 1
      BY <1>5, Stages DEF InTx
  <2>2. PICK l \in {"backoff", "error"} : Goto(r, l)
      BY <1>5 DEF Rollback
  <2>3. Stage(l) < Stage(pc[r])
    <3>1. Stage("error") = 0 /\ Stage("backoff") = 1
        BY <1>3, <1>4, Stages
    <3>2. Stage(pc[r]) \in 0..13
        BY <1>5, Stages DEF InTx
    <3>3. QED
        BY <2>1, <3>1, <3>2
  <2>4. QED
      BY <1>2, <1>5, <2>2, <2>3 DEF Rollback
<1>6. CASE Admit(r)
  <2>1. PICK l \in {"handler", "begin"} : Goto(r, l)
      BY <1>6 DEF Admit
  <2>2. QED
      BY <1>2, <1>6, <2>1, Stages DEF Admit
<1>7. CASE Reject(r)
    BY <1>2, <1>3, <1>4, <1>7, Stages DEF Reject
<1>8. CASE ApplyReturns(r)
    BY <1>2, <1>3, <1>4, <1>8, Stages DEF ApplyReturns
<1>9. CASE Begin(r)
    BY <1>2, <1>9, Stages, LaterStages DEF Begin
<1>10. ASSUME NEW w \in Rows, LockRow(r, w) PROVE Waits(r)
    BY <1>10 DEF LockRow, Waits, TypeOK
<1>11. CASE LockLifecycleTransition(r)
  <2>1. CASE GuardHolds(r)
      BY <1>2, <1>11, <2>1, Stages DEF LockLifecycleTransition
  <2>2. CASE ~GuardHolds(r)
      BY <1>5, <1>11, <2>2 DEF LockLifecycleTransition, InTx
  <2>3. QED
      BY <2>1, <2>2
<1>12. CASE ApplyEffect(r)
  <2>1. CASE EffectMatches(r)
      BY <1>2, <1>12, <2>1, Stages, LaterStages DEF ApplyEffect
  <2>2. CASE ~EffectMatches(r)
      BY <1>5, <1>12, <2>2 DEF ApplyEffect, InTx
  <2>3. QED
      BY <2>1, <2>2
<1>13. CASE AdvanceLifecycleTransition(r)
    BY <1>2, <1>13, Stages, LaterStages DEF AdvanceLifecycleTransition
<1>14. CASE WriteOutboxRow(r)
  <2> DEFINE k == tx[r].n + 1
  <2>1. /\ pc[r] = "outbox" /\ UNCHANGED attempt
        /\ Goto(r, IF k < cmd[r].guaranteed THEN "outbox" ELSE AfterOutbox(cmd[r]))
      BY <1>14 DEF WriteOutboxRow
  <2>2. tx'[r].n = k
      BY <1>1, <1>14 DEF WriteOutboxRow, TypeOK, Tx
  <2>3. CASE k < cmd[r].guaranteed
    <3>1. pc'[r] = "outbox"
        BY <2>1, <2>3 DEF Goto, TypeOK
    <3>2. tx[r].n < tx'[r].n /\ tx'[r].n < cmd[r].guaranteed
        BY <1>1, <2>2, <2>3
    <3>3. QED
        BY <2>1, <3>1, <3>2 DEF GoesOn
  <2>4. CASE ~(k < cmd[r].guaranteed)
    <3>1. Goto(r, AfterOutbox(cmd[r]))
        BY <2>1, <2>4
    <3>2. QED
        BY <1>2, <2>1, <3>1, Stages, LaterStages
  <2>5. QED
      BY <2>3, <2>4
<1>15. CASE WriteAuditRow(r)
    BY <1>2, <1>15, Stages, LaterStages DEF WriteAuditRow
<1>16. CASE WriteAuditMaterializeRow(r)
    BY <1>2, <1>16, Stages, LaterStages DEF WriteAuditMaterializeRow
<1>17. ASSUME NEW answer \in {"publish", "error"}, Commit(r, answer) PROVE GoesOn(r)
    BY <1>2, <1>3, <1>4, <1>17, Stages DEF Commit
<1>18. CASE PublishEmits(r)
    BY <1>2, <1>18, Stages, LaterStages DEF PublishEmits
<1>19. CASE InvalidateQueries(r)
  <2>1. "ok" \in Terminal
      BY DEF Terminal
  <2>2. QED
      BY <1>2, <1>3, <1>19, <2>1, Stages DEF InvalidateQueries
<1>20. CASE RetryAfterBackoff(r)
  <2>1. attempt[r] < MaxAttempts - 1
      BY <1>20 DEF RetryAfterBackoff, BackoffInv
  <2>2. attempt'[r] = attempt[r] + 1
      BY <1>20 DEF RetryAfterBackoff, TypeOK
  <2>3. QED
      BY <1>1, <2>1, <2>2 DEF GoesOn
<1>21. CASE CancelInBackoff(r)
    BY <1>2, <1>3, <1>4, <1>21, Stages DEF CancelInBackoff
<1>22. CASE Crash(r)
  <2>1. Stage(pc[r]) > 0
      BY <1>1, <1>22, Stages DEF Crash, PCs, InTx
  <2>2. QED
      BY <1>2, <1>3, <1>4, <1>22, <2>1 DEF Crash
<1>23. QED
    BY <1>5, <1>6, <1>7, <1>8, <1>9, <1>10, <1>11, <1>12, <1>13, <1>14, <1>15, <1>16, <1>17,
       <1>18, <1>19, <1>20, <1>21, <1>22 DEF ActionOf

\* A step of another request: it takes only free locks and gives back its own.
LEMMA OthersWait ==
    ASSUME TypeOK, NEW r \in Requests, ActionOf(r), NEW q \in Requests \ {r}
    PROVE  Waits(q)
<1> DEFINE Keeps == attempt'[q] = attempt[q] /\ \A w \in Rows : lock[w] = q => lock'[w] = q
<1>1. SUFFICES Keeps
    BY OthersUnchanged DEF Waits
<1>2. ASSUME NEW retryable \in BOOLEAN, Rollback(r, retryable) PROVE Keeps
    BY <1>2 DEF Rollback, Unlocked
<1>3. ASSUME NEW v \in Rows, LockRow(r, v) PROVE Keeps
    BY <1>3, CommandTxAssumption DEF LockRow, TypeOK
<1>4. CASE UNCHANGED <<attempt, lock>>
    BY <1>4
<1>5. CASE LockLifecycleTransition(r) \/ ApplyEffect(r)
    BY <1>2, <1>4, <1>5 DEF LockLifecycleTransition, ApplyEffect
<1>6. CASE Crash(r) \/ \E answer \in {"publish", "error"} : Commit(r, answer)
    BY <1>6 DEF Crash, Commit, Unlocked
<1>7. CASE RetryAfterBackoff(r)
    BY <1>7 DEF RetryAfterBackoff, TypeOK
<1> HIDE DEF Keeps
<1>8. QED
    BY <1>2, <1>3, <1>4, <1>5, <1>6, <1>7
    DEF ActionOf, Admit, Reject, ApplyReturns, Begin, AdvanceLifecycleTransition,
        WriteOutboxRow, WriteAuditRow, WriteAuditMaterializeRow, PublishEmits,
        InvalidateQueries, CancelInBackoff

(***************************************************************************)
(* Handle and withTx have no way back.  Every step of a request starts the *)
(* next of its MaxAttempts attempts, brings the current one nearer to its  *)
(* end or takes one more lock, and no step of another request takes        *)
(* anything from it.  What is left of EveryRequestEnds is liveness: that a *)
(* wait for a lock ends.                                                   *)
(***************************************************************************)
THEOREM RequestsOnlyGoForward == Spec => [][OnlyForward]_vars
<1>1. ASSUME TypeOK, BackoffInv, NEW r \in Requests, ActionOf(r) PROVE OnlyForward
  <2> SUFFICES ASSUME NEW q \in Requests PROVE GoesOn(q) \/ Waits(q)
      BY DEF OnlyForward
  <2>1. CASE q = r
      BY <1>1, <2>1, StepGoesOn
  <2>2. CASE q # r
      BY <1>1, <2>2, OthersWait
  <2>3. QED
      BY <2>1, <2>2
<1>2. IndInv /\ [Next]_vars => [OnlyForward]_vars
    BY <1>1, NextIsAction DEF IndInv
<1>3. QED
    BY <1>2, Invariance, PTL DEF Spec

(***************************************************************************)
(* A row lock belongs to a request inside its transaction.                 *)
(***************************************************************************)
LockInv == \A w \in Rows : lock[w] # NoRequest => pc[lock[w]] \in InTx

LEMMA StepLockInv ==
    ASSUME TypeOK, LockInv, NEW r \in Requests, ActionOf(r)
    PROVE  LockInv'
<1> USE DEF Goto
<1>1. /\ pc \in [Requests -> PCs] /\ lock \in [Rows -> Requests \cup {NoRequest}]
      /\ NoRequest \notin Requests
    BY CommandTxAssumption DEF TypeOK
\* The request leaves its transaction, if at all, without a lock.
<1>2. ASSUME lock' = Unlocked(r), NEW l, Goto(r, l) PROVE LockInv'
    BY <1>1, <1>2 DEF LockInv, Unlocked
<1>3. ASSUME UNCHANGED lock, NEW l, Goto(r, l), pc[r] \notin InTx \/ l \in InTx PROVE LockInv'
    BY <1>1, <1>3 DEF LockInv
<1>4. ASSUME NEW retryable \in BOOLEAN, Rollback(r, retryable) PROVE LockInv'
    BY <1>2, <1>4 DEF Rollback
<1>5. ASSUME NEW w \in Rows, LockRow(r, w) PROVE LockInv'
  <2>1. pc[r] \in InTx
      BY <1>5 DEF LockRow, Wanted, InTx
  <2>2. QED
      BY <1>1, <1>5, <2>1 DEF LockRow, LockInv
<1>6. \A c : /\ AfterBegin(c) \in InTx /\ AfterAdvance(c) \in InTx /\ AfterOutbox(c) \in InTx
             /\ AfterEffect(c) \in InTx /\ AfterAudit(c) \in InTx /\ AfterMaterialize(c) \in InTx
    BY DEF AfterBegin, AfterAdvance, AfterOutbox, AfterEffect, AfterAudit, AfterMaterialize, InTx
<1>7. CASE Admit(r) \/ Reject(r) \/ ApplyReturns(r) \/ PublishEmits(r) \/ InvalidateQueries(r)
             \/ RetryAfterBackoff(r) \/ CancelInBackoff(r)
    BY <1>3, <1>7 DEF Admit, Reject, ApplyReturns, PublishEmits, InvalidateQueries,
       RetryAfterBackoff, CancelInBackoff, InTx
<1>8. CASE Begin(r) \/ AdvanceLifecycleTransition(r) \/ WriteAuditRow(r)
             \/ WriteAuditMaterializeRow(r)
    BY <1>3, <1>6, <1>8 DEF Begin, AdvanceLifecycleTransition, WriteAuditRow,
       WriteAuditMaterializeRow
<1>9. CASE WriteOutboxRow(r)
  <2>1. "outbox" \in InTx
      BY DEF InTx
  <2>2. QED
      BY <1>3, <1>6, <1>9, <2>1 DEF WriteOutboxRow
<1>10. CASE LockLifecycleTransition(r)
  <2>1. "effect" \in InTx
      BY DEF InTx
  <2>2. QED
      BY <1>3, <1>4, <1>10, <2>1 DEF LockLifecycleTransition
<1>11. CASE ApplyEffect(r)
    BY <1>3, <1>4, <1>6, <1>11 DEF ApplyEffect
<1>12. CASE Crash(r) \/ \E answer \in {"publish", "error"} : Commit(r, answer)
    BY <1>2, <1>12 DEF Crash, Commit
<1>13. QED
    BY <1>4, <1>5, <1>7, <1>8, <1>9, <1>10, <1>11, <1>12 DEF ActionOf

(***************************************************************************)
(* No lock outlives its transaction: retries, failing statements, failing  *)
(* commits and crashes all give the rows back, so whoever waits for a row  *)
(* waits for a request that itself only goes forward.                      *)
(***************************************************************************)
THEOREM LocksEndWithTx == Spec => []LockInv
<1>1. Init => LockInv
    BY DEF Init, LockInv
<1>2. IndInv /\ LockInv /\ [Next]_vars => LockInv'
  <2> SUFFICES ASSUME IndInv, LockInv, [Next]_vars PROVE LockInv'
      OBVIOUS
  <2>1. CASE UNCHANGED vars
      BY <2>1 DEF vars, LockInv
  <2>2. CASE Next
      BY <2>1, <2>2, NextIsAction, StepLockInv DEF IndInv
  <2>3. QED
      BY <2>1, <2>2
<1>3. QED
    BY <1>1, <1>2, Invariance, PTL DEF Spec
-----------------------------------------------------------------------------
(***************************************************************************)
(* The composed system.                                                    *)
(***************************************************************************)
\* What the pumps need to know of the command side.
CommandInv == IndInv /\ IdsInv /\ nextId <= MaxId + 1

(***************************************************************************)
(* OnlyCommittedEvents is not inductive: a row travels from the batch of a *)
(* pump through the transport to a receiver, and must belong to a          *)
(* committed transaction at every place it can be in.                      *)
(***************************************************************************)
DeliveryTypes ==
    /\ pump \in [Pumps -> {"idle", "next", "dispatch", "mark"}]
    /\ worker \in [Receivers -> {"idle", "check", "handle", "mark"}]
    /\ transport \in [1..MaxId -> Nat]
    /\ sent \in [1..MaxId -> Nat]
    /\ handled \in [1..MaxId -> Nat]

OnTheWay ==
    /\ batch \in [Pumps -> SUBSET CommittedIds]
    /\ current \in [Pumps -> CommittedIds \cup {0}]
    /\ message \in [Receivers -> CommittedIds \cup {0}]
    /\ \A p \in Pumps : pump[p] \in {"dispatch", "mark"} => current[p] # 0
    /\ \A v \in Receivers : worker[v] # "idle" => message[v] # 0

Arrived ==
    \A i \in 1..MaxId :
        transport[i] > 0 \/ sent[i] > 0 \/ handled[i] > 0 => i \in CommittedIds

PathInv == DeliveryTypes /\ OnTheWay /\ Arrived
-----------------------------------------------------------------------------
(***************************************************************************)
(* The composed system, seen from the commands, is CommandTx.              *)
(***************************************************************************)
LEMMA CommandSide == [ComposedNext]_allVars => [Next]_vars
    BY DEF ComposedNext, Commanding, Delivering, allVars

LEMMA StepCommandInv == CommandInv /\ [ComposedNext]_allVars => CommandInv'
<1> SUFFICES ASSUME CommandInv, [ComposedNext]_allVars PROVE CommandInv'
    OBVIOUS
<1>1. IndInv' /\ IdsInv'
    BY CommandSide, StepIndInv, StepIdsInv DEF CommandInv
<1>2. nextId' <= MaxId + 1
  <2>1. CASE Commanding
      BY <2>1 DEF Commanding, InRange
  <2>2. CASE UNCHANGED vars
      BY <2>2 DEF vars, CommandInv
  <2>3. QED
      BY <2>1, <2>2 DEF ComposedNext, Delivering, allVars
<1>3. QED
    BY <1>1, <1>2 DEF CommandInv

LEMMA InitCommandInv == ComposedInit => CommandInv
<1> SUFFICES ASSUME ComposedInit PROVE CommandInv
    OBVIOUS
<1>1. IndInv /\ IdsInv
    BY InitIndInv, InitIdsInv DEF ComposedInit
<1>2. nextId <= MaxId + 1
    BY CommandOutboxAssumption DEF ComposedInit, Init
<1>3. QED
    BY <1>1, <1>2 DEF CommandInv

\* A row in the table: its id is in range and its transaction has committed.
LEMMA RowFacts ==
    ASSUME CommandInv, NEW x \in outbox
    PROVE  /\ x.id \in 1..MaxId
           /\ x.req \in Requests
           /\ x.emit \in 1..MaxId
           /\ commits[x.req] = 1
<1>1. x \in OutboxRow
    BY DEF CommandInv, IndInv, TypeOK
<1>2. x.req \in Requests /\ x.emit \in Nat /\ x.id \in Nat
    BY <1>1 DEF OutboxRow
<1>3. x.id \in 1..(nextId - 1) /\ x.emit <= x.id
    BY DEF CommandInv, IdsInv, AnyRow
<1>4. x.id \in 1..MaxId
    BY <1>2, <1>3, CommandOutboxAssumption DEF CommandInv, IndInv, TypeOK
<1> DEFINE r == x.req
           n == IF commits[r] = 0 THEN 0 ELSE cmd[r].guaranteed
<1>5. OnePerEmit(OutboxOf(r), r, n)
    BY <1>2 DEF CommandInv, IndInv, OutboxInv, OutboxPart
<1>6. x \in OutboxOf(r)
    BY DEF OutboxOf
<1>7. x.emit \in 1..n
    BY <1>5, <1>6 DEF OnePerEmit
<1>8. commits[r] # 0
    BY <1>7
<1>9. commits[r] \in Nat /\ commits[r] <= 1
    BY <1>2 DEF CommandInv, IndInv, TypeOK, CommitInv
<1>10. x.emit >= 1
  <2>1. cmd[r].guaranteed \in Nat
      BY <1>2, CommandTxAssumption DEF CommandInv, IndInv, TypeOK, Command
  <2>2. QED
      BY <1>7, <1>8, <2>1
<1>11. QED
    BY <1>2, <1>3, <1>4, <1>8, <1>9, <1>10, CommandOutboxAssumption

LEMMA IdRange == CommandInv => CommittedIds \subseteq 1..MaxId
    BY RowFacts DEF CommittedIds

\* A row inside a transaction is in range too.
LEMMA PendingFacts ==
    ASSUME CommandInv, NEW r \in Requests, NEW x \in tx[r].inserted
    PROVE  x.id \in 1..MaxId /\ x.req = r /\ x.emit \in 1..MaxId
<1>1. x.id \in 1..(nextId - 1) /\ x.emit <= x.id /\ nextId \in Nat
    BY DEF CommandInv, IndInv, TypeOK, IdsInv, AnyRow
<1>2. x.id \in 1..MaxId
    BY <1>1, CommandOutboxAssumption DEF CommandInv
<1>3. tx[r].n \in Nat
  <2>1. tx[r] \in Tx
      BY DEF CommandInv, IndInv, TypeOK
  <2>2. QED
      BY <2>1 DEF Tx
<1>4. x.req = r /\ x.emit \in 1..tx[r].n
    BY DEF CommandInv, IndInv, OutboxInv, OutboxPart, OnePerEmit
<1>5. QED
    BY <1>1, <1>2, <1>3, <1>4, CommandOutboxAssumption

(***************************************************************************)
(* The table changes only by a commit, which adds the rows of one request  *)
(* that had none, with ids no row of the table has.                        *)
(***************************************************************************)
LEMMA TableGrows ==
    ASSUME CommandInv, [Next]_vars
    PROVE  \/ outbox' = outbox
           \/ \E r \in Requests :
                 /\ outbox' = outbox \cup tx[r].inserted
                 /\ \A x \in tx[r].inserted : x.req = r
                 /\ \A y \in outbox : y.req # r
                 /\ \A x \in tx[r].inserted, y \in outbox : x.id # y.id
<1>1. CASE UNCHANGED vars
    BY <1>1 DEF vars
<1>2. ASSUME NEW r \in Requests, ActionOf(r), NEW answer \in {"publish", "error"},
             Commit(r, answer)
      PROVE  /\ outbox' = outbox \cup tx[r].inserted
             /\ \A x \in tx[r].inserted : x.req = r
             /\ \A y \in outbox : y.req # r
             /\ \A x \in tx[r].inserted, y \in outbox : x.id # y.id
  <2>1. outbox' = outbox \cup tx[r].inserted /\ pc[r] = "commit"
      BY <1>2 DEF Commit
  <2>2. \A x \in tx[r].inserted : x.req = r
      BY DEF CommandInv, IndInv, OutboxInv, OutboxPart, OnePerEmit
  <2>3. commits[r] = 0
      BY <2>1 DEF CommandInv, IndInv, CommitInv, BeforeCommit, InTx
  <2>4. \A y \in outbox : y.req # r
      BY <2>3, RowFacts
  <2>5. \A x \in tx[r].inserted, y \in outbox : x.id # y.id
      BY <2>2, <2>4 DEF CommandInv, IdsInv, AnyRow
  <2>6. QED
      BY <2>1, <2>2, <2>4, <2>5
<1>3. ASSUME NEW r \in Requests, ActionOf(r),
             ~ \E answer \in {"publish", "error"} : Commit(r, answer)
      PROVE  outbox' = outbox
  <2> USE DEF db
  <2>1. ASSUME NEW retryable \in BOOLEAN, Rollback(r, retryable) PROVE outbox' = outbox
      BY <2>1 DEF Rollback
  <2>2. CASE LockLifecycleTransition(r) \/ ApplyEffect(r)
      BY <2>1, <2>2 DEF LockLifecycleTransition, ApplyEffect
  <2>3. QED
      BY <1>3, <2>1, <2>2 DEF ActionOf, Admit, Reject, ApplyReturns, Begin, LockRow,
         AdvanceLifecycleTransition, WriteOutboxRow, WriteAuditRow,
         WriteAuditMaterializeRow, PublishEmits, InvalidateQueries, RetryAfterBackoff,
         CancelInBackoff, Crash
<1>4. QED
    BY <1>1, <1>2, <1>3, NextIsAction

\* A committed row stays in the table.
LEMMA IdsGrow ==
    ASSUME CommandInv, [Next]_vars
    PROVE  CommittedIds \subseteq CommittedIds'
<1>1. outbox \subseteq outbox'
    BY TableGrows
<1>2. QED
    BY <1>1 DEF CommittedIds
-----------------------------------------------------------------------------
PumpAction(p) ==
    \/ P!SelectBatch(p) \/ P!NextRow(p) \/ P!EndOfPass(p) \/ P!Dispatch(p)
    \/ P!DispatchError(p) \/ P!DispatchErrorAfterSend(p) \/ P!MarkDispatched(p)
    \/ P!MarkError(p) \/ P!PumpCrash(p)

ReceiverAction(v) ==
    \/ \E i \in 1..MaxId : P!Receive(v, i)
    \/ P!AlreadySeen(v) \/ P!RunHandler(v) \/ P!MarkSeen(v) \/ P!ReceiverFails(v)

(***************************************************************************)
(* A step of the composed system, by the side that takes it.               *)
(***************************************************************************)
LEMMA ComposedActions ==
    ASSUME [ComposedNext]_allVars
    PROVE  \/ [Next]_vars /\ UNCHANGED deliveryVars
           \/ UNCHANGED vars /\ \E p \in Pumps : PumpAction(p)
           \/ UNCHANGED vars /\ \E v \in Receivers : ReceiverAction(v)
    BY DEF ComposedNext, Commanding, Delivering, allVars, PumpAction, ReceiverAction,
           P!PumpStep, P!Attempt, P!PumpFailure, P!ReceiverStep, P!Ids

LEMMA PumpPath ==
    ASSUME CommandInv, PathInv, UNCHANGED vars, NEW p \in Pumps, PumpAction(p)
    PROVE  PathInv' /\ UNCHANGED handled
<1> DEFINE C == CommittedIds
<1>c. C \subseteq 1..MaxId /\ C' = C /\ 0 \notin C
  <2>1. C' = C
      BY DEF vars, CommittedIds
  <2>2. QED
      BY <2>1, IdRange
<1> HIDE DEF C
<1>i. /\ pump \in [Pumps -> {"idle", "next", "dispatch", "mark"}]
      /\ batch \in [Pumps -> SUBSET C]
      /\ current \in [Pumps -> C \cup {0}]
      /\ \A q \in Pumps : pump[q] \in {"dispatch", "mark"} => current[q] # 0
      /\ transport \in [1..MaxId -> Nat] /\ sent \in [1..MaxId -> Nat]
      /\ \A i \in 1..MaxId : transport[i] > 0 \/ sent[i] > 0 => i \in C
    BY DEF PathInv, DeliveryTypes, OnTheWay, Arrived, C
\* It is enough to look at what the pump changes.
<1>f. ASSUME /\ pump' \in [Pumps -> {"idle", "next", "dispatch", "mark"}]
             /\ batch' \in [Pumps -> SUBSET C]
             /\ current' \in [Pumps -> C \cup {0}]
             /\ \A q \in Pumps : pump'[q] \in {"dispatch", "mark"} => current'[q] # 0
             /\ transport' \in [1..MaxId -> Nat] /\ sent' \in [1..MaxId -> Nat]
             /\ \A i \in 1..MaxId : transport'[i] > 0 \/ sent'[i] > 0 => i \in C
      PROVE  PathInv' /\ UNCHANGED handled
  <2>1. UNCHANGED <<worker, message, handled>>
      BY DEF PumpAction, P!SelectBatch, P!NextRow, P!EndOfPass, P!Dispatch,
         P!DispatchError, P!DispatchErrorAfterSend, P!MarkDispatched, P!MarkError,
         P!PumpCrash, P!receiverVars
  <2>2. DeliveryTypes'
      BY <1>f, <2>1 DEF PathInv, DeliveryTypes
  <2>3. OnTheWay'
      BY <1>c, <1>f, <2>1 DEF PathInv, OnTheWay, C
  <2>4. Arrived'
      BY <1>c, <1>f, <2>1 DEF PathInv, Arrived, C
  <2>5. QED
      BY <2>1, <2>2, <2>3, <2>4 DEF PathInv
<1>h. ASSUME P!Hand(current[p]), pump[p] = "dispatch"
      PROVE  /\ transport' \in [1..MaxId -> Nat] /\ sent' \in [1..MaxId -> Nat]
             /\ \A i \in 1..MaxId : transport'[i] > 0 \/ sent'[i] > 0 => i \in C
  <2>1. current[p] \in C /\ current[p] \in 1..MaxId
      BY <1>c, <1>h, <1>i
  <2>2. QED
      BY <1>h, <1>i, <2>1 DEF P!Hand
<1>1. CASE P!SelectBatch(p)
  <2>1. P!Selected \subseteq C
      BY DEF P!Selected, P!Undispatched, C
  <2>2. QED
      BY <1>1, <1>f, <1>i, <2>1 DEF P!SelectBatch
<1>2. CASE P!NextRow(p)
    BY <1>2, <1>c, <1>f, <1>i DEF P!NextRow
<1>3. CASE P!EndOfPass(p)
    BY <1>3, <1>f, <1>i DEF P!EndOfPass
<1>4. CASE P!Dispatch(p)
    BY <1>4, <1>f, <1>h, <1>i DEF P!Dispatch
<1>5. CASE P!DispatchError(p)
    BY <1>5, <1>f, <1>i DEF P!DispatchError
<1>6. CASE P!DispatchErrorAfterSend(p)
    BY <1>6, <1>f, <1>h, <1>i DEF P!DispatchErrorAfterSend
<1>7. CASE P!MarkDispatched(p)
    BY <1>7, <1>f, <1>i DEF P!MarkDispatched
<1>8. CASE P!MarkError(p) \/ P!PumpCrash(p)
    BY <1>8, <1>f, <1>i DEF P!MarkError, P!PumpCrash
<1>9. QED
    BY <1>1, <1>2, <1>3, <1>4, <1>5, <1>6, <1>7, <1>8 DEF PumpAction

LEMMA ReceiverPath ==
    ASSUME CommandInv, PathInv, UNCHANGED vars, NEW v \in Receivers, ReceiverAction(v)
    PROVE  /\ PathInv'
           /\ \/ UNCHANGED handled
              \/ \E i \in CommittedIds : handled' = [handled EXCEPT ![i] = @ + 1]
<1> DEFINE C == CommittedIds
<1>c. C \subseteq 1..MaxId /\ C' = C /\ 0 \notin C
  <2>1. C' = C
      BY DEF vars, CommittedIds
  <2>2. QED
      BY <2>1, IdRange
<1> HIDE DEF C
<1>i. /\ worker \in [Receivers -> {"idle", "check", "handle", "mark"}]
      /\ message \in [Receivers -> C \cup {0}]
      /\ \A u \in Receivers : worker[u] # "idle" => message[u] # 0
      /\ transport \in [1..MaxId -> Nat] /\ handled \in [1..MaxId -> Nat]
      /\ \A i \in 1..MaxId : transport[i] > 0 \/ handled[i] > 0 => i \in C
    BY DEF PathInv, DeliveryTypes, OnTheWay, Arrived, C
<1>m. worker[v] # "idle" => message[v] \in C /\ message[v] \in 1..MaxId
    BY <1>c, <1>i
\* It is enough to look at what the receiver changes.
<1>f. ASSUME /\ worker' \in [Receivers -> {"idle", "check", "handle", "mark"}]
             /\ message' \in [Receivers -> C \cup {0}]
             /\ \A u \in Receivers : worker'[u] # "idle" => message'[u] # 0
             /\ transport' \in [1..MaxId -> Nat] /\ handled' \in [1..MaxId -> Nat]
             /\ \A i \in 1..MaxId : transport'[i] > 0 \/ handled'[i] > 0 => i \in C
      PROVE  PathInv'
  <2>1. UNCHANGED <<pump, batch, current, sent>>
      BY DEF ReceiverAction, P!Receive, P!AlreadySeen, P!RunHandler, P!MarkSeen,
         P!ReceiverFails, P!pumpVars
  <2>2. DeliveryTypes'
      BY <1>f, <2>1 DEF PathInv, DeliveryTypes
  <2>3. OnTheWay'
      BY <1>c, <1>f, <2>1 DEF PathInv, OnTheWay, C
  <2>4. Arrived'
      BY <1>c, <1>f, <2>1 DEF PathInv, Arrived, C
  <2>5. QED
      BY <2>2, <2>3, <2>4 DEF PathInv
<1>1. ASSUME NEW i \in 1..MaxId, P!Receive(v, i) PROVE PathInv' /\ UNCHANGED handled
    BY <1>1, <1>c, <1>f, <1>i DEF P!Receive
<1>2. CASE P!AlreadySeen(v)
    BY <1>2, <1>f, <1>i DEF P!AlreadySeen, P!Done
<1>3. CASE P!RunHandler(v)
  <2>1. PICK i \in 1..MaxId : i = message[v] /\ i \in C
      BY <1>3, <1>m DEF P!RunHandler
  <2>2. /\ handled' = [handled EXCEPT ![i] = @ + 1]
        /\ worker' = [worker EXCEPT ![v] = "mark"]
        /\ message' = message /\ transport' = transport
      BY <1>3, <2>1 DEF P!RunHandler
  <2>3. /\ handled' \in [1..MaxId -> Nat]
        /\ \A j \in 1..MaxId : handled'[j] > 0 => j \in C
      BY <1>i, <2>1, <2>2
  <2>4. \A u \in Receivers : worker'[u] # "idle" => message'[u] # 0
      BY <1>c, <1>i, <2>1, <2>2
  <2>5. PathInv'
      BY <1>f, <1>i, <2>2, <2>3, <2>4
  <2>6. QED
      BY <2>1, <2>2, <2>5 DEF C
<1>4. CASE P!MarkSeen(v)
    BY <1>4, <1>f, <1>i DEF P!MarkSeen, P!Done
<1>5. CASE P!ReceiverFails(v)
    BY <1>5, <1>f, <1>i, <1>m DEF P!ReceiverFails, P!Done
<1>6. QED
    BY <1>1, <1>2, <1>3, <1>4, <1>5 DEF ReceiverAction

LEMMA StepPathInv == CommandInv /\ PathInv /\ [ComposedNext]_allVars => PathInv'
<1> SUFFICES ASSUME CommandInv, PathInv, [ComposedNext]_allVars PROVE PathInv'
    OBVIOUS
<1>1. CASE [Next]_vars /\ UNCHANGED deliveryVars
  <2>1. CommittedIds \subseteq CommittedIds'
      BY <1>1, IdsGrow
  <2>2. QED
      BY <1>1, <2>1 DEF PathInv, DeliveryTypes, OnTheWay, Arrived, deliveryVars
<1>2. QED
    BY <1>1, ComposedActions, PumpPath, ReceiverPath

LEMMA InitPathInv == ComposedInit => PathInv
    BY DEF ComposedInit, P!Init, P!Ids, PathInv, DeliveryTypes, OnTheWay, Arrived

(***************************************************************************)
(* The inductive invariant of the composed system.                         *)
(***************************************************************************)
LEMMA ComposedInvariance == ComposedSpec => [](CommandInv /\ PathInv)
    BY InitCommandInv, InitPathInv, StepCommandInv, StepPathInv, PTL DEF ComposedSpec

(***************************************************************************)
(* The pumps never invent work, whatever fails on the way: what is sent or *)
(* handled is the row of a transaction that committed.                     *)
(***************************************************************************)
THEOREM NothingInvented == ComposedSpec => []OnlyCommittedEvents
<1>1. CommandInv /\ PathInv => OnlyCommittedEvents
  <2> SUFFICES ASSUME CommandInv, PathInv, NEW i \in 1..MaxId, sent[i] > 0 \/ handled[i] > 0
               PROVE  \E x \in outbox : x.id = i /\ commits[x.req] = 1
      BY DEF OnlyCommittedEvents
  <2>1. i \in CommittedIds
      BY DEF PathInv, Arrived
  <2>2. QED
      BY <2>1, RowFacts DEF CommittedIds
<1>2. QED
    BY <1>1, ComposedInvariance, PTL
-----------------------------------------------------------------------------
(***************************************************************************)
(* What a commit adds to the pumps' table, as CommitRows describes it.     *)
(***************************************************************************)
LEMMA CommitIsCommitRows ==
    ASSUME CommandInv, [Next]_vars, UNCHANGED deliveryVars
    PROVE  (\E S \in SUBSET P!Ids : P!CommitRows(S)) \/ UNCHANGED P!vars
<1>u. UNCHANGED <<transport, P!pumpVars, P!receiverVars>>
    BY DEF deliveryVars, P!pumpVars, P!receiverVars
<1>1. CASE outbox' = outbox
  <2>1. UNCHANGED CommittedIds
      BY <1>1 DEF CommittedIds
  <2>2. QED
      BY <1>u, <2>1 DEF P!vars
<1>2. ASSUME NEW r \in Requests,
             outbox' = outbox \cup tx[r].inserted,
             tx[r].inserted # {},
             \A x \in tx[r].inserted, y \in outbox : x.id # y.id
      PROVE  \E S \in SUBSET P!Ids : P!CommitRows(S)
  <2> DEFINE S == {x.id : x \in tx[r].inserted}
  <2>1. S # {} /\ S \cap CommittedIds = {}
      BY <1>2 DEF CommittedIds
  <2>2. CommittedIds' = CommittedIds \cup S
      BY <1>2 DEF CommittedIds
  <2>3. S \in SUBSET P!Ids
      BY PendingFacts DEF P!Ids
  <2> HIDE DEF S
  <2>4. P!CommitRows(S)
      BY <1>u, <2>1, <2>2 DEF P!CommitRows
  <2>5. QED
      BY <2>3, <2>4
<1>3. QED
    BY <1>1, <1>2, TableGrows

(***************************************************************************)
(* Seen from the pumps and receivers the composed system is OutboxPump:    *)
(* the transactions of the command pipeline make rows visible only in the  *)
(* ways CommitRows allows, so what is proved of the pumps alone (no event  *)
(* is lost, copies and runs are bounded) is proved of the whole path.      *)
(***************************************************************************)
THEOREM PumpSide == ComposedSpec => P!Spec
<1>1. ComposedInit => P!Init
    BY DEF ComposedInit
<1>2. CommandInv /\ [ComposedNext]_allVars => [P!Next]_(P!vars)
  <2> SUFFICES ASSUME CommandInv, [ComposedNext]_allVars PROVE [P!Next]_(P!vars)
      OBVIOUS
  <2>1. CASE Delivering
      BY <2>1 DEF Delivering, P!Next
  <2>2. CASE [Next]_vars /\ UNCHANGED deliveryVars
      BY <2>2, CommitIsCommitRows DEF P!Next
  <2>3. QED
      BY <2>1, <2>2 DEF ComposedNext, Commanding, allVars
<1>3. QED
    BY <1>1, <1>2, ComposedInvariance, PTL DEF ComposedSpec, P!Spec
-----------------------------------------------------------------------------
Due  == {<<x.req, x.emit>> : x \in outbox}
Over == {<<x.req, x.emit>> : x \in {y \in outbox : handled[y.id] > 0}}

LEMMA DeliveryNext ==
    /\ Delivery!Init <=> Due = {} /\ Over = {}
    /\ UNCHANGED <<Due, Over>> => [Delivery!Next]_<<Due, Over>>
    /\ \A S \in SUBSET (Requests \X (1..MaxId)) :
          S # {} /\ S \cap Due = {} /\ Due' = Due \cup S /\ Over' = Over => Delivery!Next
    /\ \A e \in Requests \X (1..MaxId) :
          e \in Due /\ Over' = Over \cup {e} /\ Due' = Due => Delivery!Next
    BY DEF Delivery!Init, Delivery!Next, Delivery!Emit, Delivery!Handle, Due, Over

\* A commit makes the guaranteed emits of its command due, all at once.
LEMMA CommitIsEmit ==
    ASSUME CommandInv, PathInv, [Next]_vars, UNCHANGED deliveryVars
    PROVE  [Delivery!Next]_<<Due, Over>>
<1>h. handled' = handled
    BY DEF deliveryVars
<1>1. CASE outbox' = outbox
  <2>1. UNCHANGED <<Due, Over>>
      BY <1>1, <1>h DEF Due, Over
  <2>2. QED
      BY <2>1, DeliveryNext
<1>2. ASSUME NEW r \in Requests,
             outbox' = outbox \cup tx[r].inserted,
             tx[r].inserted # {},
             \A y \in outbox : y.req # r,
             \A x \in tx[r].inserted, y \in outbox : x.id # y.id
      PROVE  Delivery!Next
  <2> DEFINE S == {<<x.req, x.emit>> : x \in tx[r].inserted}
  <2>1. S \in SUBSET (Requests \X (1..MaxId)) /\ S # {}
    <3>1. \A x \in tx[r].inserted : x.req \in Requests /\ x.emit \in 1..MaxId
        BY PendingFacts
    <3>2. \A x \in tx[r].inserted : <<x.req, x.emit>> \in Requests \X (1..MaxId)
        BY <3>1
    <3>3. S # {}
        BY <1>2
    <3>4. QED
        BY <3>2, <3>3
  <2>2. S \cap Due = {}
    <3>1. \A e \in S : e[1] = r
        BY PendingFacts
    <3>2. \A e \in Due : e[1] # r
        BY <1>2 DEF Due
    <3>3. QED
        BY <3>1, <3>2
  <2>3. Due' = Due \cup S
      BY <1>2 DEF Due
  <2>4. \A x \in tx[r].inserted : ~ (handled[x.id] > 0)
    <3>1. \A x \in tx[r].inserted : x.id \in 1..MaxId /\ x.id \notin CommittedIds
        BY <1>2, PendingFacts DEF CommittedIds
    <3>2. QED
        BY <3>1 DEF PathInv, Arrived
  <2>5. {y \in outbox' : handled'[y.id] > 0} = {y \in outbox : handled[y.id] > 0}
      BY <1>2, <1>h, <2>4
  <2>6. Over' = Over
      BY <2>5 DEF Over
  <2> HIDE DEF S
  <2>7. QED
      BY <2>1, <2>2, <2>3, <2>6, DeliveryNext
<1>3. QED
    BY <1>1, <1>2, TableGrows

\* A run of the handler is the handling of the one event its row stands for.
LEMMA RunIsHandle ==
    ASSUME CommandInv, PathInv, UNCHANGED vars, NEW i \in CommittedIds,
           handled' = [handled EXCEPT ![i] = @ + 1]
    PROVE  Delivery!Next
<1>1. outbox' = outbox
    BY DEF vars
<1>2. PICK x \in outbox : x.id = i
    BY DEF CommittedIds
<1>3. \A y \in outbox : y.id = i => y = x
    BY <1>2 DEF CommandInv, IdsInv, AnyRow
<1>4. i \in 1..MaxId /\ handled \in [1..MaxId -> Nat]
    BY IdRange DEF PathInv, DeliveryTypes
<1>5. handled'[i] > 0 /\ \A j \in 1..MaxId : j # i => handled'[j] = handled[j]
    BY <1>4
<1> DEFINE e == <<x.req, x.emit>>
           A == {y \in outbox : handled[y.id] > 0}
           B == {y \in outbox' : handled'[y.id] > 0}
<1>6. B = A \cup {x}
  <2>1. \A y \in outbox : y.id \in 1..MaxId
      BY RowFacts
  <2>2. \A y \in outbox : y # x => handled'[y.id] = handled[y.id]
      BY <1>3, <1>5, <2>1
  <2>3. QED
      BY <1>1, <1>2, <1>5, <2>2
<1>7. Over' = Over \cup {e}
  <2>1. Over' = {<<y.req, y.emit>> : y \in B} /\ Over = {<<y.req, y.emit>> : y \in A}
      BY DEF Over
  <2> HIDE DEF A, B
  <2>2. QED
      BY <1>6, <2>1
<1>8. Due' = Due /\ e \in Due
    BY <1>1, <1>2 DEF Due
<1>9. e \in Requests \X (1..MaxId)
    BY RowFacts
<1> HIDE DEF e
<1>10. QED
    BY <1>7, <1>8, <1>9, DeliveryNext

LEMMA StepDelivery ==
    CommandInv /\ PathInv /\ [ComposedNext]_allVars => [Delivery!Next]_<<Due, Over>>
<1> SUFFICES ASSUME CommandInv, PathInv, [ComposedNext]_allVars
             PROVE  [Delivery!Next]_<<Due, Over>>
    OBVIOUS
<1>1. CASE [Next]_vars /\ UNCHANGED deliveryVars
    BY <1>1, CommitIsEmit
<1>2. CASE UNCHANGED vars /\ UNCHANGED handled
  <2>1. UNCHANGED <<Due, Over>>
      BY <1>2 DEF vars, Due, Over
  <2>2. QED
      BY <2>1, DeliveryNext
<1>3. CASE UNCHANGED vars /\ \E p \in Pumps : PumpAction(p)
    BY <1>2, <1>3, PumpPath
<1>4. CASE UNCHANGED vars /\ \E v \in Receivers : ReceiverAction(v)
    BY <1>2, <1>4, ReceiverPath, RunIsHandle
<1>5. QED
    BY <1>1, <1>3, <1>4, ComposedActions

(***************************************************************************)
(* The pipeline implements what "outbox guaranteed" promises, as far as it *)
(* is safety: the emits of a command become due together and once, only    *)
(* due events are handled, and nothing that is due is ever taken back.     *)
(***************************************************************************)
THEOREM DeliverySafety == ComposedSpec => Delivery!Safety
<1>1. ComposedInit => Due = {} /\ Over = {}
    BY DEF ComposedInit, Init, Due, Over
<1>2. ComposedInit => Delivery!Init
    BY <1>1, DeliveryNext
<1>3. [Delivery!Next]_<<Due, Over>> <=>
        [Delivery!Next]_<<{<<x.req, x.emit>> : x \in outbox},
                          {<<x.req, x.emit>> : x \in {y \in outbox : handled[y.id] > 0}}>>
    BY DEF Due, Over
<1>4. QED
    BY <1>2, <1>3, StepDelivery, ComposedInvariance, PTL DEF ComposedSpec, Delivery!Safety
=============================================================================
