-------------------------- MODULE QueueSafetyProofs --------------------------
(***************************************************************************)
(* The queue's safety properties, for every number of requests, users,     *)
(* models, failed writes and crashes: the inductive invariant of           *)
(* QueueInvariant is kept by every step, and the properties follow.  Then  *)
(* the cap on waiting tasks and the order of dispatch, and last that the   *)
(* queue implements the escrow of Escrow.tla.                              *)
(***************************************************************************)
EXTENDS QueueInvariant, QueueProofs

-----------------------------------------------------------------------------
(* The inductive invariant, one lemma per group of actions. *)

LEMMA InvInit == Init => IInv
BY DEF Init, IInv, LockInv, RecInv, PcInv, StatusInv, UntornInv, Outstanding,
       RefundPending, Locked, Executing

LEMMA InvSubmit ==
    ASSUME TypeOK, IInv, NEW t \in Tasks, SubmitAITask(t) PROVE IInv'
<1> USE DEF IInv, LockInv, RecInv, PcInv, StatusInv, UntornInv, Outstanding,
        RefundPending, Locked, Executing, TypeOK, Go, Fault, Tear, DeleteRequest,
        SetStatus, rowVars, moneyVars, lockVars, bootVars, clockVars
<1>1. CASE Submit(t) BY <1>1 DEF Submit
<1>2. CASE TurnAway(t) BY <1>2 DEF TurnAway
<1>3. CASE Debit(t) BY <1>3 DEF Debit, Charge, Affordable
<1>4. CASE DebitUnlogged(t) BY <1>4 DEF DebitUnlogged, Charge, Affordable
<1>5. CASE SaveExecuting(t) BY <1>5 DEF SaveExecuting
<1>6. CASE SaveQueued(t) BY <1>6 DEF SaveQueued
<1>7. CASE SaveError(t) BY <1>7 DEF SaveError
<1>8. CASE Rollback(t) BY <1>8 DEF Rollback, Refund
<1>9. QED BY <1>1, <1>2, <1>3, <1>4, <1>5, <1>6, <1>7, <1>8 DEF SubmitAITask

LEMMA InvCancel ==
    ASSUME TypeOK, IInv, NEW t \in Tasks, CancelGenerationTask(t) PROVE IInv'
<1> USE DEF IInv, LockInv, RecInv, PcInv, StatusInv, UntornInv, Outstanding,
        RefundPending, Locked, Executing, TypeOK, Go, Fault, Tear, DeleteRequest,
        SetStatus, rowVars, moneyVars, lockVars, bootVars, clockVars
<1>1. CASE CancelRefund(t) BY <1>1 DEF CancelRefund, Refund
<1>2. CASE CancelUnlogged(t) BY <1>2 DEF CancelUnlogged, Refund
<1>3. CASE CancelMark(t) BY <1>3 DEF CancelMark
<1>4. CASE CancelMarkError(t) BY <1>4 DEF CancelMarkError
<1>5. CASE CancelCleanup(t) BY <1>5 DEF CancelCleanup
<1>6. QED BY <1>1, <1>2, <1>3, <1>4, <1>5 DEF CancelGenerationTask

LEMMA InvExecute ==
    ASSUME TypeOK, IInv, NEW t \in Tasks, ExecuteTask(t) PROVE IInv'
<1> USE DEF IInv, LockInv, RecInv, PcInv, StatusInv, UntornInv, Outstanding,
        RefundPending, Locked, Executing, TypeOK, Go, Fault, Tear, SetStatus,
        UpdateStatus, execUnchanged, moneyVars, lockVars, bootVars, clockVars
<1>1. CASE CallProxy(t) BY <1>1 DEF CallProxy
<1>2. CASE PayloadLost(t) BY <1>2 DEF PayloadLost
<1>3. CASE MarkSucceeded(t) BY <1>3 DEF MarkSucceeded
<1>4. CASE MarkSucceededError(t) BY <1>4 DEF MarkSucceededError
<1>5. CASE MarkFailed(t) BY <1>5 DEF MarkFailed
<1>6. CASE RefundFailed(t) BY <1>6 DEF RefundFailed, Refund
<1>7. QED BY <1>1, <1>2, <1>3, <1>4, <1>5, <1>6 DEF ExecuteTask

\* A dispatched batch consists of queued rows, and is all that changes.
LEMMA BatchIsQueued ==
    ASSUME NEW m \in Models, NEW k, NEW j, StartOldest(m, k, j)
    PROVE  \E batch \in SUBSET {t \in Tasks : status[t] = "queued"} :
              /\ status' = [t \in Tasks |-> IF t \in batch THEN "executing" ELSE status[t]]
              /\ pc' = [t \in Tasks |-> IF t \in batch THEN "exec" ELSE pc[t]]
BY DEF StartOldest, QueuedFor

LEMMA InvDispatch ==
    ASSUME TypeOK, IInv, DispatchQueuedTasks PROVE IInv'
<1>1. CASE DispatchStart
  BY <1>1 DEF DispatchStart, IInv, LockInv, RecInv, PcInv, StatusInv, UntornInv,
              Outstanding, RefundPending, Locked, Executing, rowVars, moneyVars,
              bootVars
<1>2. ASSUME NEW m \in Models, DispatchModel(m) \/ DispatchError(m) PROVE IInv'
  <2>1. \E k, j : StartOldest(m, k, j) BY <1>2 DEF DispatchModel, DispatchError
  <2>2. PICK batch \in SUBSET {t \in Tasks : status[t] = "queued"} :
              /\ status' = [t \in Tasks |-> IF t \in batch THEN "executing" ELSE status[t]]
              /\ pc' = [t \in Tasks |-> IF t \in batch THEN "exec" ELSE pc[t]]
    BY <2>1, BatchIsQueued
  <2>3. /\ UNCHANGED <<req, credits, charges, refunds, rec, items, starts, torn>>
        /\ mu = "scheduler"
    BY <1>2 DEF DispatchModel, DispatchError, moneyVars, bootVars
  <2>4. LockInv' /\ RecInv'
    BY <2>2, <2>3 DEF IInv, LockInv, RecInv, Locked, TypeOK
  <2>5. ASSUME NEW t \in Tasks
        PROVE  PcInv(t)' /\ StatusInv(t)' /\ (t \notin torn' => UntornInv(t)')
    BY <2>2, <2>3, <2>5 DEF IInv, LockInv, PcInv, StatusInv, UntornInv,
              Outstanding, RefundPending, Locked, Executing, TypeOK
  <2>6. QED BY <2>4, <2>5 DEF IInv
<1>3. QED BY <1>1, <1>2 DEF DispatchQueuedTasks

LEMMA InvRecover ==
    ASSUME TypeOK, IInv, RecoverExecutingTasks PROVE IInv'
<1> USE DEF IInv, LockInv, RecInv, PcInv, StatusInv, UntornInv, Outstanding,
        RefundPending, Locked, Executing, TypeOK, Fault, Tear,
        bootUnchanged, moneyVars, lockVars, clockVars
<1>1. CASE RecoverSelect BY <1>1 DEF RecoverSelect
<1>2. CASE RecoverMark BY <1>2 DEF RecoverMark
<1>3. CASE \E t \in Tasks : RecoverRefund(t) BY <1>3 DEF RecoverRefund, Refund
<1>4. QED BY <1>1, <1>2, <1>3 DEF RecoverExecutingTasks

LEMMA InvEnvironment ==
    ASSUME TypeOK, IInv, Environment PROVE IInv'
<1> USE DEF IInv, LockInv, RecInv, PcInv, StatusInv, UntornInv, Outstanding,
        RefundPending, Locked, Executing, TypeOK, Tear, rowVars, moneyVars,
        lockVars, bootVars, clockVars
<1>1. CASE ToggleQueue BY <1>1 DEF ToggleQueue
<1>2. CASE Tick BY <1>2 DEF Tick
<1>3. CASE Crash BY <1>3 DEF Crash
<1>4. QED BY <1>1, <1>2, <1>3 DEF Environment

LEMMA InvNext == ASSUME TypeOK, IInv, [Next]_vars PROVE IInv'
<1> USE DEF IInv, LockInv, RecInv, PcInv, StatusInv, UntornInv, Outstanding,
        RefundPending, Locked, Executing, TypeOK, DeleteRequest, SetStatus, Fault,
        rowVars, moneyVars, lockVars, bootVars, clockVars
<1>1. ASSUME NEW t \in Tasks, CleanupOld(t) PROVE IInv'
  <2>1. CASE SetStatus(t, "deleted") BY <1>1, <2>1 DEF CleanupOld, Terminal
  <2>2. CASE UNCHANGED status BY <1>1, <2>2 DEF CleanupOld, Terminal
  <2>3. QED BY <1>1, <2>1, <2>2 DEF CleanupOld
<1>2. ASSUME NEW t \in Tasks, ExpirePayload(t) PROVE IInv'
  BY <1>2 DEF ExpirePayload
<1>3. CASE UNCHANGED vars BY <1>3 DEF vars
<1> HIDE DEF IInv, LockInv, RecInv, PcInv, StatusInv, UntornInv, TypeOK, Fault,
        rowVars, moneyVars, lockVars, bootVars, clockVars
<1>4. QED
  BY <1>1, <1>2, <1>3, InvSubmit, InvCancel, InvExecute, InvDispatch, InvRecover,
     InvEnvironment DEF Next

\* Goroutines, rows, lock, recovery and money agree in every reachable state.
THEOREM Invariant == Spec => [](TypeOK /\ IInv)
<1>1. Init => TypeOK /\ IInv BY TypeInit, InvInit
<1>2. (TypeOK /\ IInv) /\ [Next]_vars => (TypeOK /\ IInv)' BY TypeNext, InvNext
<1>3. QED BY <1>1, <1>2, PTL DEF Spec

-----------------------------------------------------------------------------
(* The safety properties. *)

\* No request is sent upstream or charged twice, and a cancelled one never runs.
THEOREM RunsOnce == Spec => []ExecutedOnce
<1>1. TypeOK /\ IInv => ExecutedOnce BY DEF IInv, StatusInv, ExecutedOnce
<1>2. QED BY <1>1, Invariant, PTL

\* A queued row still has its payload, unless the sweeper took it.
THEOREM PayloadKept == Spec => []QueuedHasPayload
<1>1. TypeOK /\ IInv => QueuedHasPayload BY DEF IInv, StatusInv, QueuedHasPayload
<1>2. QED BY <1>1, Invariant, PTL

\* An executing row that no failure tore is executing or about to be recovered.
THEOREM NoOrphans == Spec => []NoOrphanExecuting
<1>1. TypeOK /\ IInv => NoOrphanExecuting
  BY DEF IInv, UntornInv, NoOrphanExecuting
<1>2. QED BY <1>1, Invariant, PTL

\* Debits minus refunds are what the state of an untorn request says they are.
THEOREM MoneyIsExact == Spec => []MoneyExact
<1>1. TypeOK /\ IInv => MoneyExact BY DEF IInv, UntornInv, MoneyExact, TypeOK
<1>2. QED BY <1>1, Invariant, PTL

\* What an untorn step may do to an outcome.
LEMMA FinalStep ==
    ASSUME TypeOK, IInv, [Next]_vars, NEW t \in Tasks \ torn,
           status[t] \in Terminal
    PROVE  status'[t] \in {status[t], "deleted"}
<1> USE DEF IInv, PcInv, StatusInv, UntornInv, Terminal, Executing, TypeOK
<1>1. ASSUME NEW s \in Tasks, SubmitAITask(s) PROVE status'[t] = status[t]
  BY <1>1 DEF SubmitAITask, Submit, TurnAway, Debit, DebitUnlogged, SaveExecuting,
       SaveQueued, SaveError, Rollback, SetStatus, rowVars
<1>2. ASSUME NEW s \in Tasks, CancelGenerationTask(s) PROVE status'[t] = status[t]
  BY <1>2 DEF CancelGenerationTask, CancelRefund, CancelUnlogged, CancelMark,
       CancelMarkError, CancelCleanup, SetStatus, rowVars
<1>3. ASSUME NEW s \in Tasks, ExecuteTask(s) PROVE status'[t] = status[t]
  BY <1>3 DEF ExecuteTask, CallProxy, PayloadLost, MarkSucceeded,
       MarkSucceededError, MarkFailed, RefundFailed, SetStatus, UpdateStatus
<1>4. CASE DispatchQueuedTasks
  <2>1. CASE DispatchStart BY <2>1 DEF DispatchStart, rowVars
  <2>2. ASSUME NEW m \in Models, DispatchModel(m) \/ DispatchError(m)
        PROVE  status'[t] = status[t]
    <3>1. \E k, j : StartOldest(m, k, j) BY <2>2 DEF DispatchModel, DispatchError
    <3>2. QED BY <3>1, BatchIsQueued
  <2>3. QED BY <1>4, <2>1, <2>2 DEF DispatchQueuedTasks
<1>5. CASE RecoverExecutingTasks
  BY <1>5 DEF RecoverExecutingTasks, RecoverSelect, RecoverMark, RecoverRefund
<1>6. ASSUME NEW s \in Tasks, CleanupOld(s) \/ ExpirePayload(s)
      PROVE  status'[t] \in {status[t], "deleted"}
  BY <1>6 DEF CleanupOld, ExpirePayload, SetStatus
<1>7. CASE Environment
  BY <1>7 DEF Environment, ToggleQueue, Tick, Crash, rowVars
<1>8. CASE UNCHANGED vars BY <1>8 DEF vars, rowVars
<1> HIDE DEF IInv, TypeOK, Terminal
<1>9. QED BY <1>1, <1>2, <1>3, <1>4, <1>5, <1>6, <1>7, <1>8 DEF Next

\* The outcome of an untorn request never changes before its row is deleted.
THEOREM OutcomesAreFinal == Spec => OutcomeIsFinal
<1>1. TypeOK /\ IInv /\ [Next]_vars =>
        [\A t \in Tasks \ torn : status[t] \in Terminal =>
            status'[t] \in {status[t], "deleted"}]_vars
  BY FinalStep
<1>2. QED BY <1>1, Invariant, PTL DEF Spec, OutcomeIsFinal

-----------------------------------------------------------------------------
(* The cap: a submission that has passed the check and will join the queue
   counts as waiting from its debit on.  The lock makes it the only one. *)

Reserved(u) == {t \in Tasks : UserOf[t] = u /\ pc[t] = "charged" /\ snap[t]}
Waiting(u)  == QueuedBy(u) \cup Reserved(u)

CapInv == \A u \in Users : Cardinality(Waiting(u)) <= MaxQueuedPerUser

LEMMA WaitingFinite ==
    ASSUME NEW u PROVE IsFiniteSet(Waiting(u)) /\ IsFiniteSet(QueuedBy(u))
BY FS_Subset, QueueAssumption DEF Waiting, QueuedBy, Reserved

\* A step after which nobody new waits keeps the cap.
LEMMA FewerWait ==
    ASSUME CapInv, NEW u \in Users, Waiting(u)' \subseteq Waiting(u)
    PROVE  Cardinality(Waiting(u)') <= MaxQueuedPerUser
<1>1. IsFiniteSet(Waiting(u)) BY WaitingFinite
<1>2. /\ IsFiniteSet(Waiting(u)')
      /\ Cardinality(Waiting(u)') <= Cardinality(Waiting(u))
  BY <1>1, FS_Subset
<1>3. /\ Cardinality(Waiting(u)) \in Nat
      /\ Cardinality(Waiting(u)') \in Nat
  BY <1>1, <1>2, FS_CardinalityType
<1>4. QED BY <1>2, <1>3, QueueAssumption DEF CapInv

\* Only a debit makes one more request wait.
LEMMA NobodyNew ==
    ASSUME TypeOK, IInv, [Next]_vars, ~(\E t \in Tasks : Debit(t)), NEW u \in Users
    PROVE  Waiting(u)' \subseteq Waiting(u)
<1> USE DEF Waiting, QueuedBy, Reserved, TypeOK, Go, SetStatus
<1>1. ASSUME NEW s \in Tasks, SubmitAITask(s), ~Debit(s)
      PROVE  Waiting(u)' \subseteq Waiting(u)
  <2>1. CASE SaveQueued(s)
    <3>1. /\ pc[s] = "charged" /\ snap[s]
          /\ pc' = [pc EXCEPT ![s] = "off"]
          /\ status' = [status EXCEPT ![s] = "queued"]
          /\ UNCHANGED snap
      BY <2>1 DEF SaveQueued
    <3>2. /\ QueuedBy(u)' \subseteq QueuedBy(u) \cup (Reserved(u) \cap {s})
          /\ Reserved(u)' \subseteq Reserved(u)
      <4>1. \A x \in Tasks :
               /\ pc'[x] = "charged" => pc[x] = "charged" /\ snap'[x] = snap[x]
               /\ status'[x] = "queued" => x = s \/ status[x] = "queued"
        BY <3>1
      <4>2. QED BY <3>1, <4>1, Zenon DEF QueuedBy, Reserved
    <3>3. QED BY <3>2, Zenon DEF Waiting
  <2>2. CASE Submit(s)
    <3>1. \A x \in Tasks :
             /\ pc'[x] = "charged" => pc[x] = "charged" /\ snap'[x] = snap[x]
             /\ status'[x] = status[x]
      BY <2>2 DEF Submit
    <3>2. QED BY <3>1, Zenon DEF Waiting, QueuedBy, Reserved
  <2>3. CASE SaveExecuting(s) BY <2>3 DEF SaveExecuting
  <2>4. CASE TurnAway(s) \/ DebitUnlogged(s)
    BY <2>4 DEF TurnAway, DebitUnlogged
  <2>5. CASE SaveError(s) \/ Rollback(s) BY <2>5 DEF SaveError, Rollback, rowVars
  <2>6. QED BY <1>1, <2>1, <2>3, <2>4, <2>5, <2>2 DEF SubmitAITask
<1>2. ASSUME NEW s \in Tasks, CancelGenerationTask(s)
      PROVE  Waiting(u)' \subseteq Waiting(u)
  BY <1>2 DEF CancelGenerationTask, CancelRefund, CancelUnlogged, CancelMark,
       CancelMarkError, CancelCleanup, rowVars
<1>3. ASSUME NEW s \in Tasks, ExecuteTask(s) PROVE Waiting(u)' \subseteq Waiting(u)
  BY <1>3 DEF ExecuteTask, CallProxy, PayloadLost, MarkSucceeded,
       MarkSucceededError, MarkFailed, RefundFailed, UpdateStatus, execUnchanged
<1>4. CASE DispatchQueuedTasks
  <2>1. CASE DispatchStart BY <2>1 DEF DispatchStart, rowVars
  <2>2. ASSUME NEW m \in Models, DispatchModel(m) \/ DispatchError(m)
        PROVE  Waiting(u)' \subseteq Waiting(u)
    <3>1. \E k, j : StartOldest(m, k, j) BY <2>2 DEF DispatchModel, DispatchError
    <3>2. UNCHANGED snap BY <2>2 DEF DispatchModel, DispatchError
    <3>3. QED BY <3>1, <3>2, BatchIsQueued
  <2>3. QED BY <1>4, <2>1, <2>2 DEF DispatchQueuedTasks
<1>5. CASE RecoverExecutingTasks
  BY <1>5 DEF RecoverExecutingTasks, RecoverSelect, RecoverMark, RecoverRefund,
       bootUnchanged
<1>6. ASSUME NEW s \in Tasks, CleanupOld(s) \/ ExpirePayload(s)
      PROVE  Waiting(u)' \subseteq Waiting(u)
  BY <1>6 DEF CleanupOld, ExpirePayload
<1>7. CASE Environment
  BY <1>7 DEF Environment, ToggleQueue, Tick, Crash, rowVars
<1>8. CASE UNCHANGED vars BY <1>8 DEF vars, rowVars
<1> HIDE DEF Waiting, TypeOK
<1>9. QED BY <1>1, <1>2, <1>3, <1>4, <1>5, <1>6, <1>7, <1>8 DEF Next

LEMMA DebitKeepsCap ==
    ASSUME TypeOK, IInv, CapInv, NEW t \in Tasks, Debit(t) PROVE CapInv'
<1>1. SUFFICES ASSUME NEW u \in Users
               PROVE  Cardinality(Waiting(u)') <= MaxQueuedPerUser
  BY DEF CapInv
<1>2. \A v \in Users : Waiting(v) = QueuedBy(v)
  <2>1. \A s \in Tasks : pc[s] # "charged"
    BY DEF Debit, IInv, LockInv, Locked
  <2>2. QED BY <2>1 DEF Waiting, Reserved
<1>3. CASE u = UserOf[t] /\ snap[t]
  <2>1. Waiting(u)' = QueuedBy(u) \cup {t}
    BY <1>2, <1>3 DEF Debit, Go, Waiting, QueuedBy, Reserved, TypeOK, IInv, LockInv,
                      Locked
  <2>2. IsFiniteSet(QueuedBy(u)) /\ t \notin QueuedBy(u)
    BY WaitingFinite DEF Debit, QueuedBy, IInv, PcInv
  <2>3. Cardinality(Waiting(u)') = Cardinality(QueuedBy(u)) + 1
    BY <2>1, <2>2, FS_AddElement
  <2>4. Cardinality(QueuedBy(u)) \in Nat BY <2>2, FS_CardinalityType
  <2>5. Cardinality(QueuedBy(u)) < MaxQueuedPerUser
    BY <1>3, <2>4, QueueAssumption DEF Debit, QueueFull
  <2>6. QED BY <2>3, <2>4, <2>5, QueueAssumption
<1>4. CASE ~(u = UserOf[t] /\ snap[t])
  <2>1. Waiting(u)' \subseteq Waiting(u)
    BY <1>4 DEF Debit, Go, Waiting, QueuedBy, Reserved, TypeOK
  <2>2. QED BY <2>1, FewerWait
<1>5. QED BY <1>3, <1>4

\* No user ever has more tasks waiting than the settings allow.
THEOREM CapHolds == Spec => []QueueCap
<1>1. Init => CapInv
  <2>1. ASSUME Init, NEW u \in Users PROVE Waiting(u) = {}
    BY <2>1 DEF Init, Waiting, QueuedBy, Reserved
  <2>2. QED BY <2>1, FS_EmptySet, QueueAssumption DEF CapInv
<1>2. ASSUME TypeOK, IInv, CapInv, [Next]_vars PROVE CapInv'
  <2>1. CASE \E t \in Tasks : Debit(t) BY <1>2, <2>1, DebitKeepsCap
  <2>2. CASE ~(\E t \in Tasks : Debit(t))
    <3>1. \A u \in Users : Waiting(u)' \subseteq Waiting(u)
      BY <1>2, <2>2, NobodyNew
    <3>2. \A u \in Users : Cardinality(Waiting(u)') <= MaxQueuedPerUser
      BY <1>2, <3>1, FewerWait
    <3>3. QED BY <3>2 DEF CapInv
  <2>3. QED BY <2>1, <2>2
<1>3. ASSUME CapInv PROVE QueueCap
  <2>1. SUFFICES ASSUME NEW u \in Users
                 PROVE  Cardinality(QueuedBy(u)) <= MaxQueuedPerUser
    BY DEF QueueCap
  <2>2. QueuedBy(u) \subseteq Waiting(u) BY DEF Waiting
  <2>3. IsFiniteSet(Waiting(u)) BY WaitingFinite
  <2>4. /\ IsFiniteSet(QueuedBy(u))
        /\ Cardinality(QueuedBy(u)) <= Cardinality(Waiting(u))
    BY <2>2, <2>3, FS_Subset
  <2>5. Cardinality(QueuedBy(u)) \in Nat /\ Cardinality(Waiting(u)) \in Nat
    BY <2>3, <2>4, FS_CardinalityType
  <2>6. QED BY <1>3, <2>4, <2>5, QueueAssumption DEF CapInv
<1>4. QED BY <1>1, <1>2, <1>3, Invariant, PTL DEF Spec

-----------------------------------------------------------------------------
(* The order of dispatch: the k best-ranked rows of a model are its k oldest. *)

\* created_at and id order the rows totally.
LEMMA BeforeIsTotal ==
    ASSUME TypeOK, NEW s \in Tasks, NEW t \in Tasks
    PROVE  /\ ~Before(s, s)
           /\ s # t => Before(s, t) \/ Before(t, s)
           /\ \A r \in Tasks : Before(r, s) /\ Before(s, t) => Before(r, t)
<1>1. /\ s \in Nat /\ t \in Nat /\ \A r \in Tasks : r \in Nat
      /\ \A r \in Tasks : created[r] \in Nat
  BY QueueAssumption DEF TypeOK
<1>2. QED BY <1>1 DEF Before

\* The older of two rows has the smaller rank.
LEMMA OlderRanksLower ==
    ASSUME TypeOK, NEW q \in SUBSET Tasks, NEW s \in q, NEW t \in q, Before(s, t)
    PROVE  RankIn(q, s) < RankIn(q, t)
<1> DEFINE A == {r \in q : Before(r, s)}
           B == {r \in q : Before(r, t)}
<1>1. A \subseteq B /\ s \in B /\ s \notin A BY BeforeIsTotal
<1>2. IsFiniteSet(B) BY FS_Subset, QueueAssumption
<1>3. A \cup {s} \subseteq B BY <1>1
<1>4. IsFiniteSet(A) BY <1>1, <1>2, FS_Subset
<1>5. Cardinality(A \cup {s}) = Cardinality(A) + 1 BY <1>1, <1>4, FS_AddElement
<1>6. Cardinality(A \cup {s}) <= Cardinality(B) BY <1>2, <1>3, FS_Subset
<1>7. Cardinality(A) \in Nat /\ Cardinality(B) \in Nat
  BY <1>2, <1>4, FS_CardinalityType
<1>8. RankIn(q, s) = Cardinality(A) + 1 /\ RankIn(q, t) = Cardinality(B) + 1
  BY DEF RankIn
<1> HIDE DEF A, B
<1>9. QED BY <1>5, <1>6, <1>7, <1>8

\* Of one dispatched batch, nobody overtakes.
LEMMA BatchInOrder ==
    ASSUME TypeOK, NEW m \in Models, NEW k \in Int, NEW j, StartOldest(m, k, j),
           NEW s \in Tasks, NEW t \in Tasks, ModelOf[s] = ModelOf[t],
           status[t] = "queued", status'[t] = "executing", status'[s] = "queued"
    PROVE  Before(t, s)
<1> DEFINE q == QueuedFor(m)
<1>1. status' = [r \in Tasks |->
          IF r \in {x \in q : RankIn(q, x) <= k} THEN "executing" ELSE status[r]]
  BY DEF StartOldest
<1>2. t \in q /\ RankIn(q, t) <= k BY <1>1
<1>3. s \in q /\ ~(RankIn(q, s) <= k) BY <1>1, <1>2 DEF QueuedFor
<1>4. q \in SUBSET Tasks BY DEF QueuedFor
<1>5. RankIn(q, s) \in Nat /\ RankIn(q, t) \in Nat BY <1>4, RankType
<1> HIDE DEF q
<1>6. ~Before(s, t)
  <2>1. Before(s, t) => RankIn(q, s) < RankIn(q, t)
    BY <1>2, <1>3, <1>4, OlderRanksLower
  <2>2. QED BY <1>2, <1>3, <1>5, <2>1
<1>7. s # t BY <1>2, <1>3
<1>8. QED BY <1>6, <1>7, BeforeIsTotal

\* Only the dispatcher starts a queued row.
LEMMA OnlyDispatchStarts ==
    ASSUME TypeOK, IInv, [Next]_vars, ~DispatchQueuedTasks, NEW t \in Tasks,
           status[t] = "queued"
    PROVE  status'[t] # "executing"
<1> USE DEF TypeOK, SetStatus
<1>1. ASSUME NEW s \in Tasks, SubmitAITask(s) PROVE status'[t] # "executing"
  BY <1>1 DEF SubmitAITask, Submit, TurnAway, Debit, DebitUnlogged, SaveExecuting,
       SaveQueued, SaveError, Rollback, rowVars, IInv, PcInv
<1>2. ASSUME NEW s \in Tasks, CancelGenerationTask(s)
      PROVE  status'[t] # "executing"
  BY <1>2 DEF CancelGenerationTask, CancelRefund, CancelUnlogged, CancelMark,
       CancelMarkError, CancelCleanup, rowVars
<1>3. ASSUME NEW s \in Tasks, ExecuteTask(s) PROVE status'[t] # "executing"
  BY <1>3 DEF ExecuteTask, CallProxy, PayloadLost, MarkSucceeded,
       MarkSucceededError, MarkFailed, RefundFailed, UpdateStatus
<1>4. CASE RecoverExecutingTasks
  BY <1>4 DEF RecoverExecutingTasks, RecoverSelect, RecoverMark, RecoverRefund
<1>5. ASSUME NEW s \in Tasks, CleanupOld(s) \/ ExpirePayload(s)
      PROVE  status'[t] # "executing"
  BY <1>5 DEF CleanupOld, ExpirePayload
<1>6. CASE Environment
  BY <1>6 DEF Environment, ToggleQueue, Tick, Crash, rowVars
<1>7. CASE UNCHANGED vars BY <1>7 DEF vars, rowVars
<1> HIDE DEF TypeOK
<1>8. QED BY <1>1, <1>2, <1>3, <1>4, <1>5, <1>6, <1>7 DEF Next

LEMMA StepInOrder ==
    ASSUME TypeOK, IInv, [Next]_vars, NEW s \in Tasks, NEW t \in Tasks,
           status[t] = "queued", status'[t] = "executing",
           ModelOf[s] = ModelOf[t], status'[s] = "queued"
    PROVE  Before(t, s)
<1>1. DispatchQueuedTasks BY OnlyDispatchStarts
<1>2. PICK m \in Models : DispatchModel(m) \/ DispatchError(m)
  <2>1. ~DispatchStart BY DEF DispatchStart, rowVars
  <2>2. QED BY <1>1, <2>1 DEF DispatchQueuedTasks
<1>3. RemainingCapacity(m) \in Int
  <2>1. IsFiniteSet(StartedThisMinute(m))
    BY FS_Subset, QueueAssumption DEF StartedThisMinute
  <2>2. Cardinality(StartedThisMinute(m)) \in Nat BY <2>1, FS_CardinalityType
  <2>3. Limit[m] \in Int BY QueueAssumption
  <2>4. QED BY <2>2, <2>3 DEF RemainingCapacity
<1>4. \E k \in Int : \E j : StartOldest(m, k, j)
  BY <1>2, <1>3 DEF DispatchModel, DispatchError
<1>5. QED BY <1>4, BatchInOrder

\* The dispatcher never starts a row and leaves an older one of its model behind.
THEOREM DispatchIsInOrder == Spec => DispatchInOrder
<1>1. TypeOK /\ IInv /\ [Next]_vars =>
        [\A t \in Tasks : status[t] = "queued" /\ status'[t] = "executing" =>
            \A s \in Tasks : ModelOf[s] = ModelOf[t] /\ status'[s] = "queued" =>
                Before(t, s)]_vars
  BY StepInOrder
<1>2. QED BY <1>1, Invariant, PTL DEF Spec, DispatchInOrder

-----------------------------------------------------------------------------
(* The rate window.  Starts of a minute are counted, but for the one of a
   submission that held the lock when the minute turned. *)

LEMMA CountedFinite ==
    ASSUME NEW m PROVE /\ IsFiniteSet(StartedThisMinute(m))
                       /\ Cardinality(StartedThisMinute(m)) \in Nat
                       /\ IsFiniteSet(Counted(m))
                       /\ Cardinality(Counted(m)) \in Nat
                       /\ Cardinality(Counted(m)) <= Cardinality(StartedThisMinute(m))
<1>1. Counted(m) \subseteq StartedThisMinute(m) BY DEF Counted
<1>2. IsFiniteSet(StartedThisMinute(m))
  BY FS_Subset, QueueAssumption DEF StartedThisMinute
<1>3. QED BY <1>1, <1>2, FS_Subset, FS_CardinalityType

\* A step after which no further row is counted keeps the limit.
LEMMA FewerCounted ==
    ASSUME WindowInv, NEW m \in Models, Counted(m)' \subseteq Counted(m)
    PROVE  Cardinality(Counted(m)') <= Limit[m]
<1>1. /\ IsFiniteSet(Counted(m)')
      /\ Cardinality(Counted(m)') <= Cardinality(Counted(m))
  BY CountedFinite, FS_Subset
<1>2. Cardinality(Counted(m)') \in Nat BY <1>1, FS_CardinalityType
<1>3. QED BY <1>1, <1>2, CountedFinite, QueueAssumption DEF WindowInv

\* A batch of rank at most k has at most k rows.
LEMMA BatchSize ==
    ASSUME TypeOK, NEW q \in SUBSET Tasks, NEW k \in Nat
    PROVE  LET batch == {t \in q : RankIn(q, t) <= k}
           IN  IsFiniteSet(batch) /\ Cardinality(batch) <= k
<1> DEFINE batch == {t \in q : RankIn(q, t) <= k}
           rank == [t \in batch |-> RankIn(q, t)]
<1>1. \A t \in batch : rank[t] \in 1..k
  <2>1. \A t \in batch : RankIn(q, t) \in Nat \ {0} /\ RankIn(q, t) <= k
    BY RankType
  <2>2. QED BY <2>1
<1>2. ASSUME NEW s \in batch, NEW t \in batch, rank[s] = rank[t] PROVE s = t
  <2>1. RankIn(q, s) = RankIn(q, t) BY <1>2
  <2>2. RankIn(q, s) \in Nat BY RankType
  <2>3. ~Before(s, t) /\ ~Before(t, s) BY <2>1, <2>2, OlderRanksLower
  <2>4. QED BY <2>3, BeforeIsTotal
<1>3. IsFiniteSet(1..k) /\ Cardinality(1..k) = k
  BY FS_Interval
<1>4. rank \in Injection(batch, 1..k) BY <1>1, <1>2 DEF Injection, IsInjective
<1> HIDE DEF batch, rank
<1>5. IsFiniteSet(batch) /\ Cardinality(batch) <= Cardinality(1..k)
  BY <1>3, <1>4, FS_Injection
<1>6. QED BY <1>3, <1>5 DEF batch

\* A step that starts nothing and leaves the clock alone.
Quiet ==
    /\ UNCHANGED <<startedAge, trueAge, phase, lag>>
    /\ \A t \in Tasks :
          /\ snap'[t] = snap[t] \/ startedAge[t] = Phases
          /\ pc'[t] \in {"none", "stored", "charged"} =>
                pc[t] \in {"none", "stored", "charged"}
          /\ pc'[t] = "charged" => pc[t] = "charged"

LEMMA QuietKeepsWindow == ASSUME TypeOK, WindowInv, Quiet PROVE WindowInv'
<1>1. StartInv' /\ TurnInv' BY DEF WindowInv, StartInv, TurnInv, Quiet
<1>2. Uncounted' = Uncounted BY DEF Uncounted, Quiet
<1>3. ASSUME NEW m \in Models PROVE Counted(m)' \subseteq Counted(m)
  <2>1. ~(Phases <= phase) BY QueueAssumption DEF TypeOK
  <2>2. QED BY <2>1 DEF Counted, StartedThisMinute, Quiet
<1>4. QED BY <1>1, <1>2, <1>3, FewerCounted DEF WindowInv

\* "now" is read afresh.
LEMMA DebitKeepsWindow ==
    ASSUME TypeOK, WindowInv, NEW t \in Tasks, Debit(t) PROVE WindowInv'
<1>1. /\ UNCHANGED <<startedAge, trueAge, phase, snap>>
      /\ pc[t] = "stored" /\ pc' = [pc EXCEPT ![t] = "charged"]
      /\ lag' = 0
  BY DEF Debit, Go
<1>2. StartInv' BY <1>1 DEF WindowInv, StartInv, TypeOK
<1>3. TurnInv' BY <1>1, QueueAssumption DEF TurnInv, TypeOK
<1>4. Uncounted' = Uncounted BY <1>1 DEF Uncounted
<1>5. \A m \in Models : Counted(m)' = Counted(m)
  BY <1>1 DEF Counted, StartedThisMinute
<1>6. QED BY <1>2, <1>3, <1>4, <1>5 DEF WindowInv

\* A submission starts its request: counted within the limit, or the first of
\* the minute and not counted.
LEMMA SaveKeepsWindow ==
    ASSUME TypeOK, IInv, WindowInv, NEW t \in Tasks, SaveExecuting(t)
    PROVE  WindowInv'
<1>1. /\ pc[t] = "charged" /\ pc' = [pc EXCEPT ![t] = "exec"]
      /\ startedAge' = [startedAge EXCEPT ![t] = lag]
      /\ trueAge' = [trueAge EXCEPT ![t] = 0]
      /\ UNCHANGED <<phase, lag, snap>>
      /\ ~snap[t] \/ RemainingCapacity(ModelOf[t]) > 0
  BY DEF SaveExecuting, Go
<1>2. lag \in Nat /\ phase \in Nat /\ ModelOf[t] \in Models
  BY QueueAssumption DEF TypeOK
<1>3. \A s \in Tasks : pc'[s] # "charged"
  BY <1>1 DEF IInv, LockInv, Locked, TypeOK
<1>4. StartInv' BY <1>1, <1>2 DEF WindowInv, StartInv, TypeOK
<1>5. TurnInv' BY <1>3 DEF TurnInv
<1>6. \A r, s \in Uncounted' : r = s
  <2>1. CASE lag <= phase
    <3>1. Uncounted' \subseteq Uncounted BY <1>1, <1>2, <2>1 DEF Uncounted, TypeOK
    <3>2. QED BY <3>1 DEF WindowInv
  <2>2. CASE lag > phase
    <3>1. \A s \in Tasks : trueAge[s] > phase
      BY <1>1, <2>2 DEF WindowInv, TurnInv
    <3>2. Uncounted' \subseteq {t}
      <4>1. \A s \in Tasks \ {t} : trueAge'[s] = trueAge[s] /\ trueAge[s] \in Nat
        BY <1>1 DEF TypeOK
      <4>2. QED BY <1>1, <1>2, <3>1, <4>1 DEF Uncounted
    <3>3. QED BY <3>2
  <2>3. QED BY <1>2, <2>1, <2>2
<1>7. ASSUME NEW m \in Models PROVE Cardinality(Counted(m)') <= Limit[m]
  <2>1. CASE m = ModelOf[t] /\ snap[t]
    <3>1. Counted(m)' \subseteq Counted(m) \cup {t}
      BY <1>1 DEF Counted, StartedThisMinute, TypeOK
    <3>2. /\ Cardinality(Counted(m) \cup {t}) <= Cardinality(Counted(m)) + 1
          /\ IsFiniteSet(Counted(m) \cup {t})
          /\ Cardinality(Counted(m) \cup {t}) \in Nat
      <4>1. /\ IsFiniteSet(Counted(m)) /\ Cardinality(Counted(m)) \in Nat
        BY CountedFinite
      <4>2. /\ IsFiniteSet(Counted(m) \cup {t})
            /\ Cardinality(Counted(m) \cup {t})
                 = IF t \in Counted(m) THEN Cardinality(Counted(m))
                                       ELSE Cardinality(Counted(m)) + 1
        BY <4>1, FS_AddElement
      <4>3. QED BY <4>1, <4>2
    <3>3. /\ Cardinality(Counted(m)') <= Cardinality(Counted(m) \cup {t})
          /\ Cardinality(Counted(m)') \in Nat
      BY <3>1, <3>2, FS_Subset, FS_CardinalityType
    <3>4. Limit[m] - Cardinality(StartedThisMinute(m)) > 0
      BY <1>1, <2>1 DEF RemainingCapacity
    <3>5. Limit[m] \in Nat BY QueueAssumption
    <3>6. QED BY <3>2, <3>3, <3>4, <3>5, CountedFinite
  <2>2. CASE ~(m = ModelOf[t] /\ snap[t])
    <3>1. Counted(m)' \subseteq Counted(m)
      BY <1>1, <2>2 DEF Counted, StartedThisMinute, TypeOK
    <3>2. QED BY <3>1, FewerCounted
  <2>3. QED BY <2>1, <2>2
<1>8. QED BY <1>4, <1>5, <1>6, <1>7 DEF WindowInv

\* A pass over a model starts at most what is left of its limit.
LEMMA BatchKeepsWindow ==
    ASSUME TypeOK, IInv, WindowInv, mu = "scheduler", UNCHANGED <<phase, lag, snap>>,
           NEW m \in Models, NEW k \in Nat, NEW j, StartOldest(m, k, j),
           k = 0 \/ k <= RemainingCapacity(m)
    PROVE  WindowInv'
<1> DEFINE batch == {t \in QueuedFor(m) : RankIn(QueuedFor(m), t) <= k}
<1>1. /\ startedAge' = [t \in Tasks |-> IF t \in batch THEN 0 ELSE startedAge[t]]
      /\ trueAge' = [t \in Tasks |-> IF t \in batch THEN 0 ELSE trueAge[t]]
      /\ pc' = [t \in Tasks |-> IF t \in batch THEN "exec" ELSE pc[t]]
  BY DEF StartOldest
<1>2. batch \subseteq {t \in Tasks : ModelOf[t] = m} BY DEF QueuedFor
<1>3. IsFiniteSet(batch) /\ Cardinality(batch) <= k
  <2>1. QueuedFor(m) \in SUBSET Tasks BY DEF QueuedFor
  <2>2. QED BY <2>1, BatchSize
<1> HIDE DEF batch
<1>4. phase \in Nat /\ Limit[m] \in Nat BY QueueAssumption DEF TypeOK
<1>5. \A t \in Tasks : pc'[t] # "charged"
  BY <1>1 DEF IInv, LockInv, Locked
<1>6. StartInv' BY <1>1, <1>4 DEF WindowInv, StartInv
<1>7. TurnInv' BY <1>5 DEF TurnInv
<1>8. Uncounted' \subseteq Uncounted BY <1>1, <1>4 DEF Uncounted
<1>9. ASSUME NEW n \in Models PROVE Cardinality(Counted(n)') <= Limit[n]
  <2>1. CASE n # m \/ batch = {}
    <3>1. Counted(n)' \subseteq Counted(n)
      BY <1>1, <1>2, <2>1 DEF Counted, StartedThisMinute
    <3>2. QED BY <3>1, FewerCounted
  <2>2. CASE n = m /\ batch # {}
    <3>1. k # 0
      <4>1. Cardinality(batch) # 0 BY <1>3, <2>2, FS_EmptySet
      <4>2. Cardinality(batch) \in Nat BY <1>3, FS_CardinalityType
      <4>3. QED BY <1>3, <4>1, <4>2
    <3>2. k <= Limit[m] - Cardinality(StartedThisMinute(m))
      BY <3>1 DEF RemainingCapacity
    <3>3. Counted(m)' \subseteq StartedThisMinute(m) \cup batch
      BY <1>1 DEF Counted, StartedThisMinute
    <3>4. /\ IsFiniteSet(StartedThisMinute(m) \cup batch)
          /\ Cardinality(StartedThisMinute(m) \cup batch)
                <= Cardinality(StartedThisMinute(m)) + Cardinality(batch)
      <4>1. IsFiniteSet(StartedThisMinute(m) \cap batch) BY <1>3, FS_Subset
      <4>2. /\ Cardinality(StartedThisMinute(m) \cap batch) \in Nat
            /\ Cardinality(batch) \in Nat
        BY <1>3, <4>1, FS_CardinalityType
      <4>3. QED BY <1>3, <4>2, CountedFinite, FS_Union
    <3>5. /\ Cardinality(Counted(m)')
                <= Cardinality(StartedThisMinute(m) \cup batch)
          /\ Cardinality(Counted(m)') \in Nat
          /\ Cardinality(StartedThisMinute(m) \cup batch) \in Nat
          /\ Cardinality(batch) \in Nat
      BY <1>3, <3>3, <3>4, FS_Subset, FS_CardinalityType
    <3>6. QED BY <1>3, <1>4, <2>2, <3>2, <3>4, <3>5, CountedFinite
  <2>3. QED BY <2>1, <2>2
<1>10. QED BY <1>6, <1>7, <1>8, <1>9 DEF WindowInv

LEMMA DispatchKeepsWindow ==
    ASSUME TypeOK, IInv, WindowInv, DispatchQueuedTasks PROVE WindowInv'
<1>1. CASE DispatchStart
  BY <1>1, QuietKeepsWindow DEF DispatchStart, Quiet, rowVars, clockVars
<1>2. ASSUME NEW m \in Models, DispatchModel(m) \/ DispatchError(m) PROVE WindowInv'
  <2>1. RemainingCapacity(m) \in Int
    <3>1. Limit[m] \in Int BY QueueAssumption
    <3>2. QED BY <3>1, CountedFinite DEF RemainingCapacity
  <2>2. /\ mu = "scheduler" /\ UNCHANGED <<phase, lag, snap>>
        /\ \E k \in Nat : \E j :
              /\ StartOldest(m, k, j)
              /\ k = 0 \/ k <= RemainingCapacity(m)
    BY <1>2, <2>1 DEF DispatchModel, DispatchError
  <2>3. QED BY <2>2, BatchKeepsWindow
<1>3. QED BY <1>1, <1>2 DEF DispatchQueuedTasks

\* Every age grows with the minute, and the turn of the minute empties it.
LEMMA TickKeepsWindow == ASSUME TypeOK, WindowInv, Tick PROVE WindowInv'
<1>1. /\ phase' = (phase + 1) % Phases
      /\ startedAge' = [t \in Tasks |-> Older(startedAge[t])]
      /\ trueAge' = [t \in Tasks |-> Older(trueAge[t])]
      /\ lag' = Older(lag)
      /\ UNCHANGED <<pc, snap>>
  BY DEF Tick
<1>2. /\ phase \in Nat /\ phase < Phases /\ Phases \in Nat \ {0}
      /\ lag \in Nat /\ lag <= Phases
      /\ \A t \in Tasks : /\ startedAge[t] \in Nat /\ startedAge[t] <= Phases
                          /\ trueAge[t] \in Nat /\ trueAge[t] <= Phases
  BY QueueAssumption DEF TypeOK
<1>3. phase' = IF phase + 1 = Phases THEN 0 ELSE phase + 1
  <2>1. CASE phase + 1 = Phases
    <3>1. \A n \in Nat \ {0} : n % n = 0 OBVIOUS
    <3>2. QED BY <1>1, <1>2, <2>1, <3>1
  <2>2. CASE phase + 1 # Phases
    <3>1. \A a \in Nat, n \in Nat \ {0} : a < n => a % n = a OBVIOUS
    <3>2. phase + 1 \in Nat /\ phase + 1 < Phases BY <1>2, <2>2
    <3>3. (phase + 1) % Phases = phase + 1 BY <1>2, <3>1, <3>2
    <3>4. QED BY <1>1, <2>2, <3>3
  <2>3. QED BY <2>1, <2>2
<1>4. ASSUME NEW a \in Nat, a <= Phases
      PROVE  /\ Older(a) \in Nat
             /\ Older(a) <= phase' => a <= phase /\ phase' # 0
             /\ Older(a) > phase' /\ phase' # 0 => a > phase
             /\ a = Phases => Older(a) = Phases
  BY <1>2, <1>3, <1>4 DEF Older
<1>5. StartInv'
  <2>1. ASSUME NEW a \in Nat, NEW b \in Nat, a <= b, b <= Phases
        PROVE  Older(a) <= Older(b)
    BY <1>2, <2>1 DEF Older
  <2>2. QED BY <1>1, <1>2, <1>4, <2>1 DEF WindowInv, StartInv
<1>6. TurnInv'
  <2>1. SUFFICES ASSUME NEW s \in Tasks, pc[s] = "charged", Older(lag) > phase',
                        NEW t \in Tasks
                 PROVE  Older(trueAge[t]) > phase'
    BY <1>1 DEF TurnInv
  <2>2. Older(trueAge[t]) \in Nat /\ phase' \in Nat BY <1>2, <1>3, <1>4
  <2>3. SUFFICES ASSUME Older(trueAge[t]) <= phase' PROVE FALSE BY <2>2
  <2>4. trueAge[t] <= phase /\ phase' # 0 BY <1>2, <1>4, <2>3
  <2>5. lag > phase BY <1>2, <1>4, <2>1, <2>4
  <2>6. trueAge[t] > phase BY <2>1, <2>5 DEF WindowInv, TurnInv
  <2>7. QED BY <1>2, <2>4, <2>6
<1>7. Uncounted' \subseteq Uncounted
  <2>1. SUFFICES ASSUME NEW t \in Tasks, Older(trueAge[t]) <= phase',
                        Older(startedAge[t]) > phase'
                 PROVE  trueAge[t] <= phase /\ startedAge[t] > phase
    BY <1>1 DEF Uncounted
  <2>2. QED BY <1>2, <1>4, <2>1
<1>8. \A m \in Models : Counted(m)' \subseteq Counted(m)
  <2>1. \A t \in Tasks : startedAge'[t] <= phase' => startedAge[t] <= phase
    BY <1>1, <1>2, <1>4
  <2>2. QED BY <1>1, <2>1 DEF Counted, StartedThisMinute
<1>9. QED BY <1>5, <1>6, <1>7, <1>8, FewerCounted DEF WindowInv

LEMMA WindowStep ==
    ASSUME TypeOK, IInv, WindowInv, [Next]_vars PROVE WindowInv'
<1> USE DEF Quiet, Go
<1>1. ASSUME NEW t \in Tasks, SubmitAITask(t) PROVE WindowInv'
  <2>1. CASE Submit(t)
    <3>1. Quiet BY <2>1 DEF Submit, WindowInv, StartInv, TypeOK, clockVars
    <3>2. QED BY <3>1, QuietKeepsWindow
  <2>2. CASE TurnAway(t) \/ DebitUnlogged(t)
    <3>1. Quiet BY <2>2 DEF TurnAway, DebitUnlogged, TypeOK, clockVars
    <3>2. QED BY <3>1, QuietKeepsWindow
  <2>3. CASE SaveQueued(t) \/ SaveError(t) \/ Rollback(t)
    <3>1. Quiet
      BY <2>3 DEF SaveQueued, SaveError, Rollback, TypeOK, rowVars, clockVars
    <3>2. QED BY <3>1, QuietKeepsWindow
  <2>4. QED BY <1>1, <2>1, <2>2, <2>3, DebitKeepsWindow, SaveKeepsWindow
            DEF SubmitAITask
<1>2. ASSUME NEW t \in Tasks, CancelGenerationTask(t) PROVE Quiet
  BY <1>2 DEF CancelGenerationTask, CancelRefund, CancelUnlogged, CancelMark,
       CancelMarkError, CancelCleanup, TypeOK, rowVars, clockVars
<1>3. ASSUME NEW t \in Tasks, ExecuteTask(t) PROVE Quiet
  BY <1>3 DEF ExecuteTask, CallProxy, PayloadLost, MarkSucceeded,
       MarkSucceededError, MarkFailed, RefundFailed, TypeOK, execUnchanged, clockVars
<1>4. CASE RecoverExecutingTasks
  BY <1>4, QuietKeepsWindow
  DEF RecoverExecutingTasks, RecoverSelect, RecoverMark, RecoverRefund,
      bootUnchanged, clockVars
<1>5. ASSUME NEW t \in Tasks, CleanupOld(t) \/ ExpirePayload(t) PROVE Quiet
  BY <1>5 DEF CleanupOld, ExpirePayload, clockVars
<1>6. CASE Environment
  <2>1. CASE ToggleQueue \/ Crash
    <3>1. Quiet BY <2>1 DEF ToggleQueue, Crash, rowVars, clockVars
    <3>2. QED BY <3>1, QuietKeepsWindow
  <2>2. QED BY <1>6, <2>1, TickKeepsWindow DEF Environment
<1>7. CASE UNCHANGED vars
  BY <1>7, QuietKeepsWindow DEF vars, rowVars, clockVars
<1> HIDE DEF Quiet
<1>8. QED
  BY <1>1, <1>2, <1>3, <1>4, <1>5, <1>6, <1>7, QuietKeepsWindow,
     DispatchKeepsWindow DEF Next

\* No calendar minute sees more starts of requests that were subject to a model's
\* limit than the limit and one (SubmitAITask and dispatchQueuedTasks).
THEOREM WindowCapHolds == Spec => []WindowCap
<1>1. Init => WindowInv
  <2>1. SUFFICES ASSUME Init PROVE WindowInv OBVIOUS
  <2>2. StartInv /\ TurnInv BY <2>1, QueueAssumption DEF Init, StartInv, TurnInv
  <2>3. ~(Phases <= 0) BY QueueAssumption
  <2>4. Uncounted = {} BY <2>1, <2>3 DEF Init, Uncounted
  <2>5. \A m \in Models : Counted(m) = {}
    BY <2>1, <2>3 DEF Init, Counted, StartedThisMinute
  <2>6. \A m \in Models : Cardinality(Counted(m)) <= Limit[m]
    BY <2>5, FS_EmptySet, QueueAssumption
  <2>7. QED BY <2>2, <2>4, <2>6 DEF WindowInv
<1>2. TypeOK /\ IInv /\ WindowInv /\ [Next]_vars => WindowInv' BY WindowStep
<1>3. ASSUME TypeOK, WindowInv PROVE WindowCap
  <2>1. SUFFICES ASSUME NEW m \in Models
                 PROVE  Cardinality({t \in TrueStartsThisMinute(m) : snap[t]})
                            <= Limit[m] + 1
    BY DEF WindowCap
  <2> DEFINE S == {t \in TrueStartsThisMinute(m) : snap[t]}
  <2>2. \E u : S \subseteq Counted(m) \cup {u}
    <3>1. S \subseteq Counted(m) \cup Uncounted
      <4>1. \A t \in Tasks : startedAge[t] \in Int BY <1>3 DEF TypeOK
      <4>2. phase \in Int BY <1>3, QueueAssumption DEF TypeOK
      <4>3. QED
        BY <4>1, <4>2
        DEF TrueStartsThisMinute, Counted, StartedThisMinute, Uncounted
    <3>2. \E u : Uncounted \subseteq {u}
      <4>1. CASE Uncounted = {} BY <4>1
      <4>2. CASE \E u \in Uncounted : TRUE BY <1>3, <4>2 DEF WindowInv
      <4>3. QED BY <4>1, <4>2
    <3>3. QED BY <3>1, <3>2
  <2>3. PICK u : S \subseteq Counted(m) \cup {u} BY <2>2
  <2>4. /\ IsFiniteSet(Counted(m) \cup {u})
        /\ Cardinality(Counted(m) \cup {u}) <= Cardinality(Counted(m)) + 1
    BY CountedFinite, FS_AddElement
  <2> HIDE DEF S
  <2>5. /\ Cardinality(S) <= Cardinality(Counted(m) \cup {u})
        /\ Cardinality(S) \in Nat /\ Cardinality(Counted(m) \cup {u}) \in Nat
    BY <2>3, <2>4, FS_Subset, FS_CardinalityType
  <2>6. Cardinality(Counted(m)) <= Limit[m] /\ Limit[m] \in Nat
    BY <1>3, QueueAssumption DEF WindowInv
  <2>7. QED BY <2>4, <2>5, <2>6, CountedFinite DEF S
<1>4. QED BY <1>1, <1>2, <1>3, Invariant, PTL DEF Spec

-----------------------------------------------------------------------------
(* Every step of the queue holds, keeps, returns or tears deals of Escrow.tla,
   or leaves them alone. *)
Mapping == [t \in Tasks |-> Deal(t)]

\* A step tears some deals that are not kept and leaves the others alone.
OnlyTears ==
    \A t \in Tasks : \/ Deal(t)' = Deal(t)
                     \/ Deal(t)' = "torn" /\ Deal(t) \in {"new", "held", "returned"}

\* A step advances the deal of t and leaves the others alone.
Advances(t) ==
    /\ \A s \in Tasks \ {t} : Deal(s)' = Deal(s)
    /\ <<Deal(t), Deal(t)'>> \in
           {<<"new", "held">>, <<"held", "kept">>, <<"held", "returned">>}

LEMMA TearsMap == ASSUME OnlyTears PROVE [escrow!Next]_Mapping
<1> DEFINE S == {t \in Tasks : Deal(t)' # Deal(t)}
<1>1. S \in SUBSET {t \in Tasks : Mapping[t] \in {"new", "held", "returned"}}
  BY DEF OnlyTears, Mapping
<1>2. Mapping' = [t \in Tasks |-> IF t \in S THEN "torn" ELSE Mapping[t]]
  BY DEF OnlyTears, Mapping
<1>3. QED BY <1>1, <1>2 DEF escrow!Next, escrow!TearSome, Mapping

LEMMA AdvanceMaps == ASSUME NEW t \in Tasks, Advances(t) PROVE escrow!Next
<1>1. Mapping' = [Mapping EXCEPT ![t] = Deal(t)'] BY DEF Advances, Mapping
<1>2. Mapping[t] = Deal(t) BY DEF Mapping
<1>3. \/ escrow!Hold(t) \/ escrow!Keep(t) \/ escrow!Return(t)
  BY <1>1, <1>2 DEF Advances, escrow!Hold, escrow!Keep, escrow!Return,
                    escrow!Becomes, Mapping
<1>4. QED BY <1>3 DEF escrow!Next

-----------------------------------------------------------------------------
LEMMA SubmitMaps ==
    ASSUME TypeOK, IInv, NEW t \in Tasks, SubmitAITask(t)
    PROVE  OnlyTears \/ Advances(t)
<1> USE DEF IInv, PcInv, StatusInv, UntornInv, Outstanding, Executing, TypeOK,
        Go, Tear, SetStatus, rowVars, moneyVars, OnlyTears, Advances, Deal
<1>1. CASE Submit(t) BY <1>1 DEF Submit
<1>2. CASE TurnAway(t) BY <1>2 DEF TurnAway
<1>3. CASE Debit(t) BY <1>3 DEF Debit, Charge
<1>4. CASE DebitUnlogged(t) BY <1>4 DEF DebitUnlogged, Charge
<1>5. CASE SaveExecuting(t) BY <1>5 DEF SaveExecuting
<1>6. CASE SaveQueued(t) BY <1>6 DEF SaveQueued
<1>7. CASE SaveError(t) BY <1>7 DEF SaveError
<1>8. CASE Rollback(t) BY <1>8 DEF Rollback, Refund
<1>9. QED BY <1>1, <1>2, <1>3, <1>4, <1>5, <1>6, <1>7, <1>8 DEF SubmitAITask

LEMMA CancelMaps ==
    ASSUME TypeOK, IInv, NEW t \in Tasks, CancelGenerationTask(t)
    PROVE  OnlyTears \/ Advances(t)
<1> USE DEF IInv, PcInv, StatusInv, UntornInv, Outstanding, Executing, TypeOK,
        Go, Tear, SetStatus, rowVars, moneyVars, OnlyTears, Advances, Deal
<1>1. CASE CancelRefund(t) BY <1>1 DEF CancelRefund, Refund
<1>2. CASE CancelUnlogged(t) BY <1>2 DEF CancelUnlogged, Refund
<1>3. CASE CancelMark(t) BY <1>3 DEF CancelMark
<1>4. CASE CancelMarkError(t) BY <1>4 DEF CancelMarkError
<1>5. CASE CancelCleanup(t) BY <1>5 DEF CancelCleanup
<1>6. QED BY <1>1, <1>2, <1>3, <1>4, <1>5 DEF CancelGenerationTask

LEMMA ExecuteMaps ==
    ASSUME TypeOK, IInv, NEW t \in Tasks, ExecuteTask(t)
    PROVE  OnlyTears \/ Advances(t)
<1> USE DEF IInv, PcInv, StatusInv, UntornInv, Outstanding, RefundPending,
        Executing, TypeOK, Go, Tear, SetStatus, UpdateStatus, moneyVars, OnlyTears,
        Advances, Deal
<1>1. CASE CallProxy(t) BY <1>1 DEF CallProxy
<1>2. CASE PayloadLost(t) BY <1>2 DEF PayloadLost
<1>3. CASE MarkSucceeded(t) BY <1>3 DEF MarkSucceeded
<1>4. CASE MarkSucceededError(t) BY <1>4 DEF MarkSucceededError
<1>5. CASE MarkFailed(t) BY <1>5 DEF MarkFailed
<1>6. CASE RefundFailed(t) BY <1>6 DEF RefundFailed, Refund
<1>7. QED BY <1>1, <1>2, <1>3, <1>4, <1>5, <1>6 DEF ExecuteTask

LEMMA DispatchMaps ==
    ASSUME TypeOK, IInv, DispatchQueuedTasks PROVE OnlyTears
<1>1. CASE DispatchStart
  BY <1>1 DEF DispatchStart, rowVars, moneyVars, OnlyTears, Deal
<1>2. ASSUME NEW m \in Models, DispatchModel(m) \/ DispatchError(m) PROVE OnlyTears
  <2>1. \E k, j : StartOldest(m, k, j) BY <1>2 DEF DispatchModel, DispatchError
  <2>2. UNCHANGED <<charges, refunds, torn>>
    BY <1>2 DEF DispatchModel, DispatchError, moneyVars
  <2>3. QED BY <2>1, <2>2, BatchIsQueued DEF OnlyTears, Deal
<1>3. QED BY <1>1, <1>2 DEF DispatchQueuedTasks

LEMMA RecoverMaps ==
    ASSUME TypeOK, IInv, RecoverExecutingTasks
    PROVE  OnlyTears \/ \E t \in Tasks : Advances(t)
<1> USE DEF IInv, RecInv, PcInv, StatusInv, UntornInv, Outstanding, RefundPending,
        Executing, TypeOK, Tear, moneyVars, OnlyTears, Advances, Deal
<1>1. CASE RecoverSelect BY <1>1 DEF RecoverSelect
<1>2. CASE RecoverMark BY <1>2 DEF RecoverMark
<1>3. ASSUME NEW t \in Tasks, RecoverRefund(t) PROVE OnlyTears \/ Advances(t)
  BY <1>3 DEF RecoverRefund, Refund
<1>4. QED BY <1>1, <1>2, <1>3 DEF RecoverExecutingTasks

LEMMA OthersMap ==
    ASSUME TypeOK, IInv,
           \/ \E t \in Tasks : CleanupOld(t) \/ ExpirePayload(t)
           \/ Environment \/ UNCHANGED vars
    PROVE  OnlyTears \/ \E t \in Tasks : Advances(t)
<1> USE DEF IInv, RecInv, PcInv, StatusInv, UntornInv, Outstanding, RefundPending,
        Executing, Terminal, TypeOK, Tear, SetStatus, rowVars, moneyVars, OnlyTears,
        Advances, Deal
<1>1. ASSUME NEW t \in Tasks, CleanupOld(t) PROVE OnlyTears
  BY <1>1 DEF CleanupOld
<1>2. ASSUME NEW t \in Tasks, ExpirePayload(t) PROVE OnlyTears
  BY <1>2 DEF ExpirePayload
<1>3. CASE ToggleQueue BY <1>3 DEF ToggleQueue
<1>4. CASE Tick BY <1>4 DEF Tick
<1>5. CASE Crash BY <1>5 DEF Crash
<1>6. CASE UNCHANGED vars BY <1>6 DEF vars
<1>7. QED BY <1>1, <1>2, <1>3, <1>4, <1>5, <1>6 DEF Environment

LEMMA StepMaps == ASSUME TypeOK, IInv, [Next]_vars PROVE [escrow!Next]_Mapping
<1>1. OnlyTears \/ \E t \in Tasks : Advances(t)
  BY SubmitMaps, CancelMaps, ExecuteMaps, DispatchMaps, RecoverMaps, OthersMap
  DEF Next
<1>2. QED BY <1>1, TearsMap, AdvanceMaps

\* Every behaviour of the queue is one of the escrow: a price is held once and
\* then kept or returned for good, unless a failure tears the request.
THEOREM EscrowRefined == Spec => ImplementsEscrow
<1>1. Init => escrow!Init
  BY DEF Init, escrow!Init, Deal, Mapping
<1>2. TypeOK /\ IInv /\ [Next]_vars => [escrow!Next]_Mapping BY StepMaps
<1>3. QED BY <1>1, <1>2, Invariant, PTL
          DEF Spec, ImplementsEscrow, escrow!Spec, Mapping

=============================================================================
