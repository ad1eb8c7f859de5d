----------------------------- MODULE QueueProofs -----------------------------
(***************************************************************************)
(* Theorems about the generation queue, for every number of requests,      *)
(* users, models, faults and crashes.                                      *)
(***************************************************************************)
EXTENDS QueueProperties, FiniteSetTheorems, TLAPS

-----------------------------------------------------------------------------
(* Numbering: the facts about cardinalities the type invariant rests on. *)

\* The number of queued rows of a model, which a new row's position and the
\* renumbering are computed from, is a natural number.
LEMMA QueuedForFinite ==
    ASSUME NEW m PROVE /\ IsFiniteSet(QueuedFor(m))
                       /\ Cardinality(QueuedFor(m)) \in Nat
<1>1. QueuedFor(m) \subseteq Tasks BY DEF QueuedFor
<1>2. IsFiniteSet(QueuedFor(m)) BY <1>1, FS_Subset, QueueAssumption
<1>3. QED BY <1>2, FS_CardinalityType

\* A row's rank among queued rows is a positive number.
LEMMA RankType ==
    ASSUME NEW q \in SUBSET Tasks, NEW t \in Tasks
    PROVE  RankIn(q, t) \in Nat \ {0}
<1> DEFINE S == {s \in q : Before(s, t)}
<1>1. S \subseteq Tasks OBVIOUS
<1>2. IsFiniteSet(S) BY <1>1, FS_Subset, QueueAssumption
<1>3. Cardinality(S) \in Nat BY <1>2, FS_CardinalityType
<1>4. RankIn(q, t) = Cardinality(S) + 1 BY DEF RankIn
<1> HIDE DEF S
<1>5. QED BY <1>3, <1>4

\* Renumbering, complete or cut short, leaves every row with a position.
LEMMA RenumberedType ==
    ASSUME NEW q \in SUBSET Tasks, NEW j, position \in [Tasks -> Nat]
    PROVE  Renumbered(q, j) \in [Tasks -> Nat]
BY RankType DEF Renumbered

\* What one dispatched batch leaves in the rows and the goroutines it touches.
LEMMA StartOldestType ==
    ASSUME TypeOK, NEW m \in Models, NEW k, NEW j, StartOldest(m, k, j)
    PROVE  /\ status' \in [Tasks -> Statuses]
           /\ pc' \in [Tasks -> PCs]
           /\ position' \in [Tasks -> Nat]
           /\ startedAge' \in [Tasks -> 0..Phases]
           /\ trueAge' \in [Tasks -> 0..Phases]
<1> DEFINE batch == {t \in QueuedFor(m) : RankIn(QueuedFor(m), t) <= k}
           rest  == QueuedFor(m) \ batch
<1>1. rest \in SUBSET Tasks BY DEF QueuedFor
<1>2. Renumbered(rest, j) \in [Tasks -> Nat] BY <1>1, RenumberedType DEF TypeOK
<1>3. 0 \in 0..Phases BY QueueAssumption
<1>4. position' = [t \in Tasks |-> IF t \in batch THEN 0 ELSE Renumbered(rest, j)[t]]
  BY DEF StartOldest
<1>5. /\ status' = [t \in Tasks |-> IF t \in batch THEN "executing" ELSE status[t]]
      /\ startedAge' = [t \in Tasks |-> IF t \in batch THEN 0 ELSE startedAge[t]]
      /\ trueAge' = [t \in Tasks |-> IF t \in batch THEN 0 ELSE trueAge[t]]
      /\ pc' = [t \in Tasks |-> IF t \in batch THEN "exec" ELSE pc[t]]
  BY DEF StartOldest
<1> HIDE DEF batch, rest
<1>6. position' \in [Tasks -> Nat] BY <1>2, <1>4
<1>7. QED BY <1>3, <1>5, <1>6 DEF TypeOK, Statuses, PCs, Executing

-----------------------------------------------------------------------------
(* The type invariant. *)

\* The budget of faults is respected by a step that meets one, or none.
LEMMA FaultType ==
    ASSUME TypeOK, Fault \/ faults' = faults PROVE faults' \in 0..MaxFaults
BY QueueAssumption DEF TypeOK, Fault

LEMMA TypeInit == Init => TypeOK
BY QueueAssumption DEF Init, TypeOK, PCs, Statuses

LEMMA TypeSubmit ==
    ASSUME TypeOK, NEW t \in Tasks, SubmitAITask(t) PROVE TypeOK'
<1> USE QueueAssumption DEF TypeOK, PCs, Locked, Executing, Statuses, Go, Fault,
        Tear, DeleteRequest, SetStatus, Price,
        rowVars, moneyVars, lockVars, bootVars, clockVars
<1>1. CASE Submit(t) BY <1>1 DEF Submit
<1>2. CASE TurnAway(t) BY <1>2 DEF TurnAway
<1>3. CASE Debit(t) BY <1>3 DEF Debit, Charge, Affordable
<1>4. CASE DebitUnlogged(t) BY <1>4 DEF DebitUnlogged, Charge, Affordable
<1>5. CASE SaveExecuting(t) BY <1>5 DEF SaveExecuting
<1>6. CASE SaveQueued(t)
  <2>1. Cardinality(QueuedFor(ModelOf[t])) + 1 \in Nat BY QueuedForFinite
  <2>2. QED BY <1>6, <2>1 DEF SaveQueued
<1>7. CASE SaveError(t) BY <1>7 DEF SaveError
<1>8. CASE Rollback(t)
  <2>1. /\ faults' \in 0..MaxFaults
        /\ pc' \in [Tasks -> PCs]
    BY <1>8, FaultType DEF Rollback
  <2>4. torn' \subseteq Tasks
    <3>1. torn' = torn \/ torn' = torn \cup {t} BY <1>8 DEF Rollback
    <3>2. QED BY <3>1
  <2>2. /\ credits' \in [Users -> Nat]
        /\ charges' \in [Tasks -> Nat]
        /\ refunds' \in [Tasks -> Nat]
    BY <1>8 DEF Rollback, Refund
  <2>3. QED BY <1>8, <2>1, <2>2, <2>4 DEF Rollback
<1>9. QED BY <1>1, <1>2, <1>3, <1>4, <1>5, <1>6, <1>7, <1>8 DEF SubmitAITask

LEMMA TypeCancel ==
    ASSUME TypeOK, NEW t \in Tasks, CancelGenerationTask(t) PROVE TypeOK'
<1> USE QueueAssumption DEF TypeOK, PCs, Locked, Executing, Statuses, Go, Fault,
        Tear, DeleteRequest, SetStatus, Price,
        rowVars, moneyVars, lockVars, bootVars, clockVars
<1>1. CASE CancelRefund(t) BY <1>1 DEF CancelRefund, Refund
<1>2. CASE CancelUnlogged(t) BY <1>2 DEF CancelUnlogged, Refund
<1>3. CASE CancelMark(t) BY <1>3 DEF CancelMark
<1>4. CASE CancelMarkError(t) BY <1>4 DEF CancelMarkError
<1>5. CASE CancelCleanup(t)
  <2>1. QueuedFor(ModelOf[t]) \in SUBSET Tasks BY DEF QueuedFor
  <2>2. \A j : Renumbered(QueuedFor(ModelOf[t]), j) \in [Tasks -> Nat]
    BY <2>1, RenumberedType
  <2>3. QED BY <1>5, <2>2 DEF CancelCleanup
<1>6. QED BY <1>1, <1>2, <1>3, <1>4, <1>5 DEF CancelGenerationTask

\* An executor's step leaves alone whatever execUnchanged names.
LEMMA ExecuteFrame ==
    ASSUME UNCHANGED execUnchanged
    PROVE  UNCHANGED <<snap, position, created, startedAge, req, enabled, mu, disp,
                       rec, items, sec, phase, lag, trueAge, crashes>>
BY DEF execUnchanged, lockVars, bootVars, clockVars

\* A step of recovery leaves alone whatever bootUnchanged names.
LEMMA RecoverFrame ==
    ASSUME UNCHANGED bootUnchanged
    PROVE  UNCHANGED <<pc, snap, position, created, startedAge, req, enabled, mu,
                       disp, sec, phase, lag, trueAge, crashes, starts>>
BY DEF bootUnchanged, lockVars, clockVars

LEMMA TypeExecute ==
    ASSUME TypeOK, NEW t \in Tasks, ExecuteTask(t) PROVE TypeOK'
<1>1. UNCHANGED execUnchanged
  BY DEF ExecuteTask, CallProxy, PayloadLost, MarkSucceeded, MarkSucceededError,
         MarkFailed, RefundFailed
<1> USE QueueAssumption DEF TypeOK, PCs, Locked, Executing, Statuses, Go, Fault,
        Tear, SetStatus, UpdateStatus, Price, moneyVars
<1>2. /\ pc' \in [Tasks -> PCs]
      /\ status' \in [Tasks -> Statuses]
      /\ starts' \in [Tasks -> Nat]
  BY DEF ExecuteTask, CallProxy, PayloadLost, MarkSucceeded, MarkSucceededError,
         MarkFailed, RefundFailed
<1>3. /\ faults' \in 0..MaxFaults
      /\ torn' \subseteq Tasks
  <2>1. /\ Fault \/ faults' = faults
        /\ torn' = torn \/ torn' = torn \cup {t}
    BY DEF ExecuteTask, CallProxy, PayloadLost, MarkSucceeded, MarkSucceededError,
           MarkFailed, RefundFailed
  <2>2. QED BY <2>1, FaultType
<1>4. /\ credits' \in [Users -> Nat]
      /\ charges' \in [Tasks -> Nat]
      /\ refunds' \in [Tasks -> Nat]
  BY DEF ExecuteTask, CallProxy, PayloadLost, MarkSucceeded, MarkSucceededError,
         MarkFailed, RefundFailed, Refund
<1>5. QED BY <1>1, <1>2, <1>3, <1>4, ExecuteFrame

LEMMA TypeDispatch ==
    ASSUME TypeOK, DispatchQueuedTasks PROVE TypeOK'
<1>1. CASE DispatchStart
  BY <1>1 DEF DispatchStart, TypeOK, rowVars, moneyVars, bootVars, clockVars
<1>2. ASSUME NEW m \in Models, DispatchModel(m) PROVE TypeOK'
  <2>1. \E k, j : StartOldest(m, k, j) BY <1>2 DEF DispatchModel
  <2>2. QED BY <1>2, <2>1, StartOldestType
            DEF DispatchModel, TypeOK, moneyVars, bootVars
<1>3. ASSUME NEW m \in Models, DispatchError(m) PROVE TypeOK'
  <2>1. \E k, j : StartOldest(m, k, j) BY <1>3 DEF DispatchError
  <2>2. QED BY <1>3, <2>1, StartOldestType, QueueAssumption
            DEF DispatchError, TypeOK, Fault, moneyVars, bootVars
<1>4. QED BY <1>1, <1>2, <1>3 DEF DispatchQueuedTasks

LEMMA TypeRecover ==
    ASSUME TypeOK, RecoverExecutingTasks PROVE TypeOK'
<1> USE DEF RecoverExecutingTasks, RecoverSelect, RecoverMark, RecoverRefund
<1>1. UNCHANGED bootUnchanged OBVIOUS
<1> USE QueueAssumption DEF TypeOK, Statuses, Fault, Tear, Price, moneyVars
<1>2. /\ status' \in [Tasks -> Statuses]
      /\ rec' \in {"start", "picked", "refunding", "done"}
      /\ items' \subseteq Tasks
  OBVIOUS
<1>3. /\ faults' \in 0..MaxFaults
      /\ torn' \subseteq Tasks
  <2>1. Fault \/ faults' = faults OBVIOUS
  <2>2. PICK S \in SUBSET Tasks : torn' = torn \/ torn' = torn \cup S
    OBVIOUS
  <2>3. QED BY <2>1, <2>2, FaultType
<1>4. /\ credits' \in [Users -> Nat]
      /\ charges' \in [Tasks -> Nat]
      /\ refunds' \in [Tasks -> Nat]
  BY DEF Refund
<1>5. QED BY <1>1, <1>2, <1>3, <1>4, RecoverFrame

LEMMA TypeEnvironment ==
    ASSUME TypeOK, Environment PROVE TypeOK'
<1> USE QueueAssumption DEF TypeOK, rowVars, moneyVars, lockVars, bootVars, clockVars
<1>1. CASE ToggleQueue BY <1>1 DEF ToggleQueue
<1>2. CASE Tick
  <2> HIDE DEF TypeOK
  <2>a. \A a \in Nat, b \in Nat \ {0} : a % b \in 0..(b - 1) OBVIOUS
  <2>1. (phase + 1) % Phases \in 0..(Phases - 1) BY <2>a DEF TypeOK
  <2> USE DEF TypeOK
  <2>2. \A a \in 0..Phases : Older(a) \in 0..Phases BY DEF Older
  <2>3. QED BY <1>2, <2>1, <2>2 DEF Tick
<1>3. CASE Crash
  <2>1. PICK S \in SUBSET Tasks : torn' = torn \cup S BY <1>3 DEF Crash, Tear
  <2>2. torn' \subseteq Tasks BY <2>1
  <2>3. pc' \in [Tasks -> PCs] BY <1>3 DEF Crash, PCs
  <2>4. QED BY <1>3, <2>2, <2>3 DEF Crash
<1>4. QED BY <1>1, <1>2, <1>3 DEF Environment

LEMMA TypeNext == ASSUME TypeOK, [Next]_vars PROVE TypeOK'
<1>1. ASSUME NEW t \in Tasks, CleanupOld(t) PROVE TypeOK'
  BY <1>1, QueueAssumption
  DEF CleanupOld, TypeOK, Statuses, DeleteRequest, SetStatus, Fault, moneyVars,
      lockVars, bootVars, clockVars
<1>2. ASSUME NEW t \in Tasks, ExpirePayload(t) PROVE TypeOK'
  BY <1>2 DEF ExpirePayload, TypeOK, moneyVars, lockVars, bootVars, clockVars
<1>3. CASE UNCHANGED vars
  BY <1>3 DEF vars, TypeOK, rowVars, moneyVars, lockVars, bootVars, clockVars
<1>4. QED
  BY <1>1, <1>2, <1>3, TypeSubmit, TypeCancel, TypeExecute, TypeDispatch,
     TypeRecover, TypeEnvironment DEF Next

\* The variables keep their types: credits in particular never go negative.
THEOREM TypeCorrect == Spec => []TypeOK
<1>1. Init => TypeOK BY TypeInit
<1>2. TypeOK /\ [Next]_vars => TypeOK' BY TypeNext
<1>3. QED BY <1>1, <1>2, PTL DEF Spec
=============================================================================
