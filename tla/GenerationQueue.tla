--------------------------- MODULE GenerationQueue ---------------------------
(***************************************************************************)
(* The AI generation queue: service/generation_queue.go over the           *)
(* generation_tasks table (repository/generation_task.go), with the credit *)
(* movements each step makes.                                              *)
(*                                                                         *)
(* One element of Tasks stands for one AI request from its arrival to the  *)
(* deletion of its row: pc[t] is where the goroutine that works on it is,  *)
(* status[t] and the other row variables are what the database holds.  The *)
(* global mutex queueMu is mu.  A step is one database write, or several   *)
(* that nothing else can observe apart (the lock is held over them and     *)
(* only lock holders read what they change).  Any database write may fail  *)
(* (at most MaxFaults times) and the process may crash and restart between *)
(* any two steps (at most MaxCrashes times).                               *)
(*                                                                         *)
(* Time is relative: a row's started_at is its age in phases, Phases of    *)
(* them make a minute, and an age of Phases means "not in this minute".    *)
(***************************************************************************)
EXTENDS Integers, FiniteSets

CONSTANTS
    Tasks,            \* request ids; their order is the (random) order of uuids
    Users, Models,
    UserOf, ModelOf,  \* who sends a request, and to which model
    Cost,             \* ModelCost times the request count, per model
    InitialCredits,
    Limit,            \* modelRateLimit: starts allowed per minute
    MaxQueuedPerUser,
    Phases,           \* phases per minute
    AdminToggles,     \* may an administrator switch the queue on and off?
    PayloadsExpire,   \* may the cloud sweeper delete an expired payload?
    BootStates,       \* where startup recovery is in the initial state
    MaxFaults, MaxCrashes

ASSUME QueueAssumption ==
    /\ Tasks \subseteq Nat /\ IsFiniteSet(Tasks)
    /\ UserOf \in [Tasks -> Users]
    /\ ModelOf \in [Tasks -> Models]
    /\ Cost \in [Models -> Nat]
    /\ InitialCredits \in [Users -> Nat]
    /\ Limit \in [Models -> Nat \ {0}]
    /\ MaxQueuedPerUser \in Nat \ {0}
    /\ Phases \in Nat \ {0}
    /\ AdminToggles \in BOOLEAN /\ PayloadsExpire \in BOOLEAN
    /\ BootStates \subseteq {"start", "done"}
    /\ MaxFaults \in Nat /\ MaxCrashes \in Nat

VARIABLES
    pc,          \* the goroutine of the request
    snap,        \* queue.Enabled as the submission read it, before the lock
    status,      \* row: status ("none" before it is saved, "deleted" after)
    position,    \* row: queue_position
    created,     \* row: created_at, in seconds
    startedAge,  \* row: phases since started_at, at most Phases
    req,         \* the stored request payload
    credits,     \* users.credits
    enabled,     \* settings: AIQueue.Enabled
    mu,          \* queueMu: who holds it
    disp,        \* models the running dispatch pass has yet to visit
    rec,         \* recoverExecutingTasks
    items,       \* the rows recovery read and has yet to refund
    sec,         \* the wall clock's second, as created_at sees it
    phase,       \* the phase of the current minute
    lag,         \* age of the lock holder's "now" (line 92)
    faults, crashes,
    trueAge,     \* history: phases since execution really began
    charges, refunds, starts,  \* history: debits, refunds, upstream calls
    torn         \* history: requests a failure caught between two writes

rowVars    == <<status, position, created, startedAge, req>>
moneyVars  == <<credits, charges, refunds>>
lockVars   == <<mu, disp>>
bootVars   == <<rec, items>>
clockVars  == <<sec, phase, lag, trueAge>>
vars == <<pc, snap, rowVars, moneyVars, enabled, lockVars, bootVars,
          clockVars, faults, crashes, starts, torn>>

Statuses == {"none", "queued", "executing", "succeeded", "failed",
             "canceled", "deleted"}
Terminal == {"succeeded", "failed", "canceled"}

\* The places a request's goroutine stops at; the first four of Live belong to
\* SubmitAITask and CancelGenerationTask, the others to executeTask.
Executing == {"exec", "answered", "failing", "refunding"}
Locked    == {"charged", "canceling", "cleaning"}
PCs == {"none", "stored", "rollback", "off"} \cup Locked \cup Executing

-----------------------------------------------------------------------------
(* Queries of repository/generation_task.go. *)

QueuedBy(u)  == {t \in Tasks : UserOf[t] = u /\ status[t] = "queued"}
QueuedFor(m) == {t \in Tasks : ModelOf[t] = m /\ status[t] = "queued"}

\* ORDER BY created_at, id
Before(s, t) == \/ created[s] < created[t]
                \/ created[s] = created[t] /\ s < t
\* Mutant: newest first.
RankNewestFirst(q, t) == Cardinality({s \in q : Before(t, s)}) + 1
RankIn(q, t) == Cardinality({s \in q : Before(s, t)}) + 1

\* Mutant: counts the rows that are running instead of those that started.
RunningNow(m) == {t \in Tasks : ModelOf[t] = m /\ status[t] = "executing"}
\* CountDispatchedGenerationTasks since minuteWindowStart
StartedThisMinute(m) == {t \in Tasks : ModelOf[t] = m /\ startedAge[t] <= phase}
RemainingCapacity(m) == Limit[m] - Cardinality(StartedThisMinute(m))

\* RecalculateGenerationTaskPositions over the queued rows q, stopped by an
\* error after the first j of them.
Renumbered(q, j) ==
    [t \in Tasks |-> IF t \in q /\ RankIn(q, t) <= j THEN RankIn(q, t)
                                                     ELSE position[t]]

-----------------------------------------------------------------------------
(* Shared pieces of the actions. *)

Go(t, p)  == pc' = [pc EXCEPT ![t] = p]
Fault     == faults < MaxFaults /\ faults' = faults + 1
Tear(S)   == torn' = torn \cup S
DeleteRequest(t) == req' = [req EXCEPT ![t] = "deleted"]
SetStatus(t, s)  == status' = [status EXCEPT ![t] = s]
\* UPDATE ... WHERE id: of a row that is gone it changes nothing, without an error.
UpdateStatus(t, s) == SetStatus(t, IF status[t] = "deleted" THEN "deleted" ELSE s)

Price(t) == Cost[ModelOf[t]]
Affordable(t) == credits[UserOf[t]] >= Price(t)
Charge(t) == /\ credits' = [credits EXCEPT ![UserOf[t]] = @ - Price(t)]
             /\ charges' = [charges EXCEPT ![t] = @ + 1]
             /\ UNCHANGED refunds
Refund(t) == /\ credits' = [credits EXCEPT ![UserOf[t]] = @ + Price(t)]
             /\ refunds' = [refunds EXCEPT ![t] = @ + 1]
             /\ UNCHANGED charges

-----------------------------------------------------------------------------
(* SubmitAITask *)

\* The handler found the queue enabled; the settings are read a second time
\* and the request payload is stored, all before the lock.
Submit(t) ==
    /\ pc[t] = "none" /\ enabled
    /\ \E on \in IF AdminToggles THEN BOOLEAN ELSE {TRUE} :
           snap' = [snap EXCEPT ![t] = on]
    /\ req' = [req EXCEPT ![t] = "stored"]
    /\ Go(t, "stored")
    /\ UNCHANGED <<status, position, created, startedAge, moneyVars, enabled,
                   lockVars, bootVars, clockVars, faults, crashes, starts, torn>>

\* Mutant: the limit itself still lets one in.
QueueFullBeyond(t) == snap[t] /\ Cardinality(QueuedBy(UserOf[t])) > MaxQueuedPerUser

QueueFull(t) == /\ snap[t]
                /\ Cardinality(QueuedBy(UserOf[t])) >= MaxQueuedPerUser

\* Too many queued tasks, too few credits, or a query that fails.
TurnAway(t) ==
    /\ pc[t] = "stored" /\ mu = "free"
    /\ \/ (QueueFull(t) \/ ~Affordable(t)) /\ UNCHANGED faults
       \/ Fault
    /\ DeleteRequest(t)
    /\ Go(t, "off")
    /\ UNCHANGED <<snap, status, position, created, startedAge, moneyVars,
                   enabled, lockVars, bootVars, clockVars, crashes, starts, torn>>

\* The debit; the lock stays held.  "now", which becomes created_at and perhaps
\* started_at, is read right after it.
Debit(t) ==
    /\ pc[t] = "stored" /\ mu = "free"
    /\ ~QueueFull(t) /\ Affordable(t)
    /\ Charge(t)
    /\ \E s \in {sec, sec + 1} :
           sec' = s /\ created' = [created EXCEPT ![t] = s]
    /\ mu' = "task" /\ lag' = 0
    /\ Go(t, "charged")
    /\ UNCHANGED <<snap, status, position, startedAge, req, enabled, disp,
                   bootVars, phase, trueAge, faults, crashes, starts, torn>>

\* The balance is debited and the credit log entry is not written: the error
\* ends the submission without a refund.
DebitUnlogged(t) ==
    /\ pc[t] = "stored" /\ mu = "free"
    /\ ~QueueFull(t) /\ Affordable(t)
    /\ Fault
    /\ Charge(t) /\ Tear({t})
    /\ DeleteRequest(t)
    /\ Go(t, "off")
    /\ UNCHANGED <<snap, status, position, created, startedAge, enabled,
                   lockVars, bootVars, clockVars, crashes, starts>>

SaveExecuting(t) ==
    /\ pc[t] = "charged"
    /\ ~snap[t] \/ RemainingCapacity(ModelOf[t]) > 0
    /\ SetStatus(t, "executing")
    /\ startedAge' = [startedAge EXCEPT ![t] = lag]
    /\ trueAge' = [trueAge EXCEPT ![t] = 0]
    /\ mu' = "free"
    /\ Go(t, "exec")
    /\ UNCHANGED <<snap, position, created, req, moneyVars, enabled, disp,
                   bootVars, sec, phase, lag, faults, crashes, starts, torn>>

\* nextQueuePosition is one more than the number of queued rows of the model.
SaveQueued(t) ==
    /\ pc[t] = "charged"
    /\ snap[t] /\ RemainingCapacity(ModelOf[t]) <= 0
    /\ SetStatus(t, "queued")
    /\ position' = [position EXCEPT ![t] = Cardinality(QueuedFor(ModelOf[t])) + 1]
    /\ mu' = "free"
    /\ Go(t, "off")
    /\ UNCHANGED <<snap, created, startedAge, req, moneyVars, enabled, disp,
                   bootVars, clockVars, faults, crashes, starts, torn>>

\* A count or the save fails: unlock, then refund and delete the payload.
SaveError(t) ==
    /\ pc[t] = "charged"
    /\ Fault
    /\ mu' = "free"
    /\ Go(t, "rollback")
    /\ UNCHANGED <<snap, rowVars, moneyVars, enabled, disp, bootVars,
                   clockVars, crashes, starts, torn>>

\* Mutant: the failed submission forgets the refund.
RollbackUnpaid(t) ==
    /\ pc[t] = "rollback"
    /\ DeleteRequest(t)
    /\ Go(t, "off")
    /\ UNCHANGED <<snap, status, position, created, startedAge, moneyVars, enabled,
                   lockVars, bootVars, clockVars, faults, crashes, starts, torn>>

Rollback(t) ==
    /\ pc[t] = "rollback"
    /\ \/ Refund(t) /\ UNCHANGED <<faults, torn>>
       \/ Fault /\ Tear({t}) /\ UNCHANGED moneyVars
    /\ DeleteRequest(t)
    /\ Go(t, "off")
    /\ UNCHANGED <<snap, status, position, created, startedAge, enabled,
                   lockVars, bootVars, clockVars, crashes, starts>>

-----------------------------------------------------------------------------
(* CancelGenerationTask *)

\* Mutant: any row can be cancelled.
CancelRefundAnyStatus(t) ==
    /\ mu = "free" /\ status[t] \in {"queued", "executing"} \cup Terminal
    /\ pc[t] \in {"off", "exec"}
    /\ Refund(t)
    /\ mu' = "task"
    /\ Go(t, "canceling")
    /\ UNCHANGED <<snap, rowVars, enabled, disp, bootVars, clockVars,
                   faults, crashes, starts, torn>>

CancelRefund(t) ==
    /\ mu = "free" /\ status[t] = "queued"
    /\ Refund(t)
    /\ mu' = "task"
    /\ Go(t, "canceling")
    /\ UNCHANGED <<snap, rowVars, enabled, disp, bootVars, clockVars,
                   faults, crashes, starts, torn>>

\* The balance is credited and the credit log entry is not written: the error
\* ends the cancellation and the row stays queued.
CancelUnlogged(t) ==
    /\ mu = "free" /\ status[t] = "queued"
    /\ Fault
    /\ Refund(t) /\ Tear({t})
    /\ UNCHANGED <<pc, snap, rowVars, enabled, lockVars, bootVars, clockVars,
                   crashes, starts>>

CancelMark(t) ==
    /\ pc[t] = "canceling"
    /\ SetStatus(t, "canceled")
    /\ position' = [position EXCEPT ![t] = 0]
    /\ Go(t, "cleaning")
    /\ UNCHANGED <<snap, created, startedAge, req, moneyVars, enabled, lockVars,
                   bootVars, clockVars, faults, crashes, starts, torn>>

CancelMarkError(t) ==
    /\ pc[t] = "canceling"
    /\ Fault /\ Tear({t})
    /\ mu' = "free"
    /\ Go(t, "off")
    /\ UNCHANGED <<snap, rowVars, moneyVars, enabled, disp, bootVars, clockVars,
                   crashes, starts>>

CancelCleanup(t) ==
    /\ pc[t] = "cleaning"
    /\ DeleteRequest(t)
    /\ LET q == QueuedFor(ModelOf[t])
       IN \/ position' = Renumbered(q, Cardinality(q)) /\ UNCHANGED faults
          \/ Fault /\ \E j \in 0..Cardinality(q) : position' = Renumbered(q, j)
    /\ mu' = "free"
    /\ Go(t, "off")
    /\ UNCHANGED <<snap, status, created, startedAge, moneyVars, enabled, disp,
                   bootVars, clockVars, crashes, starts, torn>>

-----------------------------------------------------------------------------
(* dispatchQueuedTasks: the scheduler goroutine, once recovery has returned *)

DispatchStart ==
    /\ rec = "done" /\ mu = "free" /\ enabled
    /\ disp' = {m \in Models : QueuedFor(m) # {}}
    /\ disp' # {}
    /\ mu' = "scheduler"
    /\ UNCHANGED <<pc, snap, rowVars, moneyVars, enabled, bootVars, clockVars,
                   faults, crashes, starts, torn>>

\* The k oldest queued rows of m are marked executing and each gets a
\* goroutine; then the first j of the remaining rows are renumbered.
StartOldest(m, k, j) ==
    LET batch == {t \in QueuedFor(m) : RankIn(QueuedFor(m), t) <= k}
        rest  == QueuedFor(m) \ batch
    IN /\ status' = [t \in Tasks |-> IF t \in batch THEN "executing" ELSE status[t]]
       /\ startedAge' = [t \in Tasks |-> IF t \in batch THEN 0 ELSE startedAge[t]]
       /\ trueAge' = [t \in Tasks |-> IF t \in batch THEN 0 ELSE trueAge[t]]
       /\ pc' = [t \in Tasks |-> IF t \in batch THEN "exec" ELSE pc[t]]
       /\ position' = [t \in Tasks |-> IF t \in batch THEN 0
                                                      ELSE Renumbered(rest, j)[t]]

DispatchModel(m) ==
    /\ mu = "scheduler" /\ m \in disp
    /\ IF RemainingCapacity(m) <= 0
       THEN StartOldest(m, 0, 0)
       ELSE StartOldest(m, RemainingCapacity(m), Cardinality(Tasks))
    /\ disp' = disp \ {m}
    /\ mu' = IF disp' = {} THEN "free" ELSE mu
    /\ UNCHANGED <<snap, created, req, moneyVars, enabled, bootVars, sec, phase,
                   lag, faults, crashes, starts, torn>>

\* A query, a mark or a renumbering fails: the pass ends where it is.
DispatchError(m) ==
    /\ mu = "scheduler" /\ m \in disp
    /\ Fault
    /\ \E k \in 0..RemainingCapacity(m), j \in 0..Cardinality(Tasks) :
           /\ j > 0 => k = RemainingCapacity(m) /\ k > 0
           /\ StartOldest(m, k, j)
    /\ disp' = {} /\ mu' = "free"
    /\ UNCHANGED <<snap, created, req, moneyVars, enabled, bootVars, sec, phase,
                   lag, crashes, starts, torn>>

-----------------------------------------------------------------------------
(* executeTask and failExecutingTask: no lock, one goroutine per request *)

execUnchanged == <<snap, position, created, startedAge, req, enabled, lockVars,
                   bootVars, clockVars, crashes>>

\* The registered executor calls upstream, which answers or does not.
CallProxy(t) ==
    /\ pc[t] = "exec" /\ req[t] = "stored"
    /\ starts' = [starts EXCEPT ![t] = @ + 1]
    /\ \E p \in {"answered", "failing"} : Go(t, p)
    /\ UNCHANGED <<execUnchanged, status, moneyVars, faults, torn>>

PayloadLost(t) ==
    /\ pc[t] = "exec" /\ req[t] # "stored"
    /\ Go(t, "failing")
    /\ UNCHANGED <<execUnchanged, status, moneyVars, faults, starts, torn>>

\* Mutant: the response is returned and the row is left executing.
MarkSucceededForgets(t) ==
    /\ pc[t] = "answered"
    /\ Go(t, "off")
    /\ UNCHANGED <<execUnchanged, status, moneyVars, faults, starts, torn>>

\* The response payload is stored and the row is marked, whatever its status
\* is by now.
MarkSucceeded(t) ==
    /\ pc[t] = "answered"
    /\ UpdateStatus(t, "succeeded")
    /\ Go(t, "off")
    /\ UNCHANGED <<execUnchanged, moneyVars, faults, starts, torn>>

\* The payload is not stored: the task fails.  Or the row is not updated, which
\* is only logged.
MarkSucceededError(t) ==
    /\ pc[t] = "answered"
    /\ Fault
    /\ \/ Go(t, "failing") /\ UNCHANGED torn
       \/ Go(t, "off") /\ Tear({t})
    /\ UNCHANGED <<execUnchanged, status, moneyVars, starts>>

MarkFailed(t) ==
    /\ pc[t] = "failing"
    /\ \/ UpdateStatus(t, "failed") /\ Go(t, "refunding") /\ UNCHANGED <<faults, torn>>
       \/ Fault /\ Tear({t}) /\ Go(t, "off") /\ UNCHANGED status
    /\ UNCHANGED <<execUnchanged, moneyVars, starts>>

RefundFailed(t) ==
    /\ pc[t] = "refunding"
    /\ \/ Refund(t) /\ UNCHANGED <<faults, torn>>
       \/ Fault /\ Tear({t}) /\ UNCHANGED moneyVars
    /\ Go(t, "off")
    /\ UNCHANGED <<execUnchanged, status, starts>>

-----------------------------------------------------------------------------
(* recoverExecutingTasks: once at startup, without the lock, while the HTTP
   handlers already serve requests *)

bootUnchanged == <<pc, snap, position, created, startedAge, req, enabled,
                   lockVars, clockVars, crashes, starts>>

\* A live request among the rows read is torn: its own goroutine also decides it.
RecoverSelect ==
    /\ rec = "start"
    /\ LET found == {t \in Tasks : status[t] = "executing"}
       IN \/ /\ items' = found
             /\ rec' = IF found = {} THEN "done" ELSE "picked"
             /\ Tear({t \in found : pc[t] # "off"})
             /\ UNCHANGED faults
          \/ Fault /\ rec' = "done" /\ Tear(found) /\ UNCHANGED items
    /\ UNCHANGED <<bootUnchanged, status, moneyVars>>

\* Mutant: the rows are marked and nobody is refunded.
RecoverMarkUnpaid ==
    /\ rec = "picked"
    /\ status' = [t \in Tasks |-> IF t \in items THEN "failed" ELSE status[t]]
    /\ rec' = "done" /\ items' = {}
    /\ UNCHANGED <<bootUnchanged, moneyVars, faults, torn>>

\* UPDATE ... WHERE id IN (...), whatever the rows' status is by now.
RecoverMark ==
    /\ rec = "picked"
    /\ \/ /\ status' = [t \in Tasks |-> IF t \in items THEN "failed" ELSE status[t]]
          /\ rec' = "refunding" /\ UNCHANGED <<items, faults, torn>>
       \/ Fault /\ Tear(items) /\ items' = {} /\ rec' = "done" /\ UNCHANGED status
    /\ UNCHANGED <<bootUnchanged, moneyVars>>

RecoverRefund(t) ==
    /\ rec = "refunding" /\ t \in items
    /\ \/ Refund(t) /\ UNCHANGED <<faults, torn>>
       \/ Fault /\ Tear({t}) /\ UNCHANGED moneyVars
    /\ items' = items \ {t}
    /\ rec' = IF items' = {} THEN "done" ELSE rec
    /\ UNCHANGED <<bootUnchanged, status>>

-----------------------------------------------------------------------------
(* Cleanup, settings, time and crashes *)

\* cleanupOldGenerationTasks, in the scheduler goroutine between two passes.
\* Retention is counted in hours: the row is out of every rate window.  The call
\* upstream has no timeout and may last longer than that ("answered" and
\* "failing" stand for it too); nobody stays that long between two writes.
CleanupOld(t) ==
    /\ rec = "done" /\ mu # "scheduler"
    /\ status[t] \in Terminal /\ startedAge[t] = Phases
    /\ pc[t] \in {"off", "exec", "answered", "failing"}
    /\ DeleteRequest(t)
    /\ \/ SetStatus(t, "deleted") /\ UNCHANGED faults
       \/ Fault /\ UNCHANGED status
    /\ UNCHANGED <<pc, snap, position, created, startedAge, moneyVars, enabled,
                   lockVars, bootVars, clockVars, crashes, starts, torn>>

\* CleanupExpiredCloudFiles removes a payload past its retention, even when the
\* task still waits.
ExpirePayload(t) ==
    /\ PayloadsExpire
    /\ req[t] = "stored"
    /\ req' = [req EXCEPT ![t] = "expired"]
    /\ UNCHANGED <<pc, snap, status, position, created, startedAge, moneyVars,
                   enabled, lockVars, bootVars, clockVars, faults, crashes,
                   starts, torn>>

ToggleQueue ==
    /\ AdminToggles
    /\ enabled' = ~enabled
    /\ UNCHANGED <<pc, snap, rowVars, moneyVars, lockVars, bootVars, clockVars,
                   faults, crashes, starts, torn>>

Older(a) == IF a < Phases THEN a + 1 ELSE Phases

Tick ==
    /\ phase' = (phase + 1) % Phases
    /\ startedAge' = [t \in Tasks |-> Older(startedAge[t])]
    /\ trueAge' = [t \in Tasks |-> Older(trueAge[t])]
    /\ lag' = Older(lag)
    /\ UNCHANGED <<pc, snap, status, position, created, req, moneyVars, enabled,
                   lockVars, bootVars, sec, faults, crashes, starts, torn>>

\* Every goroutine and the mutex are lost; the new process starts recovery.
Crash ==
    /\ crashes < MaxCrashes
    /\ crashes' = crashes + 1
    /\ pc' = [t \in Tasks |-> IF pc[t] = "none" THEN "none" ELSE "off"]
    /\ mu' = "free" /\ disp' = {}
    /\ rec' = "start" /\ items' = {}
    /\ Tear({t \in Tasks : pc[t] \in {"charged", "rollback", "canceling", "refunding"}}
            \cup IF rec = "refunding" THEN items ELSE {})
    /\ UNCHANGED <<snap, rowVars, moneyVars, enabled, clockVars, faults, starts>>

-----------------------------------------------------------------------------
Init ==
    /\ pc = [t \in Tasks |-> "none"]
    /\ snap = [t \in Tasks |-> TRUE]
    /\ status = [t \in Tasks |-> "none"]
    /\ position = [t \in Tasks |-> 0]
    /\ created = [t \in Tasks |-> 0]
    /\ startedAge = [t \in Tasks |-> Phases]
    /\ req = [t \in Tasks |-> "none"]
    /\ credits = InitialCredits
    /\ enabled = TRUE
    /\ mu = "free" /\ disp = {}
    /\ rec \in BootStates /\ items = {}
    /\ sec = 0 /\ phase = 0 /\ lag = 0
    /\ faults = 0 /\ crashes = 0
    /\ trueAge = [t \in Tasks |-> Phases]
    /\ charges = [t \in Tasks |-> 0]
    /\ refunds = [t \in Tasks |-> 0]
    /\ starts = [t \in Tasks |-> 0]
    /\ torn = {}

SubmitAITask(t) ==
    \/ Submit(t) \/ TurnAway(t) \/ Debit(t) \/ DebitUnlogged(t)
    \/ SaveExecuting(t) \/ SaveQueued(t) \/ SaveError(t) \/ Rollback(t)

CancelGenerationTask(t) ==
    \/ CancelRefund(t) \/ CancelUnlogged(t) \/ CancelMark(t)
    \/ CancelMarkError(t) \/ CancelCleanup(t)

ExecuteTask(t) ==
    \/ CallProxy(t) \/ PayloadLost(t) \/ MarkSucceeded(t)
    \/ MarkSucceededError(t) \/ MarkFailed(t) \/ RefundFailed(t)

DispatchQueuedTasks ==
    \/ DispatchStart
    \/ \E m \in Models : DispatchModel(m) \/ DispatchError(m)

RecoverExecutingTasks ==
    \/ RecoverSelect \/ RecoverMark
    \/ \E t \in Tasks : RecoverRefund(t)

Environment == ToggleQueue \/ Tick \/ Crash

Next ==
    \/ \E t \in Tasks : \/ SubmitAITask(t) \/ CancelGenerationTask(t)
                        \/ ExecuteTask(t) \/ CleanupOld(t) \/ ExpirePayload(t)
    \/ DispatchQueuedTasks \/ RecoverExecutingTasks \/ Environment

Spec == Init /\ [][Next]_vars
=============================================================================
