--------------------------- MODULE QueueProperties ---------------------------
(***************************************************************************)
(* What the generation queue guarantees, under every crash and every       *)
(* failed database write unless a property says otherwise, and what its    *)
(* documentation promises and the code does not keep.                      *)
(***************************************************************************)
EXTENDS GenerationQueue

\* The variables have the types the tables and the code give them.
TypeOK ==
    /\ pc \in [Tasks -> PCs]
    /\ snap \in [Tasks -> BOOLEAN]
    /\ status \in [Tasks -> Statuses]
    /\ position \in [Tasks -> Nat]
    /\ created \in [Tasks -> Nat]
    /\ startedAge \in [Tasks -> 0..Phases]
    /\ req \in [Tasks -> {"none", "stored", "expired", "deleted"}]
    /\ credits \in [Users -> Nat]
    /\ enabled \in BOOLEAN
    /\ mu \in {"free", "task", "scheduler"}
    /\ disp \subseteq Models
    /\ rec \in {"start", "picked", "refunding", "done"}
    /\ items \subseteq Tasks
    /\ sec \in Nat /\ phase \in 0..(Phases - 1) /\ lag \in 0..Phases
    /\ faults \in 0..MaxFaults /\ crashes \in 0..MaxCrashes
    /\ trueAge \in [Tasks -> 0..Phases]
    /\ charges \in [Tasks -> Nat]
    /\ refunds \in [Tasks -> Nat]
    /\ starts \in [Tasks -> Nat]
    /\ torn \subseteq Tasks

-----------------------------------------------------------------------------
(* Guarantees *)

RefundPending(t) == \/ pc[t] = "refunding"
                    \/ rec = "refunding" /\ t \in items

\* The user's credits are rightly held for t, or a step that must still happen
\* will give them back.
Outstanding(t) ==
    \/ status[t] \in {"executing", "succeeded"}
    \/ status[t] = "queued" /\ pc[t] # "canceling"
    \/ status[t] = "failed" /\ RefundPending(t)
    \/ status[t] = "none" /\ pc[t] \in {"charged", "rollback"}

\* A request that no failure caught between two writes is charged exactly when
\* its state says it should be: a running, waiting or delivered request keeps
\* its one debit; a failed, cancelled or refused one has been refunded once.
\* (SubmitAITask, CancelGenerationTask, failExecutingTask and startup recovery
\* each move credits and rows in separate writes.)
MoneyExact ==
    \A t \in Tasks \ torn :
        status[t] # "deleted" =>
            charges[t] - refunds[t] = IF Outstanding(t) THEN 1 ELSE 0

\* No request is ever sent upstream twice, and a cancelled one never is:
\* the dispatcher, a submission with free capacity, a cancellation and a
\* restart all decide about the same row.
ExecutedOnce ==
    \A t \in Tasks : /\ starts[t] <= 1 /\ charges[t] <= 1
                     /\ status[t] = "canceled" => starts[t] = 0

\* An executing row is being executed, or startup recovery is going to fail it:
\* apart from torn requests, no row stays in executing for ever.
NoOrphanExecuting ==
    \A t \in Tasks \ torn :
        status[t] = "executing" =>
            \/ pc[t] \in {"exec", "answered", "failing"}
            \/ rec = "start"
            \/ rec = "picked" /\ t \in items

\* A queued row never loses its request payload to the queue's own code: the
\* payload is stored before the row and deleted after it leaves the queue, so
\* only the sweeper of expired files can take it away.
QueuedHasPayload ==
    \A t \in Tasks : status[t] = "queued" => req[t] \in {"stored", "expired"}

\* No user ever has more than MaxQueuedPerUser tasks waiting, although the
\* count, the debit and the save of a submission are separate steps.
QueueCap == \A u \in Users : Cardinality(QueuedBy(u)) <= MaxQueuedPerUser

TrueStartsThisMinute(m) == {t \in Tasks : ModelOf[t] = m /\ trueAge[t] <= phase}

\* However the queue is switched off and on, no calendar minute sees more starts
\* of requests that were subject to a model's limit than the limit and one: the
\* one a submission adds that reads "now" before the turn of the minute and
\* counts after it.
WindowCap ==
    \A m \in Models :
        Cardinality({t \in TrueStartsThisMinute(m) : snap[t]}) <= Limit[m] + 1

\* The dispatcher never starts a queued task while an older one of the same
\* model stays behind, not even when it fails half way.
DispatchInOrder ==
    [][\A t \in Tasks : status[t] = "queued" /\ status'[t] = "executing" =>
          \A s \in Tasks : ModelOf[s] = ModelOf[t] /\ status'[s] = "queued" =>
              Before(t, s)]_vars

\* Apart from torn requests, an outcome shown to the user is final: a finished
\* row never changes its status before it is cleaned up, whatever a late
\* executor or a restart does.
OutcomeIsFinal ==
    [][\A t \in Tasks \ torn : status[t] \in Terminal =>
          status'[t] \in {status[t], "deleted"}]_vars

\* The queue implements the escrow.
Deal(t) ==
    IF t \in torn THEN "torn"
    ELSE IF charges[t] = 0 THEN "new"
    ELSE IF refunds[t] > 0 THEN "returned"
    ELSE IF status[t] \in {"succeeded", "deleted"} THEN "kept"
    ELSE "held"

escrow == INSTANCE Escrow WITH deal <- [t \in Tasks |-> Deal(t)]

\* Each request's price is held, then kept or returned for good, until a
\* failure between two writes tears it.
ImplementsEscrow == escrow!Spec

-----------------------------------------------------------------------------
(* Liveness *)

\* What the code schedules: the goroutine of an accepted request goes on, the
\* scheduler ticks every second, recovery runs and time passes.  Nothing is
\* assumed of upstream: CallProxy may never happen.
Fairness ==
    /\ WF_vars(Tick)
    /\ WF_vars(DispatchStart)
    /\ WF_vars(\E m \in Models : DispatchModel(m))
    /\ WF_vars(RecoverSelect) /\ WF_vars(RecoverMark)
    /\ \A t \in Tasks :
           /\ WF_vars(TurnAway(t) \/ Debit(t))
           /\ WF_vars(SaveExecuting(t) \/ SaveQueued(t))
           /\ WF_vars(CancelMark(t)) /\ WF_vars(CancelCleanup(t))
           /\ WF_vars(MarkSucceeded(t)) /\ WF_vars(MarkFailed(t))
           /\ WF_vars(RefundFailed(t)) /\ WF_vars(RecoverRefund(t))

FairSpec == Spec /\ Fairness

\* Every queued task eventually leaves the queue, even when upstream never
\* answers: capacity returns with the minute, not with the answers.
QueueDrains == \A t \in Tasks : status[t] = "queued" ~> status[t] # "queued"

\* Once upstream has answered or failed, the request reaches its final state
\* (its row may even be cleaned up by then) and its money is settled.
AnswerSettles ==
    \A t \in Tasks : pc[t] \in {"answered", "failing"} ~>
                        status[t] \in Terminal \cup {"deleted"} /\ ~RefundPending(t)

\* Left executing by a process that died.
Orphan(t) == status[t] = "executing" /\ pc[t] = "off"

FailedAndReturned(t) == /\ status[t] \in {"failed", "deleted"}
                        /\ charges[t] = 1 /\ refunds[t] = 1

\* What a crash left executing is failed for good and its charge returned exactly
\* once, however often the restart is itself interrupted and whatever the users do
\* meanwhile; only a crash between the mark and the refund tears the request.
OrphansSettle ==
    \A t \in Tasks : Orphan(t) ~> [](t \in torn \/ FailedAndReturned(t))

-----------------------------------------------------------------------------
(* What the documentation says and the code does not keep *)

\* docs/QUEUE_TECHNICAL.md:110 "Succeeded: Keep charge".  Startup recovery can
\* pick up a live request: it is refunded and then succeeds.
SucceededKeepsCharge == \A t \in Tasks : status[t] = "succeeded" => refunds[t] = 0
=============================================================================
