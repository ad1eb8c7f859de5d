--------------------------- MODULE QueueInvariant ---------------------------
(***************************************************************************)
(* The inductive invariant behind the queue's safety properties: what the  *)
(* place of a request's goroutine, the lock and startup recovery say about *)
(* its row, its payload and its money.                                     *)
(***************************************************************************)
EXTENDS QueueProperties

\* The lock discipline: a goroutine between the debit and the save, or between
\* the refund and the end of a cancellation, holds queueMu and is alone there.
LockInv ==
    \A t \in Tasks : pc[t] \in Locked =>
        /\ mu = "task"
        /\ \A s \in Tasks : pc[s] \in Locked => s = t

\* Startup recovery holds rows only while it marks and refunds them.
RecInv == rec \in {"start", "done"} => items = {}

\* What the place of the goroutine says about the row.
PcInv(t) ==
    /\ pc[t] \in {"none", "stored"} => status[t] = "none" /\ charges[t] = 0
    /\ pc[t] \in {"charged", "rollback"} => status[t] = "none"
    /\ pc[t] = "canceling" => status[t] = "queued"
    /\ pc[t] = "cleaning" => status[t] = "canceled"
    /\ pc[t] \in Executing => status[t] \in {"executing", "failed", "deleted"}
    /\ pc[t] = "refunding" => status[t] \in {"failed", "deleted"}
    /\ pc[t] = "exec" => starts[t] = 0

\* What the row says about the goroutine, the payload and the upstream calls.
StatusInv(t) ==
    /\ status[t] \in {"none", "queued", "canceled"} =>
           starts[t] = 0 /\ t \notin items
    /\ status[t] = "queued" => pc[t] \in {"off", "canceling"}
    /\ status[t] = "queued" \/ pc[t] \in {"stored", "charged"} =>
           req[t] \in {"stored", "expired"}
    /\ status[t] = "deleted" => pc[t] \in Executing \cup {"off"}
    /\ starts[t] <= 1 /\ charges[t] <= 1

\* What holds of a request until a failure catches it between two writes.
UntornInv(t) ==
    /\ charges[t] = 0 => status[t] = "none" /\ pc[t] \notin {"charged", "rollback"}
    /\ pc[t] \in {"exec", "answered", "failing"} => status[t] = "executing"
    /\ pc[t] = "refunding" => status[t] = "failed"
    /\ t \in items =>
           /\ pc[t] = "off"
           /\ status[t] = IF rec = "picked" THEN "executing" ELSE "failed"
    /\ status[t] = "executing" =>
           \/ pc[t] \in {"exec", "answered", "failing"}
           \/ rec = "start"
           \/ rec = "picked" /\ t \in items
    /\ status[t] # "deleted" =>
           refunds[t] = charges[t] - (IF Outstanding(t) THEN 1 ELSE 0)
    /\ status[t] \in {"succeeded", "deleted"} => refunds[t] \in {0, 1}

IInv ==
    /\ LockInv
    /\ RecInv
    /\ \A t \in Tasks : PcInv(t) /\ StatusInv(t) /\ (t \notin torn => UntornInv(t))
-----------------------------------------------------------------------------
(* The rate window: why a minute sees at most one start too many. *)

\* What the dispatcher and a submission count of the requests the limit is for.
Counted(m) == {t \in StartedThisMinute(m) : snap[t]}

\* Started in this minute, but with a started_at of the minute before.
Uncounted == {t \in Tasks : trueAge[t] <= phase /\ startedAge[t] > phase}

\* The row never says that execution began later than it did, and says nothing
\* before there is a row.
StartInv ==
    \A t \in Tasks :
        /\ trueAge[t] <= startedAge[t]
        /\ pc[t] \in {"none", "stored", "charged"} => startedAge[t] = Phases

\* A submission that read "now" before the turn of the minute has kept the lock
\* ever since: nothing has started in this minute yet.
TurnInv ==
    (\E t \in Tasks : pc[t] = "charged") /\ lag > phase =>
        \A t \in Tasks : trueAge[t] > phase

WindowInv ==
    /\ StartInv
    /\ TurnInv
    /\ \A s, t \in Uncounted : s = t
    /\ \A m \in Models : Cardinality(Counted(m)) <= Limit[m]
=============================================================================
