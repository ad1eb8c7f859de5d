---------------------- MODULE CanvasAssistantProperties ----------------------
(***************************************************************************)
(* What the assistant promises.                                            *)
(***************************************************************************)
EXTENDS CanvasAssistant

\* What the panel shows in place of an answer is never kept as a part of the
\* conversation, whichever questions are asked while others are on their way.
NoPlaceholdersKept ==
    \A row \in ToSet(kept) : \A m \in ToSet(row.messages) : m.state # "loading"

\* A question of the panel that is open comes to an end: its answer is shown, or its
\* failure, or its session has been replaced or removed.  (The first thing done can only
\* be to write one.)
Waiting(turn) == \E s \in ToSet(talk) : \E m \in ToSet(s.messages) : m.turn = turn /\ m.state = "loading"
ThinkingEnds ==
    \A turn \in 2 .. MaxTalks :
        (\E s \in sends : s.turn = turn /\ s.here) ~> (~Waiting(turn) \/ ~Open)
=============================================================================
