------------------------------- MODULE MCQueue -------------------------------
(* Values of the queue's constants for the model checker. *)
EXTENDS QueueProperties

\* Two users; in the one-model instances all requests compete for one limit.
OneModel   == [t \in Tasks |-> "image"]
TwoModels  == [t \in Tasks |-> IF t > 2 THEN "video" ELSE "image"]
AllAnn     == [t \in Tasks |-> "ann"]
AnnAndBob  == [t \in Tasks |-> IF t = 1 THEN "bob" ELSE "ann"]
LimitOne   == [m \in Models |-> 1]
LimitTwo   == [m \in Models |-> 2]
CostOne    == [m \in Models |-> 1]
Rich       == [u \in Users |-> Cardinality(Tasks)]
Poor       == [u \in Users |-> 1]
=============================================================================
