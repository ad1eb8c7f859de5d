-------------------------------- MODULE Escrow --------------------------------
(***************************************************************************)
(* What the generation queue promises about a user's credits: the price of *)
(* a request is held when it is accepted and then either kept, because the *)
(* result was delivered, or returned, and both are final.  A failure that  *)
(* hits between two database writes may tear a request whose price is held *)
(* or about to be; nothing is promised about it afterwards.                *)
(***************************************************************************)
CONSTANT Tasks

VARIABLE deal

Deals == {"new", "held", "kept", "returned", "torn"}

Init == deal = [t \in Tasks |-> "new"]

Becomes(t, from, to) ==
    /\ deal[t] \in from
    /\ deal' = [deal EXCEPT ![t] = to]

Hold(t)   == Becomes(t, {"new"}, "held")
Keep(t)   == Becomes(t, {"held"}, "kept")
Return(t) == Becomes(t, {"held"}, "returned")

\* One crash, or one failed write, may tear several requests at once.
TearSome ==
    \E S \in SUBSET {t \in Tasks : deal[t] \in {"new", "held", "returned"}} :
        deal' = [t \in Tasks |-> IF t \in S THEN "torn" ELSE deal[t]]

Next == TearSome \/ \E t \in Tasks : Hold(t) \/ Keep(t) \/ Return(t)

Spec == Init /\ [][Next]_deal
=============================================================================
