-------------------------- MODULE AccountInvariant --------------------------
(* What the account's guarantees rest on, as conjuncts of one inductive
   invariant. *)
EXTENDS AccountProperties

\* A checkout in progress owns the only order without a session; a purchase is
\* about an order that has one.
CheckoutInv ==
    /\ \A r \in Requests :
           pc[r] = "checkout" => target[r] \in Orders /\ order[target[r]] = "blank"
    /\ \A r, s \in Requests : pc[r] = "checkout" /\ pc[s] = "checkout" => r = s
    /\ \A r \in Requests :
           pc[r] \in {"order", "purchase"} =>
               target[r] \in Orders /\ order[target[r]] \in {"open", "paid"}

\* A reward is about a verification that was not rewarded when it was read, and
\* saving a verification never clears the flag that was read.
WebhookInv ==
    \A r \in Requests :
        /\ pc[r] \in {"verification", "reward"} =>
               target[r] \in Verifications /\ ~seen[r][target[r]].rewarded
        /\ pc[r] = "verdict" =>
               /\ target[r] \in Verifications
               /\ seen[r][target[r]].rewarded => item[r].rewarded

\* The password is the last one set, and a token of the row's version was
\* issued under it.
TokenInv ==
    Continuous =>
        /\ row.password = era
        /\ \A t \in tokens : /\ t.version <= row.version
                             /\ t.version = row.version => t.password = era

\* A request owes the ledger something only between its change of the balance and
\* its entry.
DueInv == \A r \in Requests : pc[r] \notin {"charged", "refunded", "adjusted"} => due[r] = 0

IInv == DueInv /\ LedgerExact /\ CheckoutInv /\ WebhookInv /\ TokenInv /\ StatusIsDecided /\ PaidOnce /\ RewardedOnce
=============================================================================
