-------------------------- MODULE AccountProperties --------------------------
(***************************************************************************)
(* What holds of a user's account whatever requests overlap.               *)
(*                                                                         *)
(* broken records what has happened that the books do not survive: a row   *)
(* saved over a newer one ("stale"), a ledger entry that could not be      *)
(* written ("unlogged"), a balance set without a ledger entry              *)
(* ("unrecorded"), a user created again by an edit ("recreated"), a token  *)
(* version that an edit started again ("reversioned") and a balance that   *)
(* was set below zero ("overdrawn").                                       *)
(***************************************************************************)
EXTENDS Accounts

\* Any number of requests, but at no time infinitely many.
ASSUME RequestsAssumption == IsFiniteSet(Requests)

Verification == [status : KYCStatuses, rewarded : BOOLEAN]
Row == [credits : Int, workflows : Nat, status : Statuses, version : Nat,
        password : Nat]

Breaks == {"stale", "unlogged", "unrecorded", "recreated", "reversioned", "overdrawn"}

\* The variables have the types the tables give them; there are never fewer
\* than no workflows left.
TypeOK ==
    /\ row \in Row
    /\ pc \in [Requests -> PCs]
    /\ copy \in [Requests -> Row]
    /\ seen \in [Requests -> [Verifications -> Verification]]
    /\ target \in [Requests -> Orders \cup Verifications \cup {None}]
    /\ item \in [Requests -> Verification]
    /\ due \in [Requests -> Int]
    /\ order \in [Orders -> OrderStates]
    /\ kyc \in [Verifications -> Verification]
    /\ tokens \subseteq [version : Nat, password : Nat]
    /\ ledger \in [credits : Int, workflows : Int]
    /\ era \in Nat /\ decided \in Statuses
    /\ grants \in [Orders -> Nat]
    /\ rewards \in [Verifications -> Nat]
    /\ broken \subseteq Breaks

-----------------------------------------------------------------------------
(* Guarantees *)

\* The sum of the amounts d over a finite set.
Total(d, S) ==
    LET D[A \in SUBSET S] == IF A = {} THEN 0
                             ELSE LET r == CHOOSE r \in A : TRUE IN d[r] + D[A \ {r}]
    IN  D[S]

\* What requests still have to write to the ledger.
Unwritten == Total(due, Requests)

LedgerAgrees ==
    row.status # "gone" =>
        /\ row.credits = InitialCredits + ledger.credits + Unwritten
        /\ row.workflows = InitialWorkflows + ledger.workflows

\* Unless a whole row was saved over a newer one, a ledger entry was lost or an
\* administrator bypassed the ledger, the balances are the initial ones plus
\* everything credit_logs and entitlement_logs record, whatever calls,
\* refunds, purchases, rewards and adjustments overlap.
LedgerExact == broken \subseteq {"reversioned", "overdrawn"} => LedgerAgrees

\* Only an administrator who asks for it takes the credits below zero: no
\* overlap of calls, refunds, purchases and rows saved over newer ones does.
NeverOverdrawn == "overdrawn" \notin broken => row.credits >= 0

\* Unless a whole row was saved over a newer one, the user's status is the one
\* the administrator decided last: no other request lifts a ban or brings a
\* deleted user back.
StatusIsDecided == "stale" \notin broken => row.status = decided

\* On a database that aborts stale transactions an order pays out once, exactly
\* when it becomes paid, however often and however concurrently its webhook is
\* delivered.
PaidOnce ==
    FirstCommitterWins =>
        \A o \in Orders : grants[o] = IF order[o] = "paid" THEN 1 ELSE 0

\* On such a database a verification pays out at most once, however often its
\* status goes back and forth, and is marked when it did.
RewardedOnce ==
    FirstCommitterWins =>
        \A v \in Verifications :
            rewards[v] <= 1 /\ (rewards[v] = 1 => kyc[v].rewarded)

\* Every row was saved over the row it was read from, with its own version.
Continuous == broken \cap {"stale", "reversioned"} = {}

\* Unless a row was saved over a newer one, or by an edit of an administrator,
\* no token issued under an earlier password is accepted.
OldTokensRejected ==
    Continuous => \A t \in tokens : Accepts(t) => t.password = era
=============================================================================
