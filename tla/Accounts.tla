------------------------------ MODULE Accounts ------------------------------
(***************************************************************************)
(* One user's account: the users row, which service/auth.go, billing.go,   *)
(* kyc.go and workflow.go change, with the orders, identity verifications, *)
(* sessions and ledger entries that go with it.                            *)
(*                                                                         *)
(* Most handlers read the whole row and later write the whole row back     *)
(* (repository.SaveUser is gorm's Save, which also inserts a row that is   *)
(* gone); the AI debit, its refund and the workflow debit update single    *)
(* columns.  pc[h] is what request h has read and is about to write, and   *)
(* copy[h] the row it read.  Both webhooks run in a transaction; whether   *)
(* one fails when what it read has changed since depends on the database   *)
(* (SQLite's snapshots do, MySQL's and PostgreSQL's defaults do not), so   *)
(* it is the constant FirstCommitterWins.                                  *)
(***************************************************************************)
EXTENDS Integers, FiniteSets

CONSTANTS
    Requests,           \* concurrent HTTP requests about this user
    Orders, Verifications,
    InitialCredits, InitialWorkflows,
    Fee,                \* credits of one AI call
    PlanCredits, PlanWorkflows,      \* what an order grants
    RewardCredits, RewardWorkflows,  \* what an approved verification grants
    Balances,           \* what an administrator may set a balance to
    FirstCommitterWins  \* does the database abort a stale transaction?

ASSUME AccountsAssumption ==
    /\ InitialCredits \in Nat /\ InitialWorkflows \in Nat
    /\ Fee \in Nat \ {0}
    /\ PlanCredits \in Nat /\ PlanWorkflows \in Nat
    /\ RewardCredits \in Nat /\ RewardWorkflows \in Nat
    /\ Balances \subseteq Int
    /\ FirstCommitterWins \in BOOLEAN

VARIABLES
    row,      \* users: the balances, status, token_version and password
    pc,       \* what a request does next
    copy,     \* the row as a request read it
    seen,     \* the verifications as a webhook read them
    target,   \* the order or verification a request is about
    item,     \* the verification as a webhook is going to save it
    due,      \* the amount a request has yet to write to the ledger
    order,    \* plan_orders: "blank" is pending without a Stripe session
    kyc,      \* kyc_verifications
    tokens,   \* the JWTs issued, each with the password it was issued under
    ledger,   \* the sums of credit_logs and entitlement_logs
    era,      \* history: password changes that took place
    decided,  \* history: the status the administrator last decided
    grants, rewards,  \* history: how often each order and verification paid out
    broken    \* history: what made the books inexact so far

requestVars == <<pc, copy, seen, target, item, due>>
historyVars == <<era, decided, grants, rewards>>
vars == <<row, requestVars, order, kyc, tokens, ledger, historyVars, broken>>

Statuses    == {"active", "ban", "gone"}
OrderStates == {"none", "blank", "open", "paid"}
KYCStatuses == {"none", "pending", "approved", "rejected"}
\* Requests that have read the row and will save it.
Saving == {"login", "profile", "edit", "adjust", "adjustWorkflows", "reset",
           "purchase", "reward"}
PCs == Saving \cup {"idle", "done", "charged", "calling", "refunded", "adjusted",
                    "checkout", "order", "verification", "verdict"}

Rewarded(k, v) == k[v].status = "approved" /\ k[v].rewarded

-----------------------------------------------------------------------------
(* Shared pieces *)

Go(r, p) == pc' = [pc EXCEPT ![r] = p]
Read(r, p) == Go(r, p) /\ copy' = [copy EXCEPT ![r] = row]
Book(credits, workflows) ==
    ledger' = [credits   |-> ledger.credits + credits,
               workflows |-> ledger.workflows + workflows]
\* SaveUser: the whole row, over whatever it holds by now.
Save(r, new) ==
    /\ row' = new
    /\ broken' = broken \cup IF row # copy[r] THEN {"stale"} ELSE {}

\* CurrentAuthUser
Accepts(t) == row.status = "active" /\ t.version = row.version
Authenticated == \E t \in tokens : Accepts(t)

-----------------------------------------------------------------------------
(* Requests that read the row and save it *)

ReadLogin(r) ==
    /\ pc[r] = "idle" /\ row.status = "active"
    /\ Read(r, "login")
    /\ UNCHANGED <<row, seen, target, item, due, order, kyc, tokens, ledger,
                   historyVars, broken>>

\* Every way of signing in: the time of the login goes into the row that was
\* read, and the session carries the token version of that row.
SaveLogin(r) ==
    /\ pc[r] = "login"
    /\ Save(r, copy[r])
    /\ tokens' = tokens \cup {[version |-> copy[r].version, password |-> copy[r].password]}
    /\ Go(r, "done")
    /\ UNCHANGED <<copy, seen, target, item, due, order, kyc, ledger,
                   historyVars>>

ReadProfile(r) ==
    /\ pc[r] = "idle" /\ Authenticated
    /\ Read(r, "profile")
    /\ UNCHANGED <<row, seen, target, item, due, order, kyc, tokens, ledger,
                   historyVars, broken>>

SaveProfile(r) ==
    /\ pc[r] = "profile"
    /\ Save(r, copy[r])
    /\ Go(r, "done")
    /\ UNCHANGED <<copy, seen, target, item, due, order, kyc, tokens, ledger,
                   historyVars>>

ReadReset(r) ==
    /\ pc[r] = "idle" /\ row.status # "gone"
    /\ Read(r, "reset")
    /\ UNCHANGED <<row, seen, target, item, due, order, kyc, tokens, ledger,
                   historyVars, broken>>

\* Mutant: the version stays, so the old tokens do.
SaveResetKeepsVersion(r) ==
    /\ pc[r] = "reset"
    /\ era' = era + 1
    /\ Save(r, [copy[r] EXCEPT !.password = era'])
    /\ Go(r, "done")
    /\ UNCHANGED <<copy, seen, target, item, due, order, kyc, tokens, ledger,
                   decided, grants, rewards>>

SaveReset(r) ==
    /\ pc[r] = "reset"
    /\ era' = era + 1
    /\ Save(r, [copy[r] EXCEPT !.password = era', !.version = @ + 1])
    /\ Go(r, "done")
    /\ UNCHANGED <<copy, seen, target, item, due, order, kyc, tokens, ledger,
                   decided, grants, rewards>>

ReadEdit(r) ==
    /\ pc[r] = "idle"
    /\ Read(r, "edit")
    /\ UNCHANGED <<row, seen, target, item, due, order, kyc, tokens, ledger,
                   historyVars, broken>>

\* The form carries no token version: the row is saved with 0, or 1 with a new
\* password.  A user who is gone is created again, without balances (and
\* without a password when the form sets none, which is not told apart here).
SaveEdit(r) ==
    /\ pc[r] = "edit"
    /\ \E s \in {"active", "ban"}, reset \in BOOLEAN :
           /\ era' = IF reset THEN era + 1 ELSE era
           /\ row' = [copy[r] EXCEPT !.status = s,
                                     !.version = IF reset THEN 1 ELSE 0,
                                     !.password = IF reset THEN era' ELSE @]
           /\ decided' = s
    /\ broken' = broken \cup {"reversioned"}
                        \cup (IF row # copy[r] THEN {"stale"} ELSE {})
                        \cup (IF copy[r].status = "gone" THEN {"recreated"} ELSE {})
    /\ Go(r, "done")
    /\ UNCHANGED <<copy, seen, target, item, due, order, kyc, tokens, ledger,
                   grants, rewards>>

DeleteUser ==
    /\ row.status # "gone"
    /\ row' = [row EXCEPT !.status = "gone", !.credits = 0, !.workflows = 0]
    /\ decided' = "gone"
    /\ UNCHANGED <<requestVars, order, kyc, tokens, ledger, era, grants, rewards,
                   broken>>

ReadAdjust(r) ==
    /\ pc[r] = "idle" /\ row.status # "gone"
    /\ \E p \in {"adjust", "adjustWorkflows"} : Read(r, p)
    /\ UNCHANGED <<row, seen, target, item, due, order, kyc, tokens, ledger,
                   historyVars, broken>>

\* AdjustUserCredits: the balance is set, to less than nothing if that is what
\* the request says, then the difference is logged.
SaveAdjust(r) ==
    /\ pc[r] = "adjust"
    /\ \E n \in Balances :
           /\ row' = [copy[r] EXCEPT !.credits = n]
           /\ broken' = broken \cup (IF row # copy[r] THEN {"stale"} ELSE {})
                               \cup (IF n < 0 THEN {"overdrawn"} ELSE {})
           /\ due' = [due EXCEPT ![r] = n - copy[r].credits]
           /\ Go(r, IF n = copy[r].credits THEN "done" ELSE "adjusted")
    /\ UNCHANGED <<copy, seen, target, item, order, kyc, tokens, ledger,
                   historyVars>>

\* AdjustUserWorkflowCreateCredits takes less than nothing for nothing, and
\* writes no entitlement log.
SaveAdjustWorkflows(r) ==
    /\ pc[r] = "adjustWorkflows"
    /\ \E n \in Balances : row' = [copy[r] EXCEPT !.workflows = IF n < 0 THEN 0 ELSE n]
    /\ broken' = broken \cup {"unrecorded"}
                        \cup IF row # copy[r] THEN {"stale"} ELSE {}
    /\ Go(r, "done")
    /\ UNCHANGED <<copy, seen, target, item, due, order, kyc, tokens, ledger,
                   historyVars>>

-----------------------------------------------------------------------------
(* Requests that update single columns *)

\* Mutant: the balance is charged twice the logged amount.
ConsumeTwice(r) ==
    /\ pc[r] = "idle" /\ Authenticated /\ row.credits >= 2 * Fee
    /\ row' = [row EXCEPT !.credits = @ - 2 * Fee]
    /\ due' = [due EXCEPT ![r] = -Fee]
    /\ Go(r, "charged")
    /\ UNCHANGED <<copy, seen, target, item, order, kyc, tokens, ledger,
                   historyVars, broken>>

Consume(r) ==
    /\ pc[r] = "idle" /\ Authenticated /\ row.credits >= Fee
    /\ row' = [row EXCEPT !.credits = @ - Fee]
    /\ due' = [due EXCEPT ![r] = -Fee]
    /\ Go(r, "charged")
    /\ UNCHANGED <<copy, seen, target, item, order, kyc, tokens, ledger,
                   historyVars, broken>>

\* The call failed: the fee is returned, unless the user is gone.
Refund(r) ==
    /\ pc[r] = "calling"
    /\ IF row.status = "gone"
       THEN Go(r, "done") /\ UNCHANGED <<row, due>>
       ELSE /\ row' = [row EXCEPT !.credits = @ + Fee]
            /\ due' = [due EXCEPT ![r] = Fee]
            /\ Go(r, "refunded")
    /\ UNCHANGED <<copy, seen, target, item, order, kyc, tokens, ledger,
                   historyVars, broken>>

Answer(r) ==
    /\ pc[r] = "calling"
    /\ Go(r, "done")
    /\ UNCHANGED <<row, copy, seen, target, item, due, order, kyc, tokens,
                   ledger, historyVars, broken>>

\* SaveCreditLog; when it fails the request ends there.
WriteLog(r) ==
    /\ pc[r] \in {"charged", "refunded", "adjusted"}
    /\ \/ /\ Book(due[r], 0)
          /\ Go(r, IF pc[r] = "charged" THEN "calling" ELSE "done")
          /\ UNCHANGED broken
       \/ /\ broken' = broken \cup {"unlogged"}
          /\ Go(r, "done")
          /\ UNCHANGED ledger
    /\ due' = [due EXCEPT ![r] = 0]
    /\ UNCHANGED <<row, copy, seen, target, item, order, kyc, tokens, historyVars>>

\* consumeWorkflowCreditTx and the rest of its transaction
CreateWorkflow ==
    /\ Authenticated /\ row.workflows > 0
    /\ row' = [row EXCEPT !.workflows = @ - 1]
    /\ Book(0, -1)
    /\ UNCHANGED <<requestVars, order, kyc, tokens, historyVars, broken>>

-----------------------------------------------------------------------------
(* CreateStripeCheckout and HandleStripeWebhook *)

\* The session id is a unique column and still empty: a second order without a
\* session is refused.
CreateOrder(r, o) ==
    /\ pc[r] = "idle" /\ Authenticated
    /\ order[o] = "none" /\ \A p \in Orders : order[p] # "blank"
    /\ order' = [order EXCEPT ![o] = "blank"]
    /\ target' = [target EXCEPT ![r] = o]
    /\ Go(r, "checkout")
    /\ UNCHANGED <<row, copy, seen, item, due, kyc, tokens, ledger,
                   historyVars, broken>>

\* Stripe opens the session, or does not.
OpenSession(r) ==
    /\ pc[r] = "checkout"
    /\ \/ order' = [order EXCEPT ![target[r]] = "open"]
       \/ UNCHANGED order
    /\ Go(r, "done")
    /\ UNCHANGED <<row, copy, seen, target, item, due, kyc, tokens, ledger,
                   historyVars, broken>>

\* A delivery of checkout.session.completed, the first or a repeated one: it
\* ends there when the order is paid.  Nobody completes a session before its
\* page is known, which is after the order was saved with it.
ReadOrder(r, o) ==
    /\ pc[r] = "idle" /\ order[o] \in {"open", "paid"}
    /\ target' = [target EXCEPT ![r] = o]
    /\ Go(r, IF order[o] = "paid" THEN "done" ELSE "order")
    /\ UNCHANGED <<row, copy, seen, item, due, order, kyc, tokens, ledger,
                   historyVars, broken>>

ReadBuyer(r) ==
    /\ pc[r] = "order" /\ row.status # "gone"
    /\ Read(r, "purchase")
    /\ UNCHANGED <<row, seen, target, item, due, order, kyc, tokens, ledger,
                   historyVars, broken>>

\* Mutant: the order is not marked paid.
CommitPurchaseUnmarked(r) ==
    /\ pc[r] = "purchase"
    /\ FirstCommitterWins => row = copy[r] /\ order[target[r]] = "open"
    /\ Save(r, [copy[r] EXCEPT !.credits = @ + PlanCredits,
                               !.workflows = @ + PlanWorkflows])
    /\ grants' = [grants EXCEPT ![target[r]] = @ + 1]
    /\ Book(PlanCredits, PlanWorkflows)
    /\ Go(r, "done")
    /\ UNCHANGED <<copy, seen, target, item, due, order, kyc, tokens, era, decided,
                   rewards>>

CommitPurchase(r) ==
    /\ pc[r] = "purchase"
    /\ FirstCommitterWins => row = copy[r] /\ order[target[r]] = "open"
    /\ Save(r, [copy[r] EXCEPT !.credits = @ + PlanCredits,
                               !.workflows = @ + PlanWorkflows])
    /\ order' = [order EXCEPT ![target[r]] = "paid"]
    /\ grants' = [grants EXCEPT ![target[r]] = @ + 1]
    /\ Book(PlanCredits, PlanWorkflows)
    /\ Go(r, "done")
    /\ UNCHANGED <<copy, seen, target, item, due, kyc, tokens, era, decided,
                   rewards>>

-----------------------------------------------------------------------------
(* CreateKYCSession and HandleDiditWebhook *)

\* The administrator switches rewardOnce as he likes: whoever reads it finds it
\* on or off.
CreateKYCSession(v) ==
    /\ Authenticated
    /\ kyc[v].status = "none"
    /\ \E rewardOnce \in BOOLEAN : rewardOnce => \A w \in Verifications : ~Rewarded(kyc, w)
    /\ kyc' = [kyc EXCEPT ![v].status = "pending"]
    /\ UNCHANGED <<row, requestVars, order, tokens, ledger, historyVars, broken>>

\* Mutant: the rewarded flag is not read.
ReadVerificationUnflagged(r, v) ==
    /\ pc[r] = "idle" /\ kyc[v].status # "none"
    /\ \E s \in KYCStatuses \ {"none"} :
           /\ item' = [item EXCEPT ![r] = [status |-> s, rewarded |-> kyc[v].rewarded]]
           /\ Go(r, IF s = "approved" THEN "verification" ELSE "verdict")
    /\ target' = [target EXCEPT ![r] = v]
    /\ seen' = [seen EXCEPT ![r] = kyc]
    /\ UNCHANGED <<row, copy, due, order, kyc, tokens, ledger, historyVars,
                   broken>>

ReadVerification(r, v) ==
    /\ pc[r] = "idle" /\ kyc[v].status # "none"
    /\ \E s \in KYCStatuses \ {"none"} :
           /\ item' = [item EXCEPT ![r] = [status |-> s, rewarded |-> kyc[v].rewarded]]
           /\ Go(r, IF s = "approved" /\ ~kyc[v].rewarded THEN "verification"
                                                           ELSE "verdict")
    /\ target' = [target EXCEPT ![r] = v]
    /\ seen' = [seen EXCEPT ![r] = kyc]
    /\ UNCHANGED <<row, copy, due, order, kyc, tokens, ledger, historyVars,
                   broken>>

\* grantKYCRewardTx: under rewardOnce it looks for another verification that
\* was rewarded; when there is one this one is marked rewarded without a grant.
CountRewards(r) ==
    /\ pc[r] = "verification"
    /\ FirstCommitterWins => kyc = seen[r]
    /\ \E rewardOnce \in BOOLEAN :
          IF rewardOnce /\ \E w \in Verifications \ {target[r]} : Rewarded(kyc, w)
          THEN /\ item' = [item EXCEPT ![r].rewarded = TRUE]
               /\ Go(r, "verdict") /\ UNCHANGED copy
          ELSE row.status # "gone" /\ Read(r, "reward") /\ UNCHANGED item
    /\ UNCHANGED <<row, seen, target, due, order, kyc, tokens, ledger,
                   historyVars, broken>>

CommitReward(r) ==
    /\ pc[r] = "reward"
    /\ FirstCommitterWins => row = copy[r] /\ kyc = seen[r]
    /\ Save(r, [copy[r] EXCEPT !.credits = @ + RewardCredits,
                               !.workflows = @ + RewardWorkflows])
    /\ kyc' = [kyc EXCEPT ![target[r]] = [item[r] EXCEPT !.rewarded = TRUE]]
    /\ rewards' = [rewards EXCEPT ![target[r]] = @ + 1]
    /\ Book(RewardCredits, RewardWorkflows)
    /\ Go(r, "done")
    /\ UNCHANGED <<copy, seen, target, item, due, order, tokens, era, decided,
                   grants>>

CommitVerdict(r) ==
    /\ pc[r] = "verdict"
    /\ FirstCommitterWins => kyc = seen[r]
    /\ kyc' = [kyc EXCEPT ![target[r]] = item[r]]
    /\ Go(r, "done")
    /\ UNCHANGED <<row, copy, seen, target, item, due, order, tokens, ledger,
                   historyVars, broken>>

\* A webhook's transaction fails: nothing is written and it is delivered again.
Abort(r) ==
    /\ pc[r] \in {"order", "purchase", "verification", "reward", "verdict"}
    /\ Go(r, "done")
    /\ UNCHANGED <<row, copy, seen, target, item, due, order, kyc, tokens,
                   ledger, historyVars, broken>>

-----------------------------------------------------------------------------
None == "none"
Unverified == [status |-> "none", rewarded |-> FALSE]
AllUnverified == [v \in Verifications |-> Unverified]
NewRow == [credits |-> InitialCredits, workflows |-> InitialWorkflows,
           status |-> "active", version |-> 0, password |-> 0]

Init ==
    /\ row = NewRow
    /\ pc = [r \in Requests |-> "idle"]
    /\ copy = [r \in Requests |-> NewRow]
    /\ seen = [r \in Requests |-> AllUnverified]
    /\ target = [r \in Requests |-> None]
    /\ item = [r \in Requests |-> Unverified]
    /\ due = [r \in Requests |-> 0]
    /\ order = [o \in Orders |-> "none"]
    /\ kyc = AllUnverified
    /\ tokens = {[version |-> 0, password |-> 0]}
    /\ ledger = [credits |-> 0, workflows |-> 0]
    /\ era = 0 /\ decided = "active"
    /\ grants = [o \in Orders |-> 0]
    /\ rewards = [v \in Verifications |-> 0]
    /\ broken = {}

\* Requests that write the whole row
SaveUser(r) ==
    \/ ReadLogin(r) \/ SaveLogin(r) \/ ReadProfile(r) \/ SaveProfile(r)
    \/ ReadReset(r) \/ SaveReset(r) \/ ReadEdit(r) \/ SaveEdit(r)
    \/ ReadAdjust(r) \/ SaveAdjust(r) \/ SaveAdjustWorkflows(r)

UpdateColumns(r) == Consume(r) \/ Refund(r) \/ Answer(r) \/ WriteLog(r)

StripeCheckout(r) ==
    \/ \E o \in Orders : CreateOrder(r, o) \/ ReadOrder(r, o)
    \/ OpenSession(r) \/ ReadBuyer(r) \/ CommitPurchase(r)

DiditWebhook(r) ==
    \/ \E v \in Verifications : ReadVerification(r, v)
    \/ CountRewards(r) \/ CommitReward(r) \/ CommitVerdict(r)

Next ==
    \/ \E r \in Requests : \/ SaveUser(r) \/ UpdateColumns(r) \/ StripeCheckout(r)
                           \/ DiditWebhook(r) \/ Abort(r)
    \/ CreateWorkflow \/ DeleteUser
    \/ \E v \in Verifications : CreateKYCSession(v)

Spec == Init /\ [][Next]_vars
=============================================================================
