---------------------------- MODULE AccountProofs ----------------------------
(***************************************************************************)
(* The account's guarantees for any number of requests, orders,            *)
(* verifications and any amounts: typing first, then the conjuncts of IInv *)
(* in an order in which each step proof needs only those before it.        *)
(***************************************************************************)
EXTENDS AccountInvariant, FiniteSetTheorems, WellFoundedInduction, TLAPS

-----------------------------------------------------------------------------
(* Typing *)

LEMMA InitTyped == Init => TypeOK
BY AccountsAssumption DEF Init, TypeOK, Row, Verification, NewRow, Unverified,
   AllUnverified, PCs, Saving, Statuses, OrderStates, KYCStatuses, Breaks

LEMMA Columns ==
    ASSUME NEW x \in Row
    PROVE  /\ x.credits \in Int /\ x.workflows \in Nat /\ x.version \in Nat
           /\ x.password \in Nat /\ x.status \in Statuses
BY DEF Row

\* A row whose columns are replaced by values of their types is a row.
LEMMA RowColumns ==
    ASSUME NEW x \in Row, NEW c \in Int, NEW n \in Nat, NEW s \in Statuses
    PROVE  /\ [x EXCEPT !.credits = c] \in Row
           /\ [x EXCEPT !.workflows = n] \in Row
           /\ [x EXCEPT !.status = s] \in Row
           /\ [x EXCEPT !.version = n] \in Row
           /\ [x EXCEPT !.password = n] \in Row
BY DEF Row

LEMMA RowColumns2 ==
    ASSUME NEW x \in Row, NEW c \in Int, NEW m \in Nat, NEW n \in Nat, NEW s \in Statuses
    PROVE  /\ [x EXCEPT !.credits = c, !.workflows = n] \in Row
           /\ [x EXCEPT !.password = m, !.version = n] \in Row
           /\ [x EXCEPT !.status = s, !.version = m, !.password = n] \in Row
           /\ [x EXCEPT !.status = s, !.credits = c, !.workflows = n] \in Row
BY DEF Row

LEMMA Rewards ==
    ASSUME NEW x \in Verification
    PROVE  [x EXCEPT !.rewarded = TRUE] \in Verification
BY DEF Verification

\* A request that moves to a stop it may be at.
LEMMA Moves ==
    ASSUME pc \in [Requests -> PCs], NEW r \in Requests, NEW p \in PCs, Go(r, p)
    PROVE  pc' \in [Requests -> PCs]
BY DEF Go

\* A request that reads the row.
LEMMA Reads ==
    ASSUME TypeOK, NEW r \in Requests, NEW p \in PCs, Read(r, p)
    PROVE  pc' \in [Requests -> PCs] /\ copy' \in [Requests -> Row]
BY Moves DEF Read, TypeOK

LEMMA StepTyped == TypeOK /\ [Next]_vars => TypeOK'
<1> SUFFICES ASSUME TypeOK, [Next]_vars PROVE TypeOK'
  OBVIOUS
<1> USE AccountsAssumption DEF TypeOK
<1>0. \A p \in Saving \cup {"idle", "done", "charged", "calling", "refunded",
            "adjusted", "checkout", "order", "verification", "verdict"} : p \in PCs
  BY DEF PCs
<1>1. ASSUME NEW r \in Requests, SaveUser(r) PROVE TypeOK'
  <2>0. copy[r] \in Row /\ {"active", "ban", "gone"} = Statuses
    BY DEF Statuses
  <2>1. CASE ReadLogin(r) \/ ReadProfile(r) \/ ReadReset(r) \/ ReadEdit(r) \/ ReadAdjust(r)
    <3>1. PICK p \in PCs : Read(r, p)
      BY <1>0, <2>1 DEF ReadLogin, ReadProfile, ReadReset, ReadEdit, ReadAdjust, Saving
    <3>2. UNCHANGED <<row, seen, target, item, due, order, kyc, tokens, ledger,
                      historyVars, broken>>
      BY <2>1 DEF ReadLogin, ReadProfile, ReadReset, ReadEdit, ReadAdjust
    <3> QED BY <3>1, <3>2, Reads DEF historyVars
  <2>2. CASE SaveLogin(r)
    <3>1. row' \in Row /\ broken' \subseteq Breaks
      BY <2>0, <2>2 DEF SaveLogin, Save, Breaks
    <3>2. tokens' \subseteq [version : Nat, password : Nat]
      BY <2>0, <2>2, Columns DEF SaveLogin
    <3>3. pc' \in [Requests -> PCs]
      BY <1>0, <2>2, Moves DEF SaveLogin
    <3> QED BY <2>2, <3>1, <3>2, <3>3 DEF SaveLogin, historyVars
  <2>3. CASE SaveProfile(r)
    <3>1. row' \in Row /\ broken' \subseteq Breaks
      BY <2>0, <2>3 DEF SaveProfile, Save, Breaks
    <3>2. pc' \in [Requests -> PCs]
      BY <1>0, <2>3, Moves DEF SaveProfile
    <3> QED BY <2>3, <3>1, <3>2 DEF SaveProfile, historyVars
  <2>4. CASE SaveReset(r)
    <3>1. era' \in Nat /\ copy[r].version + 1 \in Nat
      BY <2>0, <2>4, Columns DEF SaveReset
    <3>2. row' \in Row /\ broken' \subseteq Breaks
      BY <2>0, <2>4, <3>1, RowColumns2 DEF SaveReset, Save, Statuses, Breaks
    <3>3. pc' \in [Requests -> PCs]
      BY <1>0, <2>4, Moves DEF SaveReset
    <3> QED BY <2>4, <3>1, <3>2, <3>3 DEF SaveReset
  <2>5. CASE SaveEdit(r)
    <3>1. PICK s \in {"active", "ban"}, reset \in BOOLEAN :
              /\ era' = IF reset THEN era + 1 ELSE era
              /\ row' = [copy[r] EXCEPT !.status = s,
                                        !.version = IF reset THEN 1 ELSE 0,
                                        !.password = IF reset THEN era' ELSE @]
              /\ decided' = s
      BY <2>5 DEF SaveEdit
    <3>2. era' \in Nat /\ decided' \in Statuses
      BY <3>1 DEF Statuses
    <3>3. row' \in Row
      <4> DEFINE m == IF reset THEN 1 ELSE 0
                 n == IF reset THEN era' ELSE copy[r].password
      <4>1. m \in Nat /\ n \in Nat /\ s \in Statuses
        BY <2>0, <3>1, <3>2, Columns DEF Statuses
      <4>2. row' = [copy[r] EXCEPT !.status = s, !.version = m, !.password = n]
        BY <3>1
      <4> HIDE DEF m, n
      <4> QED BY <2>0, <4>1, <4>2, RowColumns2
    <3>4. broken' \subseteq Breaks
      BY <2>5 DEF SaveEdit, Breaks
    <3>5. pc' \in [Requests -> PCs]
      BY <1>0, <2>5, Moves DEF SaveEdit
    <3> QED BY <2>5, <3>2, <3>3, <3>4, <3>5 DEF SaveEdit
  <2>6. CASE SaveAdjust(r)
    <3>1. PICK n \in Balances :
              /\ row' = [copy[r] EXCEPT !.credits = n]
              /\ broken' = broken \cup (IF row # copy[r] THEN {"stale"} ELSE {})
                                  \cup (IF n < 0 THEN {"overdrawn"} ELSE {})
              /\ due' = [due EXCEPT ![r] = n - copy[r].credits]
              /\ Go(r, IF n = copy[r].credits THEN "done" ELSE "adjusted")
      BY <2>6 DEF SaveAdjust
    <3>2. n \in Int /\ copy[r].credits \in Int
      BY <2>0, Columns
    <3>3. row' \in Row /\ broken' \subseteq Breaks
      BY <2>0, <3>1, <3>2, RowColumns DEF Statuses, Breaks
    <3>4. due' \in [Requests -> Int]
      BY <3>1, <3>2
    <3>5. pc' \in [Requests -> PCs]
      BY <1>0, <3>1, Moves
    <3> QED BY <2>6, <3>3, <3>4, <3>5 DEF SaveAdjust, historyVars
  <2>7. CASE SaveAdjustWorkflows(r)
    <3>1. PICK n \in Nat : row' = [copy[r] EXCEPT !.workflows = n]
      <4>1. PICK b \in Balances : row' = [copy[r] EXCEPT !.workflows = IF b < 0 THEN 0 ELSE b]
        BY <2>7 DEF SaveAdjustWorkflows
      <4>2. b \in Int /\ (IF b < 0 THEN 0 ELSE b) \in Nat OBVIOUS
      <4> QED BY <4>1, <4>2
    <3>4. n \in Nat /\ "active" \in Statuses
      BY DEF Statuses
    <3>5. row' \in Row
      BY <2>0, <3>1, <3>4, RowColumns
    <3>2. broken' \subseteq Breaks
      BY <2>7 DEF SaveAdjustWorkflows, Breaks
    <3>3. pc' \in [Requests -> PCs]
      BY <1>0, <2>7, Moves DEF SaveAdjustWorkflows
    <3> QED BY <2>7, <3>5, <3>2, <3>3 DEF SaveAdjustWorkflows, historyVars
  <2>8. QED BY <1>1, <2>1, <2>2, <2>3, <2>4, <2>5, <2>6, <2>7 DEF SaveUser
<1>2. ASSUME NEW r \in Requests, UpdateColumns(r) PROVE TypeOK'
  <2>0. row.credits \in Int /\ "active" \in Statuses
    BY Columns DEF Statuses
  <2>1. CASE Consume(r)
    <3>1. row.credits - Fee \in Int
      BY <2>0, <2>1 DEF Consume
    <3>2. row' \in Row
      BY <2>0, <2>1, <3>1, RowColumns DEF Consume
    <3>3. due' \in [Requests -> Int]
      BY <2>1 DEF Consume
    <3>4. pc' \in [Requests -> PCs]
      BY <1>0, <2>1, Moves DEF Consume
    <3> QED BY <2>1, <3>2, <3>3, <3>4 DEF Consume, historyVars
  <2>2. CASE Refund(r)
    <3>1. row.credits + Fee \in Int
      BY <2>0
    <3>2. row' \in Row
      <4>1. CASE row.status = "gone"
        BY <2>2, <4>1 DEF Refund
      <4>2. CASE row.status # "gone"
        <5>1. row' = [row EXCEPT !.credits = row.credits + Fee]
          BY <2>2, <4>2 DEF Refund
        <5> QED BY <2>0, <3>1, <5>1, RowColumns
      <4> QED BY <4>1, <4>2
    <3>3. due' \in [Requests -> Int]
      BY <2>2 DEF Refund
    <3>4. pc' \in [Requests -> PCs]
      BY <1>0, <2>2, Moves DEF Refund
    <3> QED BY <2>2, <3>2, <3>3, <3>4 DEF Refund, historyVars
  <2>3. CASE Answer(r)
    <3>1. pc' \in [Requests -> PCs]
      BY <1>0, <2>3, Moves DEF Answer
    <3> QED BY <2>3, <3>1 DEF Answer, historyVars
  <2>4. CASE WriteLog(r)
    <3>1. ledger' \in [credits : Int, workflows : Int] /\ due' \in [Requests -> Int]
      BY <2>4 DEF WriteLog, Book
    <3>2. broken' \subseteq Breaks
      BY <2>4 DEF WriteLog, Breaks
    <3>3. pc' \in [Requests -> PCs]
      BY <1>0, <2>4, Moves DEF WriteLog
    <3> QED BY <2>4, <3>1, <3>2, <3>3 DEF WriteLog, historyVars
  <2>5. QED BY <1>2, <2>1, <2>2, <2>3, <2>4 DEF UpdateColumns
<1>3. ASSUME NEW r \in Requests, StripeCheckout(r) PROVE TypeOK'
  <2>1. ASSUME NEW o \in Orders, CreateOrder(r, o) \/ ReadOrder(r, o) PROVE TypeOK'
    <3>1. pc' \in [Requests -> PCs]
      BY <1>0, <2>1, Moves DEF CreateOrder, ReadOrder
    <3>2. order' \in [Orders -> OrderStates]
      BY <2>1 DEF CreateOrder, ReadOrder, OrderStates
    <3>3. target' \in [Requests -> Orders \cup Verifications \cup {None}]
      BY <2>1 DEF CreateOrder, ReadOrder
    <3> QED BY <2>1, <3>1, <3>2, <3>3 DEF CreateOrder, ReadOrder, historyVars
  <2>2. CASE OpenSession(r)
    <3>1. pc' \in [Requests -> PCs]
      BY <1>0, <2>2, Moves DEF OpenSession
    <3>2. order' \in [Orders -> OrderStates]
      BY <2>2 DEF OpenSession, OrderStates
    <3> QED BY <2>2, <3>1, <3>2 DEF OpenSession, historyVars
  <2>3. CASE ReadBuyer(r)
    BY <1>0, <2>3, Reads DEF ReadBuyer, historyVars, Saving
  <2>4. CASE CommitPurchase(r)
    <3>1. /\ copy[r] \in Row
          /\ copy[r].credits + PlanCredits \in Int
          /\ copy[r].workflows + PlanWorkflows \in Nat
      BY Columns
    <3>2. row' \in Row /\ broken' \subseteq Breaks
      BY <2>4, <3>1, RowColumns2 DEF CommitPurchase, Save, Statuses, Breaks
    <3>3. ledger' \in [credits : Int, workflows : Int]
      BY <2>4 DEF CommitPurchase, Book
    <3>4. order' \in [Orders -> OrderStates]
      BY <2>4 DEF CommitPurchase, OrderStates
    <3>6. grants' \in [Orders -> Nat]
      <4>1. grants' = [grants EXCEPT ![target[r]] = grants[target[r]] + 1]
        BY <2>4 DEF CommitPurchase
      <4>2. \A o \in Orders : grants[o] + 1 \in Nat
        OBVIOUS
      <4> QED BY <4>1, <4>2
    <3>5. pc' \in [Requests -> PCs]
      BY <1>0, <2>4, Moves DEF CommitPurchase
    <3> QED BY <2>4, <3>2, <3>3, <3>4, <3>5, <3>6 DEF CommitPurchase
  <2>5. QED BY <1>3, <2>1, <2>2, <2>3, <2>4 DEF StripeCheckout
<1>4. ASSUME NEW r \in Requests, DiditWebhook(r) PROVE TypeOK'
  <2>1. ASSUME NEW v \in Verifications, ReadVerification(r, v) PROVE TypeOK'
    <3>1. pc' \in [Requests -> PCs]
      BY <1>0, <2>1, Moves DEF ReadVerification
    <3>2. item' \in [Requests -> Verification]
      BY <2>1 DEF ReadVerification, Verification
    <3>3. target' \in [Requests -> Orders \cup Verifications \cup {None}]
      BY <2>1 DEF ReadVerification
    <3>4. seen' \in [Requests -> [Verifications -> Verification]]
      BY <2>1 DEF ReadVerification
    <3> QED BY <2>1, <3>1, <3>2, <3>3, <3>4 DEF ReadVerification, historyVars
  <2>2. CASE CountRewards(r)
    <3>1. pc' \in [Requests -> PCs] /\ copy' \in [Requests -> Row]
      BY <1>0, <2>2, Moves, Reads DEF CountRewards, Saving
    <3>2. item' \in [Requests -> Verification]
      <4>1. [item[r] EXCEPT !.rewarded = TRUE] \in Verification
        BY Rewards
      <4>2. \/ item' = [item EXCEPT ![r] = [item[r] EXCEPT !.rewarded = TRUE]]
            \/ item' = item
        BY <2>2 DEF CountRewards
      <4> QED BY <4>1, <4>2
    <3> QED BY <2>2, <3>1, <3>2 DEF CountRewards, historyVars
  <2>3. CASE CommitReward(r)
    <3>1. /\ copy[r] \in Row
          /\ copy[r].credits + RewardCredits \in Int
          /\ copy[r].workflows + RewardWorkflows \in Nat
      BY Columns
    <3>2. row' \in Row /\ broken' \subseteq Breaks
      BY <2>3, <3>1, RowColumns2 DEF CommitReward, Save, Statuses, Breaks
    <3>3. ledger' \in [credits : Int, workflows : Int]
      BY <2>3 DEF CommitReward, Book
    <3>4. kyc' \in [Verifications -> Verification]
      <4>1. [item[r] EXCEPT !.rewarded = TRUE] \in Verification
        BY Rewards
      <4> QED BY <2>3, <4>1 DEF CommitReward
    <3>6. rewards' \in [Verifications -> Nat]
      <4>1. rewards' = [rewards EXCEPT ![target[r]] = rewards[target[r]] + 1]
        BY <2>3 DEF CommitReward
      <4>2. \A v \in Verifications : rewards[v] + 1 \in Nat
        OBVIOUS
      <4> QED BY <4>1, <4>2
    <3>5. pc' \in [Requests -> PCs]
      BY <1>0, <2>3, Moves DEF CommitReward
    <3> QED BY <2>3, <3>2, <3>3, <3>4, <3>5, <3>6 DEF CommitReward
  <2>4. CASE CommitVerdict(r)
    <3>1. pc' \in [Requests -> PCs]
      BY <1>0, <2>4, Moves DEF CommitVerdict
    <3>2. kyc' \in [Verifications -> Verification]
      BY <2>4 DEF CommitVerdict
    <3> QED BY <2>4, <3>1, <3>2 DEF CommitVerdict, historyVars
  <2>5. QED BY <1>4, <2>1, <2>2, <2>3, <2>4 DEF DiditWebhook
<1>5. ASSUME NEW r \in Requests, Abort(r) PROVE TypeOK'
  <2>1. pc' \in [Requests -> PCs]
    BY <1>0, <1>5, Moves DEF Abort
  <2> QED BY <1>5, <2>1 DEF Abort, historyVars
<1>6. CASE CreateWorkflow
  <2>1. row.workflows - 1 \in Nat
    BY <1>6, Columns DEF CreateWorkflow
  <2>2. row' \in Row
    BY <1>6, <2>1, RowColumns DEF CreateWorkflow, Statuses
  <2>3. ledger' \in [credits : Int, workflows : Int]
    BY <1>6 DEF CreateWorkflow, Book
  <2> QED BY <1>6, <2>2, <2>3 DEF CreateWorkflow, requestVars, historyVars
<1>7. CASE DeleteUser
  <2>0. 0 \in Int /\ 0 \in Nat /\ "gone" \in Statuses
    BY DEF Statuses
  <2>1. row' \in Row /\ decided' \in Statuses
    BY <1>7, <2>0, RowColumns2 DEF DeleteUser
  <2> QED BY <1>7, <2>1 DEF DeleteUser, requestVars
<1>8. ASSUME NEW v \in Verifications, CreateKYCSession(v) PROVE TypeOK'
  <2>1. kyc' \in [Verifications -> Verification]
    BY <1>8 DEF CreateKYCSession, Verification, KYCStatuses
  <2> QED BY <1>8, <2>1 DEF CreateKYCSession, requestVars, historyVars
<1>9. CASE UNCHANGED vars
  BY <1>9 DEF vars, requestVars, historyVars
<1>10. QED BY <1>1, <1>2, <1>3, <1>4, <1>5, <1>6, <1>7, <1>8, <1>9 DEF Next

\* Every reachable state of the account is well typed, whatever requests
\* overlap: the workflows left are never fewer than none.
THEOREM AccountTyped == Spec => []TypeOK
BY InitTyped, StepTyped, PTL DEF Spec

-----------------------------------------------------------------------------
(* The credits *)

\* A row that was read is one that was saved.
InCredit(x) == x.credits >= 0
CreditInv ==
    "overdrawn" \notin broken => InCredit(row) /\ \A r \in Requests : InCredit(copy[r])

LEMMA StepCredit == TypeOK /\ CreditInv /\ [Next]_vars => CreditInv'
<1> SUFFICES ASSUME TypeOK, CreditInv, [Next]_vars, "overdrawn" \notin broken'
             PROVE  InCredit(row') /\ \A r \in Requests : InCredit(copy'[r])
  BY DEF CreditInv
<1>0. /\ row \in Row /\ \A r \in Requests : copy[r] \in Row
      /\ Fee \in Nat /\ PlanCredits \in Nat /\ RewardCredits \in Nat
  BY AccountsAssumption DEF TypeOK
<1>1. "overdrawn" \notin broken
  BY DEF Next, SaveUser, ReadLogin, SaveLogin, ReadProfile, SaveProfile, ReadReset, SaveReset,
     ReadEdit, SaveEdit, ReadAdjust, SaveAdjust, SaveAdjustWorkflows, Save, UpdateColumns,
     Consume, Refund, Answer, WriteLog, StripeCheckout, CreateOrder, ReadOrder, OpenSession,
     ReadBuyer, CommitPurchase, DiditWebhook, ReadVerification, CountRewards, CommitReward,
     CommitVerdict, Abort, CreateWorkflow, DeleteUser, CreateKYCSession, vars
<1>2. InCredit(row) /\ \A r \in Requests : InCredit(copy[r])
  BY <1>1 DEF CreditInv
\* A row is read, or stays as it is.
<1>3. ASSUME row' = row,
             copy' = copy \/ \E r \in Requests : copy' = [copy EXCEPT ![r] = row]
      PROVE  InCredit(row') /\ \A r \in Requests : InCredit(copy'[r])
  BY <1>2, <1>3 DEF TypeOK
\* A row is written.
<1>4. ASSUME copy' = copy, InCredit(row') PROVE InCredit(row') /\ \A r \in Requests : InCredit(copy'[r])
  BY <1>2, <1>4
<1>5. ASSUME NEW r \in Requests, SaveUser(r)
      PROVE  InCredit(row') /\ \A s \in Requests : InCredit(copy'[s])
  <2>1. CASE ReadLogin(r) \/ ReadProfile(r) \/ ReadReset(r) \/ ReadEdit(r) \/ ReadAdjust(r)
    BY <1>3, <2>1 DEF ReadLogin, ReadProfile, ReadReset, ReadEdit, ReadAdjust, Read
  <2>2. CASE SaveAdjust(r)
    <3>1. PICK n \in Balances :
              row' = [copy[r] EXCEPT !.credits = n] /\ (n < 0 => "overdrawn" \in broken')
      BY <2>2 DEF SaveAdjust
    <3>2. row'.credits = n /\ n \in Int BY <1>0, <3>1, AccountsAssumption DEF Row
    <3>3. n >= 0 BY <3>1, <3>2
    <3> QED BY <1>4, <2>2, <3>2, <3>3 DEF SaveAdjust, InCredit
  <2>3. CASE \/ SaveLogin(r) \/ SaveProfile(r) \/ SaveReset(r) \/ SaveEdit(r)
             \/ SaveAdjustWorkflows(r)
    <3>1. row'.credits = copy[r].credits /\ copy' = copy
      BY <1>0, <2>3
      DEF SaveLogin, SaveProfile, SaveReset, SaveEdit, SaveAdjustWorkflows, Save, Row
    <3> QED BY <1>2, <1>4, <3>1 DEF InCredit
  <2> QED BY <1>5, <2>1, <2>2, <2>3 DEF SaveUser
<1>6. ASSUME NEW r \in Requests, UpdateColumns(r)
      PROVE  InCredit(row') /\ \A s \in Requests : InCredit(copy'[s])
  <2>1. CASE Consume(r)
    <3>1. row'.credits = row.credits - Fee /\ row.credits >= Fee /\ copy' = copy
      BY <1>0, <2>1 DEF Consume, Row
    <3> QED BY <1>0, <1>4, <3>1, Columns DEF InCredit
  <2>2. CASE Refund(r)
    <3>1. row' = row \/ row'.credits = row.credits + Fee
      BY <1>0, <2>2 DEF Refund, Row
    <3>2. InCredit(row') BY <1>0, <1>2, <3>1, Columns DEF InCredit
    <3> QED BY <1>4, <2>2, <3>2 DEF Refund
  <2>3. CASE Answer(r) \/ WriteLog(r) BY <1>3, <2>3 DEF Answer, WriteLog
  <2> QED BY <1>6, <2>1, <2>2, <2>3 DEF UpdateColumns
<1>7. ASSUME NEW r \in Requests, CommitPurchase(r) \/ CommitReward(r)
      PROVE  InCredit(row') /\ \A s \in Requests : InCredit(copy'[s])
  <2>1. /\ copy' = copy
        /\ row'.credits \in {copy[r].credits + PlanCredits, copy[r].credits + RewardCredits}
    BY <1>0, <1>7 DEF CommitPurchase, CommitReward, Save, Row
  <2> QED BY <1>0, <1>2, <1>4, <2>1, Columns DEF InCredit
<1>8. ASSUME NEW r \in Requests,
             (StripeCheckout(r) /\ ~CommitPurchase(r)) \/ (DiditWebhook(r) /\ ~CommitReward(r))
                \/ Abort(r)
      PROVE  InCredit(row') /\ \A s \in Requests : InCredit(copy'[s])
  BY <1>3, <1>8 DEF StripeCheckout, CreateOrder, ReadOrder, OpenSession, ReadBuyer, Read,
     DiditWebhook, ReadVerification, CountRewards, CommitVerdict, Abort
<1>9. CASE CreateWorkflow \/ DeleteUser
  <2>1. copy' = copy /\ row'.credits \in {row.credits, 0}
    BY <1>0, <1>9 DEF CreateWorkflow, DeleteUser, requestVars, Row
  <2> QED BY <1>2, <1>4, <2>1 DEF InCredit
<1>10. CASE UNCHANGED vars \/ \E v \in Verifications : CreateKYCSession(v)
  BY <1>3, <1>10 DEF vars, requestVars, CreateKYCSession
<1> QED BY <1>5, <1>6, <1>7, <1>8, <1>9, <1>10 DEF Next

\* Unless an administrator asked for less than nothing, the credits are never
\* below zero: the debit of ConsumeUserCredits looks at the balance it takes
\* from, and no row that is saved over a newer one was itself overdrawn.
THEOREM CreditsHold == Spec => []NeverOverdrawn
<1>1. Init => CreditInv
  BY AccountsAssumption DEF Init, CreditInv, InCredit, NewRow
<1>2. CreditInv => NeverOverdrawn
  BY DEF CreditInv, NeverOverdrawn, InCredit
<1> QED BY <1>1, <1>2, InitTyped, StepTyped, StepCredit, PTL DEF Spec

-----------------------------------------------------------------------------
(* The status *)

\* What breaks the books is never forgotten, and a row saved over a newer one
\* breaks them.
LEMMA StepStatus == TypeOK /\ StatusIsDecided /\ [Next]_vars => StatusIsDecided'
<1> SUFFICES ASSUME TypeOK, StatusIsDecided, [Next]_vars, "stale" \notin broken'
             PROVE  row'.status = decided'
  BY DEF StatusIsDecided
<1> USE DEF TypeOK, StatusIsDecided
<1>0. row \in Row /\ \A r \in Requests : copy[r] \in Row
  OBVIOUS
<1>1. ASSUME NEW r \in Requests, SaveUser(r) PROVE row'.status = decided'
  <2>1. CASE \/ ReadLogin(r) \/ ReadProfile(r) \/ ReadReset(r) \/ ReadEdit(r)
             \/ ReadAdjust(r)
    BY <2>1 DEF ReadLogin, ReadProfile, ReadReset, ReadEdit, ReadAdjust, historyVars
  <2>2. CASE SaveLogin(r) \/ SaveProfile(r)
    BY <2>2 DEF SaveLogin, SaveProfile, Save, historyVars
  <2>3. CASE SaveReset(r)
    BY <1>0, <2>3 DEF SaveReset, Save, Row
  <2>4. CASE SaveEdit(r)
    BY <1>0, <2>4 DEF SaveEdit, Row
  <2>5. CASE SaveAdjust(r)
    BY <1>0, <2>5 DEF SaveAdjust, historyVars, Row
  <2>6. CASE SaveAdjustWorkflows(r)
    BY <1>0, <2>6 DEF SaveAdjustWorkflows, historyVars, Row
  <2> QED BY <1>1, <2>1, <2>2, <2>3, <2>4, <2>5, <2>6 DEF SaveUser
<1>2. ASSUME NEW r \in Requests, UpdateColumns(r) PROVE row'.status = decided'
  <2>1. CASE Consume(r)
    BY <1>0, <2>1 DEF Consume, historyVars, Row
  <2>2. CASE Refund(r)
    BY <1>0, <2>2 DEF Refund, historyVars, Row
  <2>3. CASE Answer(r)
    BY <2>3 DEF Answer, historyVars
  <2>4. CASE WriteLog(r)
    BY <2>4 DEF WriteLog, historyVars
  <2> QED BY <1>2, <2>1, <2>2, <2>3, <2>4 DEF UpdateColumns
<1>3. ASSUME NEW r \in Requests, StripeCheckout(r) PROVE row'.status = decided'
  <2>1. CASE CommitPurchase(r)
    BY <1>0, <2>1 DEF CommitPurchase, Save, Row
  <2>2. CASE ~CommitPurchase(r)
    BY <1>3, <2>2 DEF StripeCheckout, CreateOrder, ReadOrder, OpenSession, ReadBuyer,
                      historyVars
  <2> QED BY <2>1, <2>2
<1>4. ASSUME NEW r \in Requests, DiditWebhook(r) PROVE row'.status = decided'
  <2>1. CASE CommitReward(r)
    BY <1>0, <2>1 DEF CommitReward, Save, Row
  <2>2. CASE ~CommitReward(r)
    BY <1>4, <2>2 DEF DiditWebhook, ReadVerification, CountRewards, CommitVerdict,
                      historyVars
  <2> QED BY <2>1, <2>2
<1>5. ASSUME NEW r \in Requests, Abort(r) PROVE row'.status = decided'
  BY <1>5 DEF Abort, historyVars
<1>6. CASE CreateWorkflow
  BY <1>0, <1>6 DEF CreateWorkflow, historyVars, Row
<1>7. CASE DeleteUser
  BY <1>0, <1>7 DEF DeleteUser, Row
<1>8. ASSUME NEW v \in Verifications, CreateKYCSession(v) PROVE row'.status = decided'
  BY <1>8 DEF CreateKYCSession, historyVars
<1>9. CASE UNCHANGED vars
  BY <1>9 DEF vars, historyVars
<1>10. QED BY <1>1, <1>2, <1>3, <1>4, <1>5, <1>6, <1>7, <1>8, <1>9 DEF Next

\* Unless a whole row was saved over a newer one, no request other than an
\* administrator's changes the user's status.
THEOREM StatusHolds == Spec => []StatusIsDecided
<1>1. Init => StatusIsDecided
  BY DEF Init, StatusIsDecided, NewRow
<1>2. QED BY <1>1, InitTyped, StepTyped, StepStatus, PTL DEF Spec

-----------------------------------------------------------------------------
(* Payouts *)

LEMMA StepCheckout == TypeOK /\ CheckoutInv /\ [Next]_vars => CheckoutInv'
<1> SUFFICES ASSUME TypeOK, CheckoutInv, [Next]_vars PROVE CheckoutInv'
  OBVIOUS
<1> USE DEF TypeOK, CheckoutInv
<1>0. ASSUME NEW r \in Requests, NEW p \in PCs \ {"checkout", "order", "purchase"},
             Go(r, p), UNCHANGED order,
             \A s \in Requests \ {r} : target'[s] = target[s]
      PROVE  CheckoutInv'
  BY <1>0 DEF Go
<1>1. ASSUME NEW r \in Requests, SaveUser(r) PROVE CheckoutInv'
  <2>1. CASE ReadLogin(r) \/ ReadProfile(r) \/ ReadReset(r) \/ ReadEdit(r)
    BY <1>0, <2>1 DEF ReadLogin, ReadProfile, ReadReset, ReadEdit, Read, PCs, Saving
  <2>2. CASE ReadAdjust(r)
    BY <1>0, <2>2 DEF ReadAdjust, Read, PCs, Saving
  <2>3. CASE SaveLogin(r) \/ SaveProfile(r) \/ SaveReset(r) \/ SaveEdit(r)
    BY <1>0, <2>3 DEF SaveLogin, SaveProfile, SaveReset, SaveEdit, PCs
  <2>4. CASE SaveAdjust(r)
    BY <1>0, <2>4 DEF SaveAdjust, PCs
  <2>5. CASE SaveAdjustWorkflows(r)
    BY <1>0, <2>5 DEF SaveAdjustWorkflows, PCs
  <2> QED BY <1>1, <2>1, <2>2, <2>3, <2>4, <2>5 DEF SaveUser
<1>2. ASSUME NEW r \in Requests, UpdateColumns(r) PROVE CheckoutInv'
  <2>1. CASE Consume(r) \/ Answer(r)
    BY <1>0, <2>1 DEF Consume, Answer, PCs
  <2>2. CASE Refund(r)
    BY <1>0, <2>2 DEF Refund, PCs
  <2>3. CASE WriteLog(r)
    BY <1>0, <2>3 DEF WriteLog, PCs
  <2> QED BY <1>2, <2>1, <2>2, <2>3 DEF UpdateColumns
<1>3. ASSUME NEW r \in Requests, StripeCheckout(r) PROVE CheckoutInv'
  <2>1. ASSUME NEW o \in Orders, CreateOrder(r, o) PROVE CheckoutInv'
    <3>1. \A s \in Requests : pc[s] # "checkout"
      BY <2>1 DEF CreateOrder
    <3>2. /\ order' = [order EXCEPT ![o] = "blank"] /\ order[o] = "none"
          /\ target' = [target EXCEPT ![r] = o]
          /\ pc' = [pc EXCEPT ![r] = "checkout"]
      BY <2>1 DEF CreateOrder, Go
    <3> QED BY <3>1, <3>2
  <2>2. ASSUME NEW o \in Orders, ReadOrder(r, o) PROVE CheckoutInv'
    BY <2>2 DEF ReadOrder, Go
  <2>3. CASE OpenSession(r)
    BY <2>3 DEF OpenSession, Go
  <2>4. CASE ReadBuyer(r)
    BY <2>4 DEF ReadBuyer, Read, Go
  <2>5. CASE CommitPurchase(r)
    BY <2>5 DEF CommitPurchase, Go
  <2> QED BY <1>3, <2>1, <2>2, <2>3, <2>4, <2>5 DEF StripeCheckout
<1>4. ASSUME NEW r \in Requests, DiditWebhook(r) PROVE CheckoutInv'
  <2>1. ASSUME NEW v \in Verifications, ReadVerification(r, v) PROVE CheckoutInv'
    BY <1>0, <2>1 DEF ReadVerification, PCs
  <2>2. CASE CountRewards(r)
    BY <1>0, <2>2 DEF CountRewards, Read, PCs, Saving
  <2>3. CASE CommitReward(r) \/ CommitVerdict(r)
    BY <1>0, <2>3 DEF CommitReward, CommitVerdict, PCs
  <2> QED BY <1>4, <2>1, <2>2, <2>3 DEF DiditWebhook
<1>5. ASSUME NEW r \in Requests, Abort(r) PROVE CheckoutInv'
  BY <1>0, <1>5 DEF Abort, PCs
<1>6. CASE CreateWorkflow \/ DeleteUser
  BY <1>6 DEF CreateWorkflow, DeleteUser, requestVars
<1>7. ASSUME NEW v \in Verifications, CreateKYCSession(v) PROVE CheckoutInv'
  BY <1>7 DEF CreateKYCSession, requestVars
<1>8. CASE UNCHANGED vars
  BY <1>8 DEF vars, requestVars
<1>9. QED BY <1>1, <1>2, <1>3, <1>4, <1>5, <1>6, <1>7, <1>8 DEF Next

LEMMA StepWebhook == TypeOK /\ WebhookInv /\ [Next]_vars => WebhookInv'
<1> SUFFICES ASSUME TypeOK, WebhookInv, [Next]_vars PROVE WebhookInv'
  OBVIOUS
<1> USE DEF TypeOK, WebhookInv
\* Requests other than r keep their stop, what they read and what they save.
<1>0. ASSUME NEW r \in Requests, NEW p \in PCs \ {"purchase", "order", "verification",
             "reward", "verdict"},
             Go(r, p), UNCHANGED <<target, seen, item>>
      PROVE  WebhookInv'
  BY <1>0 DEF Go
<1>1. ASSUME NEW r \in Requests, SaveUser(r) PROVE WebhookInv'
  <2>1. CASE ReadLogin(r) \/ ReadProfile(r) \/ ReadReset(r) \/ ReadEdit(r)
    BY <1>0, <2>1 DEF ReadLogin, ReadProfile, ReadReset, ReadEdit, Read, PCs, Saving
  <2>2. CASE ReadAdjust(r)
    BY <1>0, <2>2 DEF ReadAdjust, Read, PCs, Saving
  <2>3. CASE SaveLogin(r) \/ SaveProfile(r) \/ SaveReset(r) \/ SaveEdit(r)
    BY <1>0, <2>3 DEF SaveLogin, SaveProfile, SaveReset, SaveEdit, PCs
  <2>4. CASE SaveAdjust(r)
    BY <1>0, <2>4 DEF SaveAdjust, PCs
  <2>5. CASE SaveAdjustWorkflows(r)
    BY <1>0, <2>5 DEF SaveAdjustWorkflows, PCs
  <2> QED BY <1>1, <2>1, <2>2, <2>3, <2>4, <2>5 DEF SaveUser
<1>2. ASSUME NEW r \in Requests, UpdateColumns(r) PROVE WebhookInv'
  <2>1. CASE Consume(r) \/ Answer(r)
    BY <1>0, <2>1 DEF Consume, Answer, PCs
  <2>2. CASE Refund(r)
    BY <1>0, <2>2 DEF Refund, PCs
  <2>3. CASE WriteLog(r)
    BY <1>0, <2>3 DEF WriteLog, PCs
  <2> QED BY <1>2, <2>1, <2>2, <2>3 DEF UpdateColumns
<1>3. ASSUME NEW r \in Requests, StripeCheckout(r) PROVE WebhookInv'
  <2>1. ASSUME NEW o \in Orders, CreateOrder(r, o) \/ ReadOrder(r, o) PROVE WebhookInv'
    BY <2>1 DEF CreateOrder, ReadOrder, Go
  <2>2. CASE OpenSession(r) \/ CommitPurchase(r)
    BY <1>0, <2>2 DEF OpenSession, CommitPurchase, PCs
  <2>3. CASE ReadBuyer(r)
    BY <2>3 DEF ReadBuyer, Read, Go
  <2> QED BY <1>3, <2>1, <2>2, <2>3 DEF StripeCheckout
<1>4. ASSUME NEW r \in Requests, DiditWebhook(r) PROVE WebhookInv'
  <2>1. ASSUME NEW v \in Verifications, ReadVerification(r, v) PROVE WebhookInv'
    <3>1. PICK s \in KYCStatuses \ {"none"} :
              /\ item' = [item EXCEPT ![r] = [status |-> s, rewarded |-> kyc[v].rewarded]]
              /\ Go(r, IF s = "approved" /\ ~kyc[v].rewarded THEN "verification"
                                                             ELSE "verdict")
      BY <2>1 DEF ReadVerification
    <3>2. target' = [target EXCEPT ![r] = v] /\ seen' = [seen EXCEPT ![r] = kyc]
      BY <2>1 DEF ReadVerification
    <3> QED BY <3>1, <3>2 DEF Go
  <2>2. CASE CountRewards(r)
    BY <2>2 DEF CountRewards, Read, Go, Verification
  <2>3. CASE CommitReward(r) \/ CommitVerdict(r)
    BY <1>0, <2>3 DEF CommitReward, CommitVerdict, PCs
  <2> QED BY <1>4, <2>1, <2>2, <2>3 DEF DiditWebhook
<1>5. ASSUME NEW r \in Requests, Abort(r) PROVE WebhookInv'
  BY <1>0, <1>5 DEF Abort, PCs
<1>6. CASE CreateWorkflow \/ DeleteUser
  BY <1>6 DEF CreateWorkflow, DeleteUser, requestVars
<1>7. ASSUME NEW v \in Verifications, CreateKYCSession(v) PROVE WebhookInv'
  BY <1>7 DEF CreateKYCSession, requestVars
<1>8. CASE UNCHANGED vars
  BY <1>8 DEF vars, requestVars
<1>9. QED BY <1>1, <1>2, <1>3, <1>4, <1>5, <1>6, <1>7, <1>8 DEF Next

\* Only a purchase counts a grant, and only it makes an order paid.
LEMMA StepPaid == TypeOK /\ CheckoutInv /\ PaidOnce /\ [Next]_vars => PaidOnce'
<1> SUFFICES ASSUME TypeOK, CheckoutInv, PaidOnce, [Next]_vars, FirstCommitterWins,
                    NEW o \in Orders
             PROVE  grants'[o] = IF order'[o] = "paid" THEN 1 ELSE 0
  BY DEF PaidOnce
<1> DEFINE Kept == grants'[o] = IF order'[o] = "paid" THEN 1 ELSE 0
<1> USE DEF TypeOK, CheckoutInv, PaidOnce
<1>1. ASSUME NEW r \in Requests, CommitPurchase(r) PROVE Kept
  <2>1. target[r] \in Orders /\ order[target[r]] = "open"
    BY <1>1 DEF CommitPurchase
  <2>2. /\ grants' = [grants EXCEPT ![target[r]] = grants[target[r]] + 1]
        /\ order' = [order EXCEPT ![target[r]] = "paid"]
    BY <1>1 DEF CommitPurchase
  <2> QED BY <2>1, <2>2
<1>2. ASSUME NEW r \in Requests, NEW p \in Orders, CreateOrder(r, p) PROVE Kept
  BY <1>2 DEF CreateOrder, historyVars
<1>3. ASSUME NEW r \in Requests, OpenSession(r) PROVE Kept
  BY <1>3 DEF OpenSession, historyVars
<1>4. ASSUME UNCHANGED <<order, grants>> PROVE Kept
  BY <1>4
<1>5. ASSUME NEW r \in Requests, SaveUser(r) PROVE UNCHANGED <<order, grants>>
  BY <1>5 DEF SaveUser, ReadLogin, SaveLogin, ReadProfile, SaveProfile, ReadReset,
     SaveReset, ReadEdit, SaveEdit, ReadAdjust, SaveAdjust, SaveAdjustWorkflows,
     historyVars
<1>6. ASSUME NEW r \in Requests, UpdateColumns(r) \/ DiditWebhook(r) \/ Abort(r)
      PROVE  UNCHANGED <<order, grants>>
  BY <1>6 DEF UpdateColumns, Consume, Refund, Answer, WriteLog, DiditWebhook,
     ReadVerification, CountRewards, CommitReward, CommitVerdict, Abort, historyVars
<1>7. ASSUME NEW r \in Requests, ReadBuyer(r) \/ \E p \in Orders : ReadOrder(r, p)
      PROVE  UNCHANGED <<order, grants>>
  BY <1>7 DEF ReadBuyer, ReadOrder, historyVars
<1>8. ASSUME CreateWorkflow \/ DeleteUser \/ (\E v \in Verifications : CreateKYCSession(v))
             \/ UNCHANGED vars
      PROVE  UNCHANGED <<order, grants>>
  BY <1>8 DEF CreateWorkflow, DeleteUser, CreateKYCSession, vars, historyVars
<1> HIDE DEF Kept
<1>9. Kept
  BY <1>1, <1>2, <1>3, <1>4, <1>5, <1>6, <1>7, <1>8 DEF Next, StripeCheckout
<1> QED BY <1>9 DEF Kept

\* On a database that aborts stale transactions every order pays out exactly
\* once, when it becomes paid.
THEOREM OrdersPayOnce == Spec => []PaidOnce
<1>1. Init => CheckoutInv /\ PaidOnce
  BY DEF Init, CheckoutInv, PaidOnce
<1>2. QED BY <1>1, InitTyped, StepTyped, StepCheckout, StepPaid, PTL DEF Spec

\* A reward is paid for a verification that is not marked, and marks it; no
\* verdict clears a mark.
LEMMA StepRewarded == TypeOK /\ WebhookInv /\ RewardedOnce /\ [Next]_vars => RewardedOnce'
<1> SUFFICES ASSUME TypeOK, WebhookInv, RewardedOnce, [Next]_vars, FirstCommitterWins,
                    NEW v \in Verifications
             PROVE  rewards'[v] <= 1 /\ (rewards'[v] = 1 => kyc'[v].rewarded)
  BY DEF RewardedOnce
<1> DEFINE Kept == rewards'[v] <= 1 /\ (rewards'[v] = 1 => kyc'[v].rewarded)
<1> USE DEF TypeOK, WebhookInv, RewardedOnce
<1>1. ASSUME NEW r \in Requests, CommitReward(r) PROVE Kept
  <2>1. target[r] \in Verifications /\ ~kyc[target[r]].rewarded
    BY <1>1 DEF CommitReward
  <2>2. /\ rewards' = [rewards EXCEPT ![target[r]] = rewards[target[r]] + 1]
        /\ kyc' = [kyc EXCEPT ![target[r]] = [item[r] EXCEPT !.rewarded = TRUE]]
    BY <1>1 DEF CommitReward
  <2>3. rewards[target[r]] # 1
    BY <2>1
  <2>4. rewards[target[r]] \in Nat /\ rewards[target[r]] <= 1
    BY <2>1
  <2>5. rewards[target[r]] = 0
    <3> HIDE DEF TypeOK, RewardedOnce, WebhookInv
    <3> QED BY <2>3, <2>4
  <2>6. [item[r] EXCEPT !.rewarded = TRUE].rewarded
    BY DEF Verification
  <2>7. CASE v = target[r]
    BY <2>1, <2>2, <2>7, <2>5, <2>6
  <2>8. CASE v # target[r]
    BY <2>1, <2>2, <2>8
  <2> QED BY <2>7, <2>8
<1>2. ASSUME NEW r \in Requests, CommitVerdict(r) PROVE Kept
  <2>1. kyc = seen[r] /\ target[r] \in Verifications
    BY <1>2 DEF CommitVerdict
  <2>2. kyc[target[r]].rewarded => item[r].rewarded
    BY <1>2, <2>1 DEF CommitVerdict
  <2>3. rewards' = rewards /\ kyc' = [kyc EXCEPT ![target[r]] = item[r]]
    BY <1>2 DEF CommitVerdict, historyVars
  <2> QED BY <2>1, <2>2, <2>3
<1>3. ASSUME NEW w \in Verifications, CreateKYCSession(w) PROVE Kept
  <2>1. rewards' = rewards /\ kyc' = [kyc EXCEPT ![w] = [kyc[w] EXCEPT !.status = "pending"]]
    BY <1>3 DEF CreateKYCSession, historyVars
  <2>2. [kyc[w] EXCEPT !.status = "pending"].rewarded = kyc[w].rewarded
    BY DEF Verification
  <2> QED BY <2>1, <2>2
<1>4. ASSUME UNCHANGED <<kyc, rewards>> PROVE Kept
  BY <1>4
<1>5. ASSUME NEW r \in Requests, SaveUser(r) PROVE UNCHANGED <<kyc, rewards>>
  BY <1>5 DEF SaveUser, ReadLogin, SaveLogin, ReadProfile, SaveProfile, ReadReset,
     SaveReset, ReadEdit, SaveEdit, ReadAdjust, SaveAdjust, SaveAdjustWorkflows,
     historyVars
<1>6. ASSUME NEW r \in Requests, UpdateColumns(r) \/ StripeCheckout(r) \/ Abort(r)
      PROVE  UNCHANGED <<kyc, rewards>>
  BY <1>6 DEF UpdateColumns, Consume, Refund, Answer, WriteLog, StripeCheckout,
     CreateOrder, ReadOrder, OpenSession, ReadBuyer, CommitPurchase, Abort, historyVars
<1>7. ASSUME NEW r \in Requests,
             CountRewards(r) \/ \E w \in Verifications : ReadVerification(r, w)
      PROVE  UNCHANGED <<kyc, rewards>>
  BY <1>7 DEF ReadVerification, CountRewards, historyVars
<1>8. ASSUME CreateWorkflow \/ DeleteUser \/ UNCHANGED vars
      PROVE  UNCHANGED <<kyc, rewards>>
  BY <1>8 DEF CreateWorkflow, DeleteUser, vars, historyVars
<1> HIDE DEF Kept
<1>9. Kept
  BY <1>1, <1>2, <1>3, <1>4, <1>5, <1>6, <1>7, <1>8 DEF Next, DiditWebhook
<1> QED BY <1>9 DEF Kept

\* On such a database no verification is rewarded twice, however its status
\* goes back and forth.
THEOREM VerificationsRewardOnce == Spec => []RewardedOnce
<1>1. Init => WebhookInv /\ RewardedOnce
  BY DEF Init, WebhookInv, RewardedOnce
<1>2. QED BY <1>1, InitTyped, StepTyped, StepWebhook, StepRewarded, PTL DEF Spec

-----------------------------------------------------------------------------
(* Sessions *)

\* A whole-row save that does not break the books starts from the current row.
LEMMA StepTokens == TypeOK /\ TokenInv /\ [Next]_vars => TokenInv'
<1> SUFFICES ASSUME TypeOK, TokenInv, [Next]_vars PROVE TokenInv'
  OBVIOUS
<1> DEFINE Kept == Continuous' =>
                /\ row'.password = era'
                /\ \A t \in tokens' : /\ t.version <= row'.version
                                      /\ t.version = row'.version => t.password = era'
<1>0. /\ row \in Row /\ era \in Nat
      /\ \A r \in Requests : copy[r] \in Row
      /\ \A t \in tokens : t.version \in Nat /\ t.password \in Nat
  BY DEF TypeOK
<1>1. ASSUME Continuous' => Continuous, UNCHANGED <<tokens, era>>,
             Continuous' => row'.password = row.password /\ row'.version = row.version
      PROVE  Kept
  BY <1>1 DEF TokenInv
<1> HIDE DEF Kept
<1>2. ASSUME NEW r \in Requests, SaveUser(r) PROVE Kept
  <2>1. CASE ReadLogin(r) \/ ReadProfile(r) \/ ReadReset(r) \/ ReadEdit(r)
    <3>1. UNCHANGED <<tokens, era, row, broken>>
      BY <2>1 DEF ReadLogin, ReadProfile, ReadReset, ReadEdit, historyVars
    <3> QED BY <1>1, <3>1 DEF Continuous
  <2>2. CASE ReadAdjust(r)
    <3>1. UNCHANGED <<tokens, era, row, broken>>
      BY <2>2 DEF ReadAdjust, historyVars
    <3> QED BY <1>1, <3>1 DEF Continuous
  <2>3. CASE SaveLogin(r)
    <3>1. Continuous' => Continuous /\ row = copy[r] /\ row' = row
      BY <2>3 DEF SaveLogin, Save, Continuous
    <3>2. /\ Continuous' => tokens' = tokens \cup {[version |-> row.version,
                                                    password |-> row.password]}
          /\ era' = era
      BY <2>3, <3>1 DEF SaveLogin, historyVars
    <3> QED BY <1>0, <3>1, <3>2, Columns DEF TokenInv, Kept
  <2>4. CASE SaveReset(r)
    <3>1. Continuous' => Continuous /\ row = copy[r]
      BY <2>4 DEF SaveReset, Save, Continuous
    <3>2. era' = era + 1 /\ tokens' = tokens
      BY <2>4 DEF SaveReset
    <3>3. Continuous' => row' = [row EXCEPT !.password = era', !.version = row.version + 1]
      BY <2>4, <3>1 DEF SaveReset, Save
    <3>4. Continuous' => row'.password = era' /\ row'.version = row.version + 1
      BY <1>0, <3>3 DEF Row
    <3>5. row.version \in Nat /\ (Continuous' => \A t \in tokens : t.version <= row.version)
      BY <1>0, <3>1, Columns DEF TokenInv
    <3> QED BY <1>0, <3>1, <3>2, <3>4, <3>5 DEF Kept
  <2>5. CASE SaveProfile(r)
    BY <1>1, <2>5 DEF SaveProfile, Save, historyVars, Continuous
  <2>6. CASE SaveAdjust(r)
    <3>1. Continuous' => Continuous /\ row = copy[r]
      BY <2>6 DEF SaveAdjust, Continuous
    <3>2. UNCHANGED <<tokens, era>>
      BY <2>6 DEF SaveAdjust, historyVars
    <3>3. Continuous' => row'.password = row.password /\ row'.version = row.version
      BY <1>0, <2>6, <3>1 DEF SaveAdjust, Row
    <3> QED BY <1>1, <3>1, <3>2, <3>3
  <2>7. CASE SaveAdjustWorkflows(r)
    <3>1. Continuous' => Continuous /\ row = copy[r]
      BY <2>7 DEF SaveAdjustWorkflows, Continuous
    <3>2. UNCHANGED <<tokens, era>>
      BY <2>7 DEF SaveAdjustWorkflows, historyVars
    <3>3. Continuous' => row'.password = row.password /\ row'.version = row.version
      BY <1>0, <2>7, <3>1 DEF SaveAdjustWorkflows, Row
    <3> QED BY <1>1, <3>1, <3>2, <3>3
  <2>8. CASE SaveEdit(r)
    BY <2>8 DEF SaveEdit, Continuous, Kept
  <2> QED BY <1>2, <2>1, <2>2, <2>3, <2>4, <2>5, <2>6, <2>7, <2>8 DEF SaveUser
<1>3. ASSUME NEW r \in Requests, UpdateColumns(r)
      PROVE  Kept
  <2>1. /\ UNCHANGED <<tokens, era>> /\ (Continuous' => Continuous)
        /\ row'.password = row.password /\ row'.version = row.version
    <3>1. CASE Consume(r)
      BY <1>0, <3>1 DEF Consume, historyVars, Row, Continuous
    <3>2. CASE Refund(r)
      BY <1>0, <3>2 DEF Refund, historyVars, Row, Continuous
    <3>3. CASE Answer(r) \/ WriteLog(r)
      BY <3>3 DEF Answer, WriteLog, historyVars, Continuous
    <3> QED BY <1>3, <3>1, <3>2, <3>3 DEF UpdateColumns
  <2> QED BY <1>1, <2>1
<1>4. ASSUME NEW r \in Requests, StripeCheckout(r)
      PROVE  Kept
  <2>1. CASE CommitPurchase(r)
    <3>1. Continuous' => Continuous /\ row = copy[r]
      BY <2>1 DEF CommitPurchase, Save, Continuous
    <3>2. Continuous' => row'.password = row.password /\ row'.version = row.version
      BY <1>0, <2>1, <3>1 DEF CommitPurchase, Save, Row
    <3> QED BY <1>1, <2>1, <3>1, <3>2 DEF CommitPurchase
  <2>2. CASE ~CommitPurchase(r)
    <3>1. UNCHANGED <<tokens, era, row, broken>>
      BY <1>4, <2>2 DEF StripeCheckout, CreateOrder, ReadOrder, OpenSession, ReadBuyer,
                        historyVars
    <3> QED BY <1>1, <3>1 DEF Continuous
  <2> QED BY <2>1, <2>2
<1>5. ASSUME NEW r \in Requests, DiditWebhook(r)
      PROVE  Kept
  <2>1. CASE CommitReward(r)
    <3>1. Continuous' => Continuous /\ row = copy[r]
      BY <2>1 DEF CommitReward, Save, Continuous
    <3>2. Continuous' => row'.password = row.password /\ row'.version = row.version
      BY <1>0, <2>1, <3>1 DEF CommitReward, Save, Row
    <3> QED BY <1>1, <2>1, <3>1, <3>2 DEF CommitReward
  <2>2. CASE ~CommitReward(r)
    <3>1. UNCHANGED <<tokens, era, row, broken>>
      BY <1>5, <2>2 DEF DiditWebhook, ReadVerification, CountRewards, CommitVerdict,
                        historyVars
    <3> QED BY <1>1, <3>1 DEF Continuous
  <2> QED BY <2>1, <2>2
<1>6. ASSUME NEW r \in Requests, Abort(r) PROVE Kept
  BY <1>1, <1>6 DEF Abort, historyVars, Continuous
<1>7. ASSUME CreateWorkflow \/ (\E v \in Verifications : CreateKYCSession(v)) \/ UNCHANGED vars
      PROVE  Kept
  <2>1. row'.password = row.password /\ row'.version = row.version
    BY <1>0, <1>7 DEF CreateWorkflow, CreateKYCSession, vars, Row
  <2>2. UNCHANGED <<tokens, era, broken>>
    BY <1>7 DEF CreateWorkflow, CreateKYCSession, vars, historyVars
  <2> QED BY <1>1, <2>1, <2>2 DEF Continuous
<1>8. ASSUME DeleteUser PROVE Kept
  <2>1. row'.password = row.password /\ row'.version = row.version
    BY <1>0, <1>8 DEF DeleteUser, Row
  <2>2. UNCHANGED <<tokens, era, broken>>
    BY <1>8 DEF DeleteUser
  <2> QED BY <1>1, <2>1, <2>2 DEF Continuous
<1>9. Kept
  BY <1>2, <1>3, <1>4, <1>5, <1>6, <1>7, <1>8 DEF Next
<1> QED BY <1>9 DEF TokenInv, Kept

\* Unless a row was saved over a newer one, or by an edit of an administrator,
\* a change of the password ends every session opened before it.
THEOREM PasswordChangeRevokes == Spec => []OldTokensRejected
<1>1. Init => TokenInv
  BY DEF Init, TokenInv, NewRow
<1>2. TokenInv => OldTokensRejected
  BY DEF TokenInv, OldTokensRejected, Accepts
<1>3. QED BY <1>1, <1>2, InitTyped, StepTyped, StepTokens, PTL DEF Spec

-----------------------------------------------------------------------------
(* Sums over finite sets: their recursive definition is inhabited, and moving one
   amount moves the sum.  Induction is by well-foundedness: a set of subsets, or of
   numbers, that is not all of them leaves out a least one. *)

Any(A) == CHOOSE r \in A : TRUE
Adds(d, f, A) == IF A = {} THEN 0 ELSE d[Any(A)] + f[A \ {Any(A)}]
AddsUp(d, f, F) == f = [A \in F |-> Adds(d, f, A)]

\* A set of finite subsets is all of them when it has a set whenever it has its proper subsets.
LEMMA SubsetInduction ==
    ASSUME NEW S, IsFiniteSet(S), NEW G,
           \A A \in SUBSET S : (\A B \in SUBSET A : B # A => B \in G) => A \in G
    PROVE  SUBSET S \subseteq G
<1> DEFINE T == {A \in SUBSET S : A \notin G}
<1>1. SUFFICES ASSUME T # {} PROVE FALSE OBVIOUS
<1>2. IsWellFoundedOn(StrictSubsetOrdering(S), SUBSET S)
  BY FS_StrictSubsetOrderingWellFounded, FS_FiniteSubsetsOfFinite
<1>3. T \subseteq SUBSET S OBVIOUS
<1> HIDE DEF T
<1>4. PICK A \in T : \A B \in T : ~(<<B, A>> \in StrictSubsetOrdering(S))
  BY <1>1, <1>2, <1>3, WFMin
<1>5. \A B \in SUBSET A : B # A => B \in G
  BY <1>3, <1>4 DEF StrictSubsetOrdering, T
<1> QED BY <1>4, <1>5 DEF T

LEMMA Counting ==
    ASSUME NEW G, 0 \in G, \A n \in Nat : n \in G => n + 1 \in G
    PROVE  Nat \subseteq G
<1> DEFINE T == {n \in Nat : n \notin G}
<1>1. SUFFICES ASSUME T # {} PROVE FALSE OBVIOUS
<1>3. T \subseteq Nat OBVIOUS
<1> HIDE DEF T
<1>4. PICK n \in T : \A m \in T : ~(<<m, n>> \in OpToRel(<, Nat))
  BY <1>1, <1>3, NatLessThanWellFounded, WFMin
<1>5. \A m \in T : ~(m < n)
  BY <1>3, <1>4 DEF OpToRel
<1>6. n \in Nat /\ n \notin G BY <1>3, <1>4 DEF T
<1>7. n # 0 BY <1>6
<1>8. n - 1 \in Nat BY <1>6, <1>7
<1>9. n - 1 \in G BY <1>5, <1>8 DEF T
<1>10. n - 1 + 1 \in G BY <1>8, <1>9
<1> QED BY <1>6, <1>10

LEMMA TotalIs ==
    ASSUME NEW d, NEW S, NEW f, AddsUp(d, f, SUBSET S)
    PROVE  \E g : AddsUp(d, g, SUBSET S) /\ Total(d, S) = g[S]
<1>1. \E g : g = [A \in SUBSET S |-> IF A = {} THEN 0 ELSE LET r == CHOOSE r \in A : TRUE IN d[r] + g[A \ {r}]]
  BY DEF AddsUp, Adds, Any
<1> QED BY <1>1, Zenon DEF Total, AddsUp, Adds, Any

LEMMA AnyIn == ASSUME NEW A, A # {} PROVE Any(A) \in A
BY Zenon DEF Any

LEMMA SumsExist ==
    ASSUME NEW S, IsFiniteSet(S), NEW d \in [S -> Int]
    PROVE  \E f : AddsUp(d, f, SUBSET S)
<1> DEFINE Small(n) == {A \in SUBSET S : Cardinality(A) <= n}
           G == {n \in Nat : \E f : AddsUp(d, f, Small(n))}
<1>0. \A A \in SUBSET S : IsFiniteSet(A) /\ Cardinality(A) \in Nat /\ Cardinality(A) <= Cardinality(S)
         /\ (Cardinality(A) = 0 <=> A = {})
  BY FS_Subset, FS_CardinalityType, FS_EmptySet
<1>1. 0 \in G
  <2>1. Small(0) = {{}} BY <1>0
  <2> DEFINE f == [A \in Small(0) |-> 0]
  <2>2. AddsUp(d, f, Small(0)) BY <2>1 DEF AddsUp, Adds
  <2> HIDE DEF f
  <2> QED BY <2>2
<1>2. ASSUME NEW n \in Nat, n \in G PROVE n + 1 \in G
  <2>1. PICK f : AddsUp(d, f, Small(n)) BY <1>2
  <2> DEFINE g == [A \in Small(n + 1) |-> Adds(d, f, A)]
  <2>2. ASSUME NEW A \in Small(n + 1) PROVE Adds(d, g, A) = Adds(d, f, A)
    <3>1. CASE A = {} BY <3>1 DEF Adds
    <3>2. CASE A # {}
      <4> DEFINE B == A \ {Any(A)}
      <4>1. Any(A) \in A BY <3>2, AnyIn
      <4>2. A \in SUBSET S /\ Cardinality(A) <= n + 1 OBVIOUS
      <4>3. B \in SUBSET S /\ Cardinality(B) = Cardinality(A) - 1
        BY <1>0, <4>1, <4>2, FS_RemoveElement
      <4>4. B \in Small(n) /\ B \in Small(n + 1) BY <1>0, <4>2, <4>3
      <4> HIDE DEF B
      <4>5. g[B] = Adds(d, f, B) BY <4>4
      <4>6. f[B] = Adds(d, f, B)
        <5> HIDE DEF Small
        <5> QED BY <2>1, <4>4 DEF AddsUp
      <4>7. g[B] = f[B] BY <4>5, <4>6
      <4> HIDE DEF g
      <4> QED BY <3>2, <4>7 DEF Adds, B
    <3> QED BY <3>1, <3>2
  <2>3. AddsUp(d, g, Small(n + 1))
    <3>1. [A \in Small(n + 1) |-> Adds(d, f, A)] = [A \in Small(n + 1) |-> Adds(d, g, A)]
      <4> HIDE DEF g, Small
      <4> QED BY <2>2
    <3> QED BY <3>1 DEF AddsUp
  <2> HIDE DEF g, Small
  <2> QED BY <2>3
<1>3. Cardinality(S) \in G
  <2>1. Cardinality(S) \in Nat BY <1>0
  <2> HIDE DEF G
  <2> QED BY <1>1, <1>2, <2>1, Counting
<1>4. Small(Cardinality(S)) = SUBSET S BY <1>0
<1> HIDE DEF Small
<1> QED BY <1>3, <1>4

LEMMA TotalAddsUp ==
    ASSUME NEW S, IsFiniteSet(S), NEW d \in [S -> Int]
    PROVE  \E f : AddsUp(d, f, SUBSET S) /\ Total(d, S) = f[S]
BY SumsExist, TotalIs

\* Functions that add up the same amounts, but for one.
LEMMA SumsDiffer ==
    ASSUME NEW S, IsFiniteSet(S), NEW d \in [S -> Int], NEW e \in [S -> Int], NEW r \in S,
           \A q \in S \ {r} : e[q] = d[q],
           NEW f, NEW g, AddsUp(d, f, SUBSET S), AddsUp(e, g, SUBSET S)
    PROVE  f[S] \in Int /\ g[S] = f[S] + (e[r] - d[r])
<1> DEFINE G == {A \in SUBSET S : f[A] \in Int /\ g[A] = f[A] + (IF r \in A THEN e[r] - d[r] ELSE 0)}
<1>1. ASSUME NEW A \in SUBSET S, \A B \in SUBSET A : B # A => B \in G PROVE A \in G
  <2>1. f[A] = Adds(d, f, A) /\ g[A] = Adds(e, g, A) BY DEF AddsUp
  <2>2. CASE A = {} BY <2>1, <2>2 DEF Adds
  <2>3. CASE A # {}
    <3> DEFINE c == Any(A)
               B == A \ {c}
    <3>1. c \in A BY <2>3, AnyIn
    <3>2. B \in G BY <1>1, <3>1
    <3>3. f[B] \in Int /\ g[B] = f[B] + (IF r \in B THEN e[r] - d[r] ELSE 0) BY <3>2
    <3>4. f[A] = d[c] + f[B] /\ g[A] = e[c] + g[B] BY <2>1, <2>3 DEF Adds
    <3>5. r \in A <=> (r \in B \/ r = c) BY <3>1
    <3>6. r \notin B \/ r # c OBVIOUS
    <3> HIDE DEF B, c
    <3>7. d[c] \in Int /\ e[c] \in Int /\ d[r] \in Int /\ e[r] \in Int BY <3>1
    <3>8. CASE r = c BY <3>3, <3>4, <3>5, <3>6, <3>7, <3>8
    <3>9. CASE r # c
      <4>1. e[c] = d[c] BY <3>1, <3>9
      <4>2. CASE r \in B BY <3>3, <3>4, <3>5, <3>7, <4>1, <4>2
      <4>3. CASE r \notin B BY <3>3, <3>4, <3>5, <3>7, <3>9, <4>1, <4>3
      <4> QED BY <4>2, <4>3
    <3> QED BY <3>8, <3>9
  <2> QED BY <2>2, <2>3
<1>2. S \in G
  <2> HIDE DEF G
  <2> QED BY <1>1, SubsetInduction
<1> QED BY <1>2

LEMMA TotalMoves ==
    ASSUME NEW S, IsFiniteSet(S), NEW d \in [S -> Int], NEW r \in S, NEW n \in Int
    PROVE  Total(d, S) \in Int /\ Total([d EXCEPT ![r] = n], S) = Total(d, S) + (n - d[r])
<1> DEFINE e == [d EXCEPT ![r] = n]
<1>1. e \in [S -> Int] /\ e[r] = n /\ \A q \in S \ {r} : e[q] = d[q] OBVIOUS
<1> HIDE DEF e
<1>2. PICK f : AddsUp(d, f, SUBSET S) /\ Total(d, S) = f[S] BY TotalAddsUp
<1>3. PICK g : AddsUp(e, g, SUBSET S) /\ Total(e, S) = g[S] BY <1>1, TotalAddsUp
<1>4. f[S] \in Int /\ g[S] = f[S] + (e[r] - d[r]) BY <1>1, <1>2, <1>3, SumsDiffer
<1> QED BY <1>1, <1>2, <1>3, <1>4 DEF e

-----------------------------------------------------------------------------
(* The books *)

LEMMA StepDue == TypeOK /\ DueInv /\ [Next]_vars => DueInv'
<1> SUFFICES ASSUME TypeOK, DueInv, [Next]_vars PROVE DueInv'
  OBVIOUS
<1> USE DEF TypeOK, DueInv
<1>1. ASSUME NEW r \in Requests, SaveUser(r) PROVE DueInv'
  <2>1. CASE \/ ReadLogin(r) \/ ReadProfile(r) \/ ReadReset(r) \/ ReadEdit(r)
             \/ ReadAdjust(r)
    BY <2>1 DEF ReadLogin, ReadProfile, ReadReset, ReadEdit, ReadAdjust, Read, Go
  <2>2. CASE SaveLogin(r) \/ SaveProfile(r) \/ SaveReset(r)
    BY <2>2 DEF SaveLogin, SaveProfile, SaveReset, Go
  <2>3. CASE SaveEdit(r) \/ SaveAdjustWorkflows(r)
    BY <2>3 DEF SaveEdit, SaveAdjustWorkflows, Go
  <2>4. CASE SaveAdjust(r)
    <3>1. PICK n \in Balances :
              /\ due' = [due EXCEPT ![r] = n - copy[r].credits]
              /\ Go(r, IF n = copy[r].credits THEN "done" ELSE "adjusted")
      BY <2>4 DEF SaveAdjust
    <3>2. n \in Int /\ copy[r].credits \in Int BY AccountsAssumption, Columns
    <3> QED BY <3>1, <3>2 DEF Go
  <2> QED BY <1>1, <2>1, <2>2, <2>3, <2>4 DEF SaveUser
<1>2. ASSUME NEW r \in Requests, UpdateColumns(r) PROVE DueInv'
  BY <1>2 DEF UpdateColumns, Consume, Refund, Answer, WriteLog, Go
<1>3. ASSUME NEW r \in Requests, StripeCheckout(r) PROVE DueInv'
  BY <1>3 DEF StripeCheckout, CreateOrder, ReadOrder, OpenSession, ReadBuyer, CommitPurchase, Read, Go
<1>4. ASSUME NEW r \in Requests, DiditWebhook(r) PROVE DueInv'
  BY <1>4 DEF DiditWebhook, ReadVerification, CountRewards, CommitReward, CommitVerdict, Read, Go
<1>5. ASSUME NEW r \in Requests, Abort(r) PROVE DueInv'
  BY <1>5 DEF Abort, Go
<1>6. CASE CreateWorkflow \/ DeleteUser \/ (\E v \in Verifications : CreateKYCSession(v))
           \/ UNCHANGED vars
  BY <1>6 DEF CreateWorkflow, DeleteUser, CreateKYCSession, vars, requestVars
<1> QED BY <1>1, <1>2, <1>3, <1>4, <1>5, <1>6 DEF Next

\* What is unwritten moves with what one request owes.
LEMMA UnwrittenMoves ==
    ASSUME TypeOK, NEW r \in Requests, NEW n \in Int, due' = [due EXCEPT ![r] = n]
    PROVE  Unwritten \in Int /\ Unwritten' = Unwritten + (n - due[r])
<1>1. due \in [Requests -> Int] BY DEF TypeOK
<1>2. /\ Total(due, Requests) \in Int
      /\ Total([due EXCEPT ![r] = n], Requests) = Total(due, Requests) + (n - due[r])
  BY <1>1, RequestsAssumption, TotalMoves
<1> QED BY <1>2 DEF Unwritten

LEMMA UnwrittenTyped == TypeOK => Unwritten \in Int
<1>1. ASSUME TypeOK PROVE Total(due, Requests) \in Int
  <2>1. due \in [Requests -> Int] BY <1>1 DEF TypeOK
  <2>2. PICK f : AddsUp(due, f, SUBSET Requests) /\ Total(due, Requests) = f[Requests]
    BY <2>1, RequestsAssumption, TotalAddsUp
  <2>3. CASE Requests = {} BY <2>2, <2>3 DEF AddsUp, Adds
  <2>4. CASE Requests # {}
    <3>1. PICK r \in Requests : TRUE BY <2>4
    <3> QED BY <2>1, <3>1, RequestsAssumption, TotalMoves
  <2> QED BY <2>3, <2>4
<1> QED BY <1>1 DEF Unwritten

\* The balances follow the ledger as long as both move by the same amounts.
LEMMA Balanced ==
    ASSUME TypeOK, LedgerAgrees, row.status # "gone", Unwritten' \in Int,
           NEW c \in Int, NEW w \in Int, NEW l \in Int,
           row'.credits = row.credits + c, row'.workflows = row.workflows + w,
           ledger'.credits = ledger.credits + l, ledger'.workflows = ledger.workflows + w,
           Unwritten' = Unwritten + (c - l)
    PROVE  LedgerAgrees'
<1>1. row \in Row /\ ledger \in [credits : Int, workflows : Int] BY DEF TypeOK
<1>2. row.credits \in Int /\ row.workflows \in Int /\ ledger.credits \in Int /\ ledger.workflows \in Int
  BY <1>1 DEF Row
<1>3. Unwritten \in Int BY UnwrittenTyped
<1>4. InitialCredits \in Int /\ InitialWorkflows \in Int BY AccountsAssumption
<1> QED BY <1>2, <1>3, <1>4 DEF LedgerAgrees

\* Nothing the books are about changes.
LEMMA Untouched ==
    ASSUME LedgerExact, broken \subseteq broken', UNCHANGED <<due, ledger>>,
           row'.status = row.status, row'.credits = row.credits, row'.workflows = row.workflows
    PROVE  LedgerExact'
<1>1. Unwritten' = Unwritten BY DEF Unwritten
<1> QED BY <1>1 DEF LedgerExact, LedgerAgrees

LEMMA StepLedger == TypeOK /\ DueInv /\ LedgerExact /\ [Next]_vars => LedgerExact'
<1> SUFFICES ASSUME TypeOK, DueInv, LedgerExact, [Next]_vars,
                    broken' \subseteq {"reversioned", "overdrawn"}
             PROVE  LedgerAgrees'
  BY DEF LedgerExact
<1>0. /\ row \in Row /\ \A r \in Requests : copy[r] \in Row /\ due[r] \in Int
      /\ row.credits \in Int /\ row.workflows \in Nat /\ row.status \in Statuses
      /\ Fee \in Nat /\ PlanCredits \in Nat /\ PlanWorkflows \in Nat
      /\ RewardCredits \in Nat /\ RewardWorkflows \in Nat /\ Balances \subseteq Int
      /\ Unwritten \in Int
      /\ ledger \in [credits : Int, workflows : Int]
  BY AccountsAssumption, UnwrittenTyped, Columns DEF TypeOK
<1>01. ASSUME broken \subseteq broken' PROVE LedgerAgrees
  BY <1>01 DEF LedgerExact
<1>02. ASSUME broken \subseteq broken', UNCHANGED <<due, ledger>>,
              row'.status = row.status, row'.credits = row.credits, row'.workflows = row.workflows
       PROVE  LedgerAgrees'
  BY <1>02, Untouched DEF LedgerExact
<1>03. ASSUME row'.status = "gone" PROVE LedgerAgrees'
  BY <1>03 DEF LedgerAgrees
\* A row that is saved is the one that was read.
<1>04. ASSUME NEW r \in Requests, NEW new, Save(r, new)
       PROVE  row = copy[r] /\ broken \subseteq broken'
  BY <1>04 DEF Save
<1>05. UNCHANGED due => UNCHANGED Unwritten
  BY DEF Unwritten
<1>1. ASSUME NEW r \in Requests, SaveUser(r) PROVE LedgerAgrees'
  <2>1. CASE \/ ReadLogin(r) \/ ReadProfile(r) \/ ReadReset(r) \/ ReadEdit(r)
             \/ ReadAdjust(r)
    <3>1. UNCHANGED <<row, due, ledger, broken>>
      BY <2>1 DEF ReadLogin, ReadProfile, ReadReset, ReadEdit, ReadAdjust
    <3> QED BY <1>02, <3>1
  <2>2. CASE SaveLogin(r) \/ SaveProfile(r)
    <3>1. Save(r, copy[r]) /\ UNCHANGED <<due, ledger>> BY <2>2 DEF SaveLogin, SaveProfile
    <3>2. row' = copy[r] BY <3>1 DEF Save
    <3> QED BY <1>02, <1>04, <3>1, <3>2
  <2>3. CASE SaveReset(r)
    <3> DEFINE new == [copy[r] EXCEPT !.password = era', !.version = @ + 1]
    <3>1. Save(r, new) /\ UNCHANGED <<due, ledger>> BY <2>3 DEF SaveReset
    <3>2. new.status = copy[r].status /\ new.credits = copy[r].credits /\ new.workflows = copy[r].workflows
      BY <1>0 DEF Row
    <3>3. row' = new BY <3>1 DEF Save
    <3> HIDE DEF new
    <3> QED BY <1>02, <1>04, <3>1, <3>2, <3>3
  <2>4. CASE SaveEdit(r)
    <3>1. /\ row = copy[r] /\ copy[r].status # "gone" /\ broken \subseteq broken'
          /\ UNCHANGED <<due, ledger>>
      BY <2>4 DEF SaveEdit
    <3>2. PICK s, reset : row' = [copy[r] EXCEPT !.status = s, !.version = IF reset THEN 1 ELSE 0,
                                                 !.password = IF reset THEN era' ELSE @]
      BY <2>4 DEF SaveEdit
    <3>3. row'.credits = row.credits /\ row'.workflows = row.workflows
      BY <1>0, <3>1, <3>2 DEF Row
    <3> QED BY <1>01, <1>05, <3>1, <3>3 DEF LedgerAgrees
  <2>5. CASE SaveAdjust(r)
    <3>1. PICK n \in Balances :
              /\ row' = [copy[r] EXCEPT !.credits = n]
              /\ due' = [due EXCEPT ![r] = n - copy[r].credits]
      BY <2>5 DEF SaveAdjust
    <3>2. row = copy[r] /\ broken \subseteq broken' BY <2>5 DEF SaveAdjust
    <3>3. row' = [row EXCEPT !.credits = n] BY <3>1, <3>2
    <3>4. /\ row'.credits = row.credits + (n - row.credits) /\ row'.workflows = row.workflows + 0
          /\ row'.status = row.status /\ n - row.credits \in Int
      BY <1>0, <3>3 DEF Row
    <3>5. due[r] = 0 BY <2>5 DEF SaveAdjust, DueInv
    <3>6. Unwritten' = Unwritten + ((n - row.credits) - 0) BY <3>1, <3>2, <3>4, <3>5, UnwrittenMoves
    <3>7. ledger' = ledger BY <2>5 DEF SaveAdjust
    <3>8. ledger'.credits = ledger.credits + 0 /\ ledger'.workflows = ledger.workflows + 0
      BY <1>0, <3>7
    <3>9. CASE row.status # "gone"
      <4>1. LedgerAgrees BY <1>01, <3>2
      <4> QED BY <1>0, <3>4, <3>6, <3>8, <3>9, <4>1, Balanced
    <3>10. CASE row.status = "gone" BY <1>03, <3>4, <3>10
    <3> QED BY <3>9, <3>10
  <2>6. CASE SaveAdjustWorkflows(r)
    BY <2>6 DEF SaveAdjustWorkflows
  <2> QED BY <1>1, <2>1, <2>2, <2>3, <2>4, <2>5, <2>6 DEF SaveUser
<1>2. ASSUME NEW r \in Requests, UpdateColumns(r) PROVE LedgerAgrees'
  <2>1. CASE Consume(r)
    <3>1. /\ row' = [row EXCEPT !.credits = @ - Fee] /\ due' = [due EXCEPT ![r] = -Fee]
          /\ UNCHANGED <<ledger, broken>> /\ due[r] = 0 /\ row.status = "active"
      BY <2>1 DEF Consume, DueInv, Authenticated, Accepts
    <3>2. row'.credits = row.credits + (-Fee) /\ row'.workflows = row.workflows + 0 /\ -Fee \in Int
      BY <1>0, <3>1 DEF Row
    <3>3. Unwritten' = Unwritten + ((-Fee) - 0) BY <3>1, <3>2, UnwrittenMoves
    <3>4. ledger'.credits = ledger.credits + 0 /\ ledger'.workflows = ledger.workflows + 0
      BY <1>0, <3>1
    <3>5. LedgerAgrees BY <1>01, <3>1
    <3> QED BY <1>0, <3>1, <3>2, <3>3, <3>4, <3>5, Balanced
  <2>2. CASE Refund(r) /\ row.status # "gone"
    <3>1. /\ row' = [row EXCEPT !.credits = @ + Fee] /\ due' = [due EXCEPT ![r] = Fee]
          /\ UNCHANGED <<ledger, broken>> /\ due[r] = 0
      BY <2>2 DEF Refund, DueInv
    <3>2. row'.credits = row.credits + Fee /\ row'.workflows = row.workflows + 0 /\ Fee \in Int
      BY <1>0, <3>1 DEF Row
    <3>3. Unwritten' = Unwritten + (Fee - 0) BY <3>1, <3>2, UnwrittenMoves
    <3>4. ledger'.credits = ledger.credits + 0 /\ ledger'.workflows = ledger.workflows + 0
      BY <1>0, <3>1
    <3>5. LedgerAgrees BY <1>01, <3>1
    <3> QED BY <1>0, <2>2, <3>1, <3>2, <3>3, <3>4, <3>5, Balanced
  <2>3. CASE Answer(r) \/ (Refund(r) /\ row.status = "gone")
    <3>1. UNCHANGED <<row, due, ledger, broken>> BY <2>3 DEF Answer, Refund
    <3> QED BY <1>02, <3>1
  <2>4. CASE WriteLog(r)
    <3>1. Book(due[r], 0) /\ due' = [due EXCEPT ![r] = 0] /\ UNCHANGED <<row, broken>>
      BY <2>4 DEF WriteLog
    <3>2. row'.credits = row.credits + 0 /\ row'.workflows = row.workflows + 0
      BY <1>0, <3>1
    <3>3. ledger'.credits = ledger.credits + due[r] /\ ledger'.workflows = ledger.workflows + 0
      BY <3>1 DEF Book
    <3>4. due[r] \in Int /\ Unwritten' = Unwritten + (0 - due[r])
      <4>1. due' = [due EXCEPT ![r] = 0] /\ 0 \in Int BY <3>1
      <4>2. Unwritten' = Unwritten + (0 - due[r]) BY <4>1, UnwrittenMoves
      <4> QED BY <1>0, <4>2
    <3>5. LedgerAgrees BY <1>01, <3>1
    <3>6. CASE row.status = "gone" BY <1>03, <3>1, <3>6
    <3>7. CASE row.status # "gone" BY <1>0, <3>2, <3>3, <3>4, <3>5, <3>7, Balanced
    <3> QED BY <3>6, <3>7
  <2> QED BY <1>2, <2>1, <2>2, <2>3, <2>4 DEF UpdateColumns
\* A grant is booked as it is paid.
<1>3. ASSUME NEW r \in Requests, NEW c \in Nat, NEW w \in Nat, Book(c, w), UNCHANGED due,
             Save(r, [copy[r] EXCEPT !.credits = @ + c, !.workflows = @ + w])
      PROVE  LedgerAgrees'
  <2>1. row = copy[r] /\ broken \subseteq broken' BY <1>3, <1>04
  <2>2. row' = [row EXCEPT !.credits = @ + c, !.workflows = @ + w] BY <1>3, <2>1 DEF Save
  <2>3. /\ row'.credits = row.credits + c /\ row'.workflows = row.workflows + w
        /\ row'.status = row.status
    BY <1>0, <2>2 DEF Row
  <2>4. ledger'.credits = ledger.credits + c /\ ledger'.workflows = ledger.workflows + w
    BY <1>3 DEF Book
  <2>5. LedgerAgrees BY <1>01, <2>1
  <2>6. Unwritten' = Unwritten + (c - c) BY <1>0, <1>05, <1>3
  <2>7. CASE row.status = "gone" BY <1>03, <2>3, <2>7
  <2>8. CASE row.status # "gone" BY <1>0, <2>3, <2>4, <2>5, <2>6, <2>8, Balanced
  <2> QED BY <2>7, <2>8
<1>4. ASSUME NEW r \in Requests, StripeCheckout(r) PROVE LedgerAgrees'
  <2>1. CASE CommitPurchase(r) BY <1>0, <1>3, <2>1 DEF CommitPurchase
  <2>2. CASE ~CommitPurchase(r)
    <3>1. UNCHANGED <<row, due, ledger, broken>>
      BY <1>4, <2>2 DEF StripeCheckout, CreateOrder, ReadOrder, OpenSession, ReadBuyer
    <3> QED BY <1>02, <3>1
  <2> QED BY <2>1, <2>2
<1>5. ASSUME NEW r \in Requests, DiditWebhook(r) PROVE LedgerAgrees'
  <2>1. CASE CommitReward(r) BY <1>0, <1>3, <2>1 DEF CommitReward
  <2>2. CASE ~CommitReward(r)
    <3>1. UNCHANGED <<row, due, ledger, broken>>
      BY <1>5, <2>2 DEF DiditWebhook, ReadVerification, CountRewards, CommitVerdict
    <3> QED BY <1>02, <3>1
  <2> QED BY <2>1, <2>2
<1>6. ASSUME NEW r \in Requests, Abort(r) PROVE LedgerAgrees'
  BY <1>02, <1>6 DEF Abort
<1>7. CASE CreateWorkflow
  <2>1. /\ row' = [row EXCEPT !.workflows = @ - 1] /\ Book(0, -1)
        /\ UNCHANGED <<due, broken>> /\ row.status = "active"
    BY <1>7 DEF CreateWorkflow, requestVars, Authenticated, Accepts
  <2>2. row'.credits = row.credits + 0 /\ row'.workflows = row.workflows + (-1)
    BY <1>0, <2>1 DEF Row
  <2>3. ledger'.credits = ledger.credits + 0 /\ ledger'.workflows = ledger.workflows + (-1)
    BY <2>1 DEF Book
  <2>4. Unwritten' = Unwritten + (0 - 0) BY <1>0, <1>05, <2>1
  <2>5. LedgerAgrees BY <1>01, <2>1
  <2> QED BY <1>0, <2>1, <2>2, <2>3, <2>4, <2>5, Balanced
<1>8. CASE DeleteUser
  BY <1>0, <1>03, <1>8 DEF DeleteUser, Row
<1>9. ASSUME NEW v \in Verifications, CreateKYCSession(v) PROVE LedgerAgrees'
  BY <1>02, <1>9 DEF CreateKYCSession, requestVars
<1>10. CASE UNCHANGED vars
  BY <1>02, <1>10 DEF vars, requestVars
<1> QED BY <1>1, <1>2, <1>4, <1>5, <1>6, <1>7, <1>8, <1>9, <1>10 DEF Next

\* Nothing is owed at first.
LEMMA NothingOwed ==
    ASSUME NEW S, IsFiniteSet(S)
    PROVE  Total([r \in S |-> 0], S) = 0
<1> DEFINE d == [r \in S |-> 0]
<1>1. d \in [S -> Int] /\ \A r \in S : d[r] = 0 OBVIOUS
<1> HIDE DEF d
<1>2. PICK f : AddsUp(d, f, SUBSET S) /\ Total(d, S) = f[S] BY <1>1, TotalAddsUp
<1> DEFINE G == {A \in SUBSET S : f[A] = 0}
<1>3. ASSUME NEW A \in SUBSET S, \A B \in SUBSET A : B # A => B \in G PROVE A \in G
  <2>1. f[A] = Adds(d, f, A) BY <1>2 DEF AddsUp
  <2>2. CASE A = {} BY <2>1, <2>2 DEF Adds
  <2>3. CASE A # {}
    <3>1. Any(A) \in A BY <2>3, AnyIn
    <3>2. A \ {Any(A)} \in G /\ d[Any(A)] = 0 BY <1>1, <1>3, <3>1
    <3> QED BY <2>1, <2>3, <3>2 DEF Adds
  <2> QED BY <2>2, <2>3
<1>4. S \in G
  <2> HIDE DEF G
  <2> QED BY <1>3, SubsetInduction
<1> QED BY <1>2, <1>4 DEF d

\* Unless a whole row was saved over a newer one, an entry was lost or an administrator
\* bypassed the ledger, every balance is what credit_logs and entitlement_logs say, for
\* any number of calls, refunds, purchases, rewards and adjustments that overlap
\* (billing.go, auth.go, kyc.go, workflow.go).
THEOREM BooksBalance == Spec => []LedgerExact
<1>1. Init => DueInv /\ LedgerExact
  <2>1. ASSUME Init PROVE DueInv /\ LedgerAgrees
    <3>1. Unwritten = 0 BY <2>1, NothingOwed, RequestsAssumption DEF Unwritten, Init
    <3>2. DueInv BY <2>1 DEF Init, DueInv
    <3>3. row.credits = InitialCredits /\ row.workflows = InitialWorkflows
          /\ ledger.credits = 0 /\ ledger.workflows = 0
      BY <2>1 DEF Init, NewRow
    <3> QED BY <3>1, <3>2, <3>3, AccountsAssumption DEF LedgerAgrees
  <2> QED BY <2>1 DEF LedgerExact
<1> QED BY <1>1, InitTyped, StepTyped, StepDue, StepLedger, PTL DEF Spec
=============================================================================
