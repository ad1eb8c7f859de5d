\* Balances, status and payouts under every overlap of three requests.
SPECIFICATION Spec
CONSTANTS
    r1 = r1
    r2 = r2
    r3 = r3
    Requests <- ThreeRequests
    Orders = {"o1", "o2"}
    Verifications = {"v1", "v2"}
    InitialCredits = 1
    InitialWorkflows = 0
    Fee = 1
    PlanCredits = 1
    PlanWorkflows = 1
    RewardCredits = 1
    RewardWorkflows = 1
    Balances <- SomeBalances
    FirstCommitterWins = TRUE
SYMMETRY Interchangeable
CHECK_DEADLOCK FALSE
INVARIANTS
    LedgerExact
    PaidOnce
    RewardedOnce
    OldTokensRejected
