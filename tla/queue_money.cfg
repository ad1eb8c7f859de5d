\* Money and lifecycle under crashes and failed writes.
SPECIFICATION Spec
CONSTANTS
    Tasks = {1, 2}
    Users = {"ann"}
    Models = {"image"}
    UserOf <- AllAnn
    ModelOf <- OneModel
    Cost <- CostOne
    InitialCredits <- Poor
    Limit <- LimitOne
    MaxQueuedPerUser = 1
    Phases = 1
    AdminToggles = FALSE
    PayloadsExpire = TRUE
    BootStates = {"start", "done"}
    MaxFaults = 1
    MaxCrashes = 1
INVARIANTS
    MoneyExact
    ExecutedOnce
PROPERTIES
    OutcomeIsFinal
    ImplementsEscrow
