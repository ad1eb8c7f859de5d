\* Recovery beside the HTTP server.
SPECIFICATION Spec
CONSTANTS
    Tasks = {1}
    Users = {"ann"}
    Models = {"image"}
    UserOf <- AllAnn
    ModelOf <- OneModel
    Cost <- CostOne
    InitialCredits <- Rich
    Limit <- LimitOne
    MaxQueuedPerUser = 2
    Phases = 1
    AdminToggles = FALSE
    PayloadsExpire = FALSE
    BootStates = {"start"}
    MaxFaults = 0
    MaxCrashes = 0
INVARIANT
    SucceededKeepsCharge
