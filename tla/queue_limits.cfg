\* Rate window, limit of waiting tasks and dispatch order, while the queue is switched off and on.
SPECIFICATION Spec
CONSTANTS
    Tasks = {1, 2, 3}
    Users = {"ann", "bob"}
    Models = {"image"}
    UserOf <- AnnAndBob
    ModelOf <- OneModel
    Cost <- CostOne
    InitialCredits <- Rich
    Limit <- LimitOne
    MaxQueuedPerUser = 1
    Phases = 1
    AdminToggles = TRUE
    PayloadsExpire = FALSE
    BootStates = {"done"}
    MaxFaults = 0
    MaxCrashes = 0
INVARIANTS
    WindowCap
    QueueCap
PROPERTIES
    DispatchInOrder
