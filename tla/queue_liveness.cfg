\* What must eventually happen, with no failed write and at most two crashes.
SPECIFICATION FairSpec
CONSTANTS
    Tasks = {1, 2}
    Users = {"ann"}
    Models = {"image", "video"}
    UserOf <- AllAnn
    ModelOf <- OneModel
    Cost <- CostOne
    InitialCredits <- Rich
    Limit <- LimitOne
    MaxQueuedPerUser = 2
    Phases = 1
    AdminToggles = FALSE
    PayloadsExpire = FALSE
    BootStates = {"start"}
    MaxFaults = 0
    MaxCrashes = 2
PROPERTIES
    QueueDrains
    AnswerSettles
    OrphansSettle
