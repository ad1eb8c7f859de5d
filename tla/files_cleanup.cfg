\* What the clean-up and the deletions finish, with one request.
SPECIFICATION FairSpec
CONSTANTS
    f1 = f1
    f2 = f2
    w1 = w1
    w2 = w2
    h1 = h1
    r1 = r1
    r2 = r2
    sweeper = sweeper
    Files <- TwoFiles
    Workflows <- OneWorkflow
    Histories <- OneHistory
    Requests <- OneRequest
    Sweeper = sweeper
    Lifetime = 1
    BatchSize = 1
    MaxClock = 1
    MaxFailures = 2
PROPERTIES
    ExpiredFilesGo
    WorkflowFilesGo
CHECK_DEADLOCK FALSE
