\* Every overlap of two requests and the clean-up over two files.
SPECIFICATION Spec
CONSTANTS
    f1 = f1
    f2 = f2
    w1 = w1
    w2 = w2
    h1 = h1
    r1 = r1
    r2 = r2
    sweeper = sweeper
    Files <- TwoFiles
    Workflows <- TwoWorkflows
    Histories <- OneHistory
    Requests <- TwoRequests
    Sweeper = sweeper
    Lifetime = 1
    BatchSize = 1
    MaxClock = 1
    MaxFailures = 1
SYMMETRY Interchangeable
INVARIANTS
    BoundFilesStay
    LifetimeFollowsHolder
    NothingLeaks
CHECK_DEADLOCK FALSE
