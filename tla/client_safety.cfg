\* What no step of a page may do.
SPECIFICATION ClientSpec
CONSTANTS
    Pages = {"settings", "assistant", "library", "lists"}
    Prompts = {p}
    MaxCount = 1
    RefLimit = 1
    MaxLists = 1
    MaxDoings <- MCDoings
    ChannelNames = {n1, n2}
    Models = {m1, m2}
    Texts = {t1, t2}
    MaxRequests = 2
    MaxOperations = 3
    MaxTalks = 6
    MaxSends = 2
    Titles = {t1}
    MaxEdits = 1
    MaxSaves = 1
    MaxWorks = 1
    MaxUpsets = 1
    Flows = {f1, f2}
    Linked = {f2}
    Posts = {p1}
    Names = {n1, n2}
    MaxEditions = 1
    MaxJobs = 2
    MaxVisits = 5
    Base = {1}
    MaxChanges = 2
    MaxClicks = 5
INVARIANTS
    NoPlaceholdersKept
    DetailsStayHome
PROPERTIES
    KeysStay
    PricesStay
    BansHold
    RunsAreClean
CHECK_DEADLOCK FALSE
