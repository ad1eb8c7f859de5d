\* What the pages come to, whatever order their requests are answered in.
SPECIFICATION FairClientSpec
CONSTANTS
    Pages = {"studio", "assistant", "saves", "lists"}
    Prompts = {p}
    MaxCount = 2
    RefLimit = 2
    MaxLists = 1
    MaxDoings <- MCDoings
    ChannelNames = {n1, n2}
    Models = {m1, m2}
    Texts = {t1, t2}
    MaxRequests = 2
    MaxOperations = 3
    MaxTalks = 4
    MaxSends = 2
    Titles = {t1, t2}
    MaxEdits = 1
    MaxSaves = 2
    MaxWorks = 1
    MaxUpsets = 1
    Flows = {f1, f2}
    Linked = {f2}
    Posts = {p1}
    Names = {n1, n2}
    MaxEditions = 1
    MaxJobs = 2
    MaxVisits = 1
    Base = {1, 2}
    MaxChanges = 2
    MaxClicks = 3
INVARIANTS
    CancelsItsOwn
PROPERTIES
    PicturesAreKept
    BatchEnds
    ThinkingEnds
    SavesConverge
    ListsConverge
CHECK_DEADLOCK FALSE
