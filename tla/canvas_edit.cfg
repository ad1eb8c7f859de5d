\* Edits, previews, undo and answers on three small pages.
SPECIFICATION Spec
CONSTANTS
    MaxNodes = 5
    Depth = 2
    MaxActs = 2
    MaxCount = 2
    MaxJobs = 1
    Starts <- MCStarts
INVARIANTS
    RecordedIsCurrent
PROPERTIES
    DeletedStaysDeleted
    AnswersStayHome
    PreviewAllOrNothing
CHECK_DEADLOCK FALSE
