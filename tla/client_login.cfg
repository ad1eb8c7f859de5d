\* The session of a tab: every order of two requests, their answers and what the user does.
SPECIFICATION Spec
CONSTANTS
    MaxCalls = 2
    MaxActs = 3
INVARIANTS
    FreshChallenge
PROPERTIES
    RedirectsEnd
    GuestLeaves
CHECK_DEADLOCK FALSE
