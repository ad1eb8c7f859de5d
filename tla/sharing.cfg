\* Two overlapping requests about one workflow, its shares and a copy.
SPECIFICATION Spec
CONSTANTS
    r1 = r1
    r2 = r2
    s1 = s1
    s2 = s2
    c1 = c1
    Requests <- TwoRequests
    Shares <- TwoShares
    Copies <- OneCopy
    MaxEdits = 1
    MaxVersion = 3
SYMMETRY Interchangeable
INVARIANTS
    LinkedCopiesFollow
PROPERTIES
    RevocationStands
CHECK_DEADLOCK FALSE
