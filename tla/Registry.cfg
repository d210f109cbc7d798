SPECIFICATION Spec
CONSTANTS
    Admins = {a1}
    KeyIDs = {1, 2}
    Serials = {1}
    Wrapped = {1}
    MaxStamp = 1
    Local = {a1}
    Lookups = {l1, l2}
    TTL = 1
    MaxTime = 3
SYMMETRY MCSymmetry
INVARIANTS
    SignsWithinTTL
    AnswersWithinTwoTTL
PROPERTY EntryMovesForward
