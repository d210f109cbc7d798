SPECIFICATION Spec
CONSTANTS
    Admins = {a1}
    KeyIDs = {1}
    Serials = {1}
    Wrapped = {1}
    MaxStamp = 2
    Local = {}
    Lookups = {l1}
    TTL = 1
    MaxTime = 2
INVARIANT AnswersWithinTTL
