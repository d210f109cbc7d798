SPECIFICATION Spec
CONSTANTS
    Instances = {i1, i2}
    Clients = {c1, c2}
    Verifiers = {v1, v2}
    Orgs = {o1}
    StateAge = 1
    OTCSeconds = 1
    TokenTTL = 3
    SnapshotTTL = 2
    MaxClock = 4
    MaxStates = 1
    MaxLogins = 1
    Servers = {s1, s2}
    Projects = {p1}
    APIKeys = {k1}
    Calls = {r1, r2}
    CacheTTL = 1
    KeyTokenTTL = 2
    KeyExpiries = {1}
    CallTime = 1
    MaxTime = 4
    MaxCalls = 3
SYMMETRY Symmetry
INVARIANTS
    SignOutEndsSession
    SessionEndsOnTime
    AnsweredCodeIsGone
    ProjectCloses
    CloseHoldsHere
    KeyAccessEnds
CHECK_DEADLOCK FALSE
