SPECIFICATION Spec
CONSTANTS
    u1 = u1
    u2 = u2
    p1 = p1
    i1 = i1
    r1 = r1
    r2 = r2
    l1 = l1
    Users = {u1, u2}
    Projects = {p1}
    Instances = {i1}
    Requests = {r1, r2}
    Logins = {l1}
    ReqRoles <- MCReqRoles
    MaxStarts = 3
    MaxInvites = 1
SYMMETRY Symmetry
INVARIANTS
    GrantedByHolder
PROPERTIES
    OwnerlessOnlyByRace
    InviteGrantsItsRole
