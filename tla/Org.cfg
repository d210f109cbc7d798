SPECIFICATION Spec
CONSTANTS
    Admins = {a1, a2}
    KeyIDs = {1, 2}
    Serials = {1, 2}
    Wrapped = {1}
    MaxStamp = 3
    N = 3
    Bound = 4
    Certificates <- MCCertificates
    PathLens <- MCPathLens
    RowIDs = {1, 2, 3}
    SortValues = {1, 2}
    RowProjects = {q1, q2}
    Limit = 1
    MaxChanges = 1
INVARIANTS
    CertificateFitsKey
    DestroyedForGood
    ActiveHasKey
    AgreesWithValidation
    ListsAllOnce
    NoRepeats
    ListAgreesWithRowAccess
PROPERTIES
    CertificateIsSetOnce
    NeverReactivated
CHECK_DEADLOCK FALSE
