SPECIFICATION Spec
CONSTANTS
    Certs <- MCCerts
    NotAfter <- MCNotAfter
    Revokers = {r1}
    Tasks = {}
    Lookups = {}
    Retention = 0
    BatchSize = 1
    MaxBatches = 1
    MaxTime = 1
    Publishers = {p1, p2}
    IssuerNotAfter = 2
    CrlExpiry = 2
    CrlRenewal = 1
    PageSize = 1
    PublishAttempts = 2
    Forcing = {TRUE, FALSE}
    Statuses = {}
    MaxNumber = 2
SYMMETRY MCSymmetry
INVARIANTS
    CrlWithinIssuer
    EntriesAreRevoked
PROPERTIES
    ImplementsCrlLog
    NumbersAreConsecutive
    CrlCatchesUp
    NoNeedlessCrl
