SPECIFICATION FairCertSpec
CONSTANTS
    Certs <- MCCerts
    NotAfter <- MCNotAfter
    Revokers = {r1, r2}
    Tasks = {t1}
    Lookups = {l1}
    Retention = 1
    BatchSize = 1
    MaxBatches = 2
    MaxTime = 3
INVARIANTS
    StatusMatchesRevocation
    RevocationOwnsRow
    MissingOnlyWhenRetired
PROPERTIES
    RevocationIsFinal
    ExpiredIsMarked
    RetiredIsDeleted
