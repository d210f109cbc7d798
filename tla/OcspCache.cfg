SPECIFICATION OcspSpec
CONSTANTS
    Certs <- MCOneCert
    NotAfter <- MCOneNotAfter
    Revokers = {r1}
    Tasks = {t1}
    Lookups = {l1, l2}
    Retention = 1
    BatchSize = 1
    MaxBatches = 1
    MaxTime = 4
    OcspExpiry = 1
    CallTimeout = 1
SYMMETRY MCSymmetry
INVARIANTS
    AnswerWasTrue
