SPECIFICATION FairSpec
CONSTANTS
    Certs <- MCOneCert
    NotAfter <- MCOneNotAfter
    Revokers = {r1}
    Tasks = {}
    Lookups = {}
    Retention = 0
    BatchSize = 1
    MaxBatches = 1
    MaxTime = 4
    Publishers = {p1}
    IssuerNotAfter = 9
    CrlExpiry = 2
    CrlRenewal = 1
    PageSize = 1
    PublishAttempts = 2
    Forcing = {FALSE}
    Statuses = {"Active", "Archived", "Destroyed"}
    MaxNumber = 9
PROPERTY DueIsRenewed
