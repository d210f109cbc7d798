SPECIFICATION FairBootSpec
CONSTANTS
    Instances = {n1, n2}
    Order <- MCOrder
    ParentOf <- MCParentOf
    Versions <- MCVersions
    Enabled <- MCEnabled
    Delegated <- MCDelegated
    Allowed <- MCAllowed
    IssuerLabel <- MCIssuerLabel
    Profiles <- MCProfiles
    RootBundle <- MCRootBundle
    MaxStarts = 3
CHECK_DEADLOCK FALSE
INVARIANTS
    StoredWhole
    FailsOnlyWhenOverwritten
    Settled
PROPERTIES
    BootstrapsFinish
