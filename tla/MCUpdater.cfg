CONSTANTS
    MaxVersion = 3
    MaxRetries = 2
    MaxFaults = 4
    MaxReleases = 2
    Broken = {2}
SPECIFICATION FairSpec
CHECK_DEADLOCK FALSE
INVARIANTS
    TypeOK
    RunnableCopy
    RollbackRestoresOther
PROPERTIES
    InstallsAreNew
    UpdateArrives
