CONSTANTS
    MaxVersion = 2
    MaxRetries = 2
    MaxFaults = 0
    MaxReleases = 1
    Broken = {2}
SPECIFICATION Spec
CHECK_DEADLOCK FALSE
INVARIANT RollbackUntilConfirmed
