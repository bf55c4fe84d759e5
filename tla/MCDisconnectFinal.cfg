CONSTANTS
    UpdatesCap = 4
    Handlers = {h1}
    Requests = {"connect", "disconnect"}
    MaxRetriesBeforeFailover = 1
    CircuitBreakerThreshold = 2
    HasFailover = FALSE
    MaxAlternatives = 0
    ActivateMayFail = FALSE
    StartProxyMayFail = FALSE
    Detectors = {d1}
    MaxPendingStarts = 1
    RecoveryEnabled = FALSE
SPECIFICATION FairSpec
PROPERTY DisconnectIsFinal
