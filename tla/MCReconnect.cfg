CONSTANTS
    UpdatesCap = 3
    Handlers = {h1}
    Requests = {"connect", "disconnect", "select"}
    MaxRetriesBeforeFailover = 1
    CircuitBreakerThreshold = 2
    HasFailover = TRUE
    MaxAlternatives = 1
    ActivateMayFail = TRUE
    StartProxyMayFail = TRUE
    Detectors = {d1}
    MaxPendingStarts = 1
    RecoveryEnabled = TRUE
SPECIFICATION FairSpec
INVARIANTS TypeOK DNSBlockedWhileReconnecting KillSwitchSound BreakerKeepsDNSBlocked
    FailoverBeforeBreaker NoLostDisconnect
PROPERTIES KeepsPromise CycleTerminates StopTerminates LossIsHandled
