CONSTANTS
    Relays = {r1, r2}
    Transports = {t1, t2, t3}
    QUICTransports = {q1, q2, q3}
    Heartbeats = {b1, b2}
    MaxHeartbeatFailures = 1
    MaxRetries = 1
    BreakerThreshold = 2
    UpdatesCap = 3
    Requests = {"connect", "disconnect", "select"}
    MaxEvents = 1
    None = None
SPECIFICATION FairSpec
INVARIANTS TypeOK OneHeartbeat NothingLeaks NeverAbandoned
PROPERTIES ConnectedIsProbed
CHECK_DEADLOCK FALSE
