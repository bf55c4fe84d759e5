CONSTANTS
    Relays = {r1, r2}
    Transports = {t1, t2, t3}
    QUICTransports = {q1, q2, q3}
    Heartbeats = {b1, b2}
    MaxHeartbeatFailures = 1
    MaxRetries = 1
    BreakerThreshold = 2
    UpdatesCap = 4
    Requests = {}
    MaxEvents = 0
    None = None
SPECIFICATION Spec
INVARIANTS SNIMatchesRelay
