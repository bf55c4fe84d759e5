CONSTANTS
    s1 = s1  s2 = s2  k1 = k1  k2 = k2
    Sessions = {s1, s2}
    Keys = {k1, k2}
    SessionOf <- FlowPerSession
    Ports = {p1}
    Ticker = ticker
    Stopper = stopper
    Evictors = {"ticker", "exhaustion", "cleanup", "shutdown"}
    MaxEntries = 2
SPECIFICATION Spec
INVARIANTS TypeOK PoolSound Accounting OpenSocketsAreSwept EndedSessionForgotten
CHECK_DEADLOCK FALSE
