CONSTANTS
    TCPFlows = {t1}
    UDPFlows = {u1}
    OutCap = 2
    InCap = 1
    MaxData = 1
SPECIFICATION FairSpec
INVARIANTS TypeOK NothingOutlivesHandler RepliesDrained
PROPERTY EndedReaderTearsDown
CHECK_DEADLOCK FALSE
