CONSTANTS
    TCPFlows = {t1}
    UDPFlows = {u1}
    OutCap = 1
    InCap = 1
    MaxData = 2
SPECIFICATION FairSpec
PROPERTY SendersUnblock
CHECK_DEADLOCK FALSE
