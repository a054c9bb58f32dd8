CONSTANTS
    NumIoThreads = 2
    UdpThreads = {0}
    UdpRequests <- MCUdpRequests
    TcpRequests <- MCTcpRequests
    MaxReqs = 2
    Tracked <- MCTracked
    RealtimeStats = FALSE
SPECIFICATION Spec
INVARIANT TypeOK
INVARIANT StatsReadAfterRegistration
PROPERTY PageWithinBounds
INVARIANT PageReqsMatchRcodes
PROPERTY BarrierPasses
PROPERTY StatsEventuallyAccurate
