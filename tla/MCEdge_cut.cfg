\* One connection, one unit of traffic, slow dials (50 s), every call may be
\* lost, under fairness.
SPECIFICATION FairSpec
CONSTANTS
    c1 = c1
    c2 = c2
    Conn <- OneConn
    IpOf <- OwnIp
    MaxIps = 1
    HbEvery = 3
    StaleAfter = 9
    PostTimeout = 2
    MaxFailures = 3
    Latency = 1
    MaxDial = 10
    LossesInRow = 3
    MaxBytes = 1
INVARIANTS TypeOK NothingForgotten OverchargeBounded EndedRelayIsCut RefusedRelayIsCut
PROPERTIES ConnectionWindsUp RowsEnd
