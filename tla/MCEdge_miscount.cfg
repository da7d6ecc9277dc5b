\* One connection, one unit of traffic, no call is lost.
SPECIFICATION Spec
CONSTANTS
    c1 = c1
    c2 = c2
    Conn <- OneConn
    IpOf <- OwnIp
    MaxIps = 1
    HbEvery = 3
    StaleAfter = 9
    PostTimeout = 2
    MaxFailures = 3
    Latency = 1
    MaxDial = 1
    LossesInRow = 0
    MaxBytes = 1
INVARIANTS ChargedExactly
