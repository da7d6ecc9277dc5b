\* Two connections from two addresses, a limit of one, dials of at most 5 s.
SPECIFICATION Spec
CONSTANTS
    c1 = c1
    c2 = c2
    Conn <- TwoConns
    IpOf <- OwnIp
    MaxIps = 1
    HbEvery = 3
    StaleAfter = 9
    PostTimeout = 2
    MaxFailures = 3
    Latency = 1
    MaxDial = 1
    LossesInRow = 1
    MaxBytes = 0
SYMMETRY ConnSymmetry
INVARIANTS RelayHasRow RelayedIpsWithinLimit
PROPERTIES RowsPromised
