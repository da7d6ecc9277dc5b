\* Two connections from two addresses, a limit of one, dials of up to 60 s, no loss.
SPECIFICATION Spec
CONSTANTS
    c1 = c1
    c2 = c2
    Conn <- TwoConns
    IpOf <- OwnIp
    MaxIps = 1
    HbEvery = 3
    StaleAfter = 9
    PostTimeout = 2
    MaxFailures = 3
    Latency = 1
    MaxDial = 12
    LossesInRow = 0
    MaxBytes = 0
SYMMETRY ConnSymmetry
INVARIANTS RelayedIpsWithinLimit
