\* One user, two addresses, two sessions, three instants, limits of one and two:
\* sweeps, late closes and edits of max_ips between admissions; two units of
\* traffic, a quota of one, a validity of one day, dates entered by hand.
SPECIFICATION Spec
CONSTANTS
    None = None
    Day = 1
    User = {u1}
    Node = {n1}
    Ip = {i1, i2}
    Session = {s1, s2}
    StaleAfter = 0
    CloseReason = {"client_closed"}
    Quota = {1}
    Validity = {1}
    IpLimit = {1, 2}
    Expiry <- LaterExpiry
    Delta = {0, 1}
    MaxTime = 2
    MaxBytes = 2
SYMMETRY RowSymmetry
INVARIANTS TypeOK UsageAccounted FirstConnectionStartsValidity
PROPERTIES IpDenialJustified RowsPromised
