SPECIFICATION Spec
CONSTANTS
    Conn = {c1, c2}
    Login = {a1, a2}
    IpOf <- OwnIp
    MaxIps = 1
    Tx = {t1, t2, t3}
    None = None
    Report <- ReportChoice
    MaxRequests = 3
INVARIANTS
    TypeOK
    CountersKept
    UserOutlivesSessions
    OnlySweepsDeadlock
    OnlyTheLoopHangs
PROPERTIES
    EndedStaysEnded
    AdmittedWithinLimit
    RevokedSessionWritesNothing
    ResetLeavesOnlyNewer
SYMMETRY RequestSymmetry
CHECK_DEADLOCK FALSE
