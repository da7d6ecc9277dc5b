\* Three handlers at once, one client of each inbound, under fairness.
SPECIFICATION FairSpec
CONSTANTS
    Client = {a, b}
    Vless = {a}
    Task = {t1, t2, t3}
INVARIANTS TypeOK RecordExact SettledInSync
PROPERTIES OthersUndisturbed MirrorKept RequestsAnswered
