\* Three relays of one user, any limit of a few set at any time, chunks of at most
\* one second of it.
SPECIFICATION FairSpec
CONSTANTS
    Waiter = {w1, w2, w3}
    Rate = {0, 2, 3}
    Size = {1, 2}
    Second = 3
INVARIANTS TypeOK LimitKept
PROPERTIES RelaysProgress
