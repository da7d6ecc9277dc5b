\* One relay whose chunks exceed one second of the limit.
SPECIFICATION FairSpec
CONSTANTS
    Waiter = {w1}
    Rate = {2}
    Size = {3}
    Second = 3
PROPERTIES RelaysProgress
