----------------------------- MODULE TokenBucket -----------------------------
(***************************************************************************)
(* The speed limit: one token bucket per user, shared by the relay         *)
(* goroutines of all the user's connections                                *)
(* (gateway/internal/limiter/limiter.go).                                  *)
(*                                                                         *)
(* One second is Second clock units, and tokens are held in parts of       *)
(* 1/Second of a byte, so that refilling for one unit at rate r adds       *)
(* exactly r parts.  The bucket remembers the time of the last refill; here *)
(* it is the time since then, which stops at one second because by then    *)
(* the bucket is full whatever it held.  The mutex makes each turn of the  *)
(* loop in Wait one step.                                                  *)
(***************************************************************************)
EXTENDS Integers

CONSTANTS
    Waiter,     \* relay goroutines of one user
    Rate,       \* speed limits in bytes per second, 0 is unlimited
    Size,       \* sizes of the chunks a relay reads, at most its 32 KiB buffer
    Second      \* clock units in one second, the bucket's burst

ASSUME BucketAssumption ==
    /\ Rate \subseteq Nat
    /\ Size \subseteq Nat \ {0}
    /\ Second \in Nat \ {0}

VARIABLES
    rate,       \* Bucket.rate
    tokens,     \* Bucket.tokens, in parts
    since,      \* time since Bucket.last, at most Second
    pc,         \* where each waiter is in Wait
    want,       \* the bytes it waits for
    sleep,      \* what is left of its timer
    level       \* history: parts sent and not yet drained at the limit

vars == <<rate, tokens, since, pc, want, sleep, level>>
-----------------------------------------------------------------------------
Smaller(a, b) == IF a < b THEN a ELSE b
Larger(a, b) == IF a > b THEN a ELSE b

Full(r) == Second * r
Parts(n) == Second * n

TypeOK ==
    /\ rate \in Rate
    /\ tokens \in 0..Full(rate)
    /\ since \in 0..Second
    /\ pc \in [Waiter -> {"idle", "checking", "sleeping"}]
    /\ want \in [Waiter -> Size \cup {0}]
    /\ sleep \in [Waiter -> Nat]
    /\ level \in Nat

\* ForUser creates the bucket of a user full: New(rate).
Init ==
    /\ rate \in Rate
    /\ tokens = Full(rate)
    /\ since = 0
    /\ pc = [w \in Waiter |-> "idle"]
    /\ want = [w \in Waiter |-> 0]
    /\ sleep = [w \in Waiter |-> 0]
    /\ level = 0

\* (a refill that is not capped)
RefilledOver == tokens + since * rate

\* The tokens after refill(now).
Refilled == Smaller(tokens + since * rate, Full(rate))

Wait(w, n) ==
    /\ pc[w] = "idle"
    /\ pc' = [pc EXCEPT ![w] = "checking"]
    /\ want' = [want EXCEPT ![w] = n]
    /\ UNCHANGED <<rate, tokens, since, sleep, level>>

Return(w) ==
    /\ pc' = [pc EXCEPT ![w] = "idle"]
    /\ want' = [want EXCEPT ![w] = 0]

Unlimited(w) ==
    /\ pc[w] = "checking"
    /\ rate = 0
    /\ Return(w)
    /\ since' = 0
    /\ UNCHANGED <<rate, tokens, sleep, level>>

Take(w) ==
    /\ pc[w] = "checking"
    /\ rate > 0
    /\ Refilled >= Parts(want[w])
    /\ tokens' = Refilled - Parts(want[w])
    /\ since' = 0
    /\ level' = level + Parts(want[w])
    /\ Return(w)
    /\ UNCHANGED <<rate, sleep>>

\* The time the missing tokens need, but at least one unit (the code: 1 ms).
Nap(w) == Larger((Parts(want[w]) - Refilled) \div rate, 1)

FallAsleep(w) ==
    /\ pc[w] = "checking"
    /\ rate > 0
    /\ Refilled < Parts(want[w])
    /\ pc' = [pc EXCEPT ![w] = "sleeping"]
    /\ sleep' = [sleep EXCEPT ![w] = Nap(w)]
    /\ tokens' = Refilled
    /\ since' = 0
    /\ UNCHANGED <<rate, want, level>>

WakeUp(w) ==
    /\ pc[w] = "sleeping"
    /\ sleep[w] = 0
    /\ pc' = [pc EXCEPT ![w] = "checking"]
    /\ UNCHANGED <<rate, tokens, since, want, sleep, level>>

\* The connection's context is done.
GiveUp(w) ==
    /\ pc[w] = "sleeping"
    /\ Return(w)
    /\ sleep' = [sleep EXCEPT ![w] = 0]
    /\ UNCHANGED <<rate, tokens, since, level>>

\* (every heartbeat empties the bucket)
KeptNone(r) == 0

\* (every heartbeat grants a new burst)
KeptFull(r) == Full(r)

\* What is left of the tokens under a new limit.
Kept(r) == IF r = 0 THEN 0 ELSE Smaller(Refilled, Full(r))

\* A heartbeat's answer, or a further connection of the user (ForUser).  The
\* meter starts anew only under another limit.
SetRate(r) ==
    /\ rate' = r
    /\ tokens' = Kept(r)
    /\ since' = 0
    /\ level' = IF r = rate THEN level ELSE 0
    /\ UNCHANGED <<pc, want, sleep>>

Clock ==
    /\ since' = Smaller(since + 1, Second)
    /\ sleep' = [w \in Waiter |-> Larger(sleep[w] - 1, 0)]
    /\ level' = Larger(level - rate, 0)
    /\ UNCHANGED <<rate, tokens, pc, want>>

Check(w) == Unlimited(w) \/ Take(w) \/ FallAsleep(w)

Next ==
    \/ \E w \in Waiter :
          Check(w) \/ WakeUp(w) \/ GiveUp(w) \/ \E n \in Size : Wait(w, n)
    \/ \E r \in Rate : SetRate(r)
    \/ Clock

Spec == Init /\ [][Next]_vars

\* Waiting goroutines are scheduled, their timers fire and time passes.
Fairness ==
    /\ \A w \in Waiter : WF_vars(Check(w)) /\ WF_vars(WakeUp(w))
    /\ WF_vars(Clock)

FairSpec == Spec /\ Fairness
-----------------------------------------------------------------------------
(***************************************************************************)
(* Properties.                                                             *)
(***************************************************************************)

\* The speed limit: a meter that drains at the limit never holds more than one
\* second's worth, so in any interval of t seconds under one limit all the
\* connections of a user together forward at most (1 + t) * rate bytes, however
\* often heartbeats and new connections set the same rate again.
LimitKept == rate > 0 => level <= Full(rate)

\* What LimitKept rests on: what was sent and what may still be sent at once
\* share the one second's burst.
BurstShared == rate > 0 => level + Refilled <= Full(rate)

\* The relays of a user never starve together: when all of them wait for
\* tokens, one gets them (or its connection ends), however their naps and the
\* new limits fall, unless the limit is lifted again and again, which empties
\* the bucket.  A relay alone always gets its tokens; beside another it may be
\* overtaken again and again, for Wait keeps no queue.
RelaysProgress ==
    \/ []<>(rate = 0)
    \/ (\A w \in Waiter : pc[w] # "idle") ~> (\E w \in Waiter : pc[w] = "idle")
=============================================================================
