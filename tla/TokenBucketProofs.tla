-------------------------- MODULE TokenBucketProofs --------------------------
(***************************************************************************)
(* Proofs about TokenBucket: the speed limit holds for every set of relay  *)
(* goroutines, every set of rates and chunk sizes and every clock.         *)
(***************************************************************************)
EXTENDS TokenBucket, TLAPS

\* A waiter asks for a whole number of parts.
LEMMA PartsType ==
    ASSUME TypeOK, NEW w \in Waiter
    PROVE  Parts(want[w]) \in Nat
<1>1. want[w] \in Size \cup {0}
  BY DEF TypeOK
<1>2. Size \subseteq Nat
  BY BucketAssumption
<1>3. want[w] \in Nat
  <2>1. CASE want[w] = 0
    BY <2>1
  <2>2. CASE want[w] \in Size
    BY <1>2, <2>2
  <2> QED BY <1>1, <2>1, <2>2
<1>4. Second \in Nat
  BY BucketAssumption
<1> QED BY <1>3, <1>4 DEF Parts

\* A refill leaves between nothing and one second's worth in the bucket.
LEMMA RefilledType ==
    ASSUME TypeOK
    PROVE  Refilled \in 0..Full(rate)
<1>1. rate \in Nat /\ since \in Nat /\ Second \in Nat /\ tokens \in Nat
  BY BucketAssumption DEF TypeOK, Full
<1>2. since * rate \in Nat /\ Second * rate \in Nat
  BY <1>1
<1> QED BY <1>1, <1>2 DEF Refilled, Smaller, Full

\* One clock unit adds at most one unit's worth of tokens.
LEMMA RefilledStep ==
    ASSUME TypeOK, Clock
    PROVE  Refilled' <= Refilled + rate /\ Refilled' \in 0..Full(rate)
<1>1. rate \in Nat /\ since \in 0..Second /\ Second \in Nat /\ tokens \in Nat
  BY BucketAssumption DEF TypeOK, Full
<1> DEFINE now == since * rate
           next == since' * rate
<1>2. now \in Nat /\ (since + 1) * rate = now + rate
  BY <1>1
<1>3. next \in Nat /\ next <= now + rate
  <2>1. CASE since < Second
    <3>1. since' = since + 1
      BY <1>1, <2>1 DEF Clock, Smaller
    <3> QED BY <1>1, <1>2, <3>1
  <2>2. CASE since = Second
    <3>1. since' = since
      BY <1>1, <2>2 DEF Clock, Smaller
    <3> QED BY <1>1, <1>2, <3>1
  <2> QED BY <1>1, <2>1, <2>2
<1>4. Full(rate) \in Nat
  BY <1>1 DEF Full
<1>5. rate' = rate /\ tokens' = tokens
  BY DEF Clock
<1>6. Refilled' = Smaller(tokens + next, Full(rate)) /\ Refilled = Smaller(tokens + now, Full(rate))
  BY <1>5 DEF Refilled, Full
<1> HIDE DEF now, next
<1> QED BY <1>1, <1>2, <1>3, <1>4, <1>6 DEF Smaller

\* Right after a refill nothing more can be added.
LEMMA RefilledAtOnce ==
    ASSUME NEW r \in Nat, NEW t \in 0..Full(r), rate' = r, tokens' = t, since' = 0
    PROVE  Refilled' = t
<1>1. Full(r) \in Nat
  BY BucketAssumption DEF Full
<1>2. 0 * r = 0
  OBVIOUS
<1>3. Refilled' = Smaller(t + 0 * r, Full(r))
  BY DEF Refilled, Full
<1> QED BY <1>1, <1>2, <1>3 DEF Smaller

\* The tokens never exceed one second's worth and never go below zero, and the
\* loop of Wait keeps its bookkeeping.
THEOREM TypeCorrect == Spec => []TypeOK
<1>1. Init => TypeOK
  <2>1. \A r \in Rate : Full(r) \in Nat
    BY BucketAssumption DEF Full
  <2> QED BY <2>1, BucketAssumption DEF Init, TypeOK
<1>2. TypeOK /\ [Next]_vars => TypeOK'
  <2> SUFFICES ASSUME TypeOK, [Next]_vars PROVE TypeOK'
    OBVIOUS
  <2> USE BucketAssumption
  <2>0. rate \in Nat /\ Full(rate) \in Nat /\ Refilled \in 0..Full(rate) /\ Second \in Nat
    BY RefilledType DEF TypeOK, Full
  <2>1. ASSUME NEW w \in Waiter, Unlimited(w) PROVE TypeOK'
    BY <2>1 DEF TypeOK, Unlimited, Return
  <2>2. ASSUME NEW w \in Waiter, Take(w) PROVE TypeOK'
    <3>1. Parts(want[w]) \in Nat
      BY PartsType
    <3>2. tokens' \in 0..Full(rate) /\ level' \in Nat
      BY <2>0, <2>2, <3>1 DEF TypeOK, Take
    <3> QED BY <2>2, <3>2 DEF TypeOK, Take, Return
  <2>3. ASSUME NEW w \in Waiter, FallAsleep(w) PROVE TypeOK'
    <3>1. Parts(want[w]) \in Nat
      BY PartsType
    <3>2. (Parts(want[w]) - Refilled) \div rate \in Int
      BY <2>0, <2>3, <3>1 DEF FallAsleep
    <3>3. Nap(w) \in Nat
      BY <3>2 DEF Nap, Larger
    <3> QED BY <2>0, <2>3, <3>3 DEF TypeOK, FallAsleep
  <2>4. ASSUME NEW w \in Waiter, WakeUp(w) \/ GiveUp(w) PROVE TypeOK'
    BY <2>4 DEF TypeOK, WakeUp, GiveUp, Return
  <2>5. ASSUME NEW w \in Waiter, NEW n \in Size, Wait(w, n) PROVE TypeOK'
    BY <2>5 DEF TypeOK, Wait
  <2>6. ASSUME NEW r \in Rate, SetRate(r) PROVE TypeOK'
    <3>1. r \in Nat /\ Full(r) \in Nat
      BY DEF Full
    <3>2. Kept(r) \in 0..Full(r)
      BY <2>0, <3>1 DEF Kept, Smaller
    <3> QED BY <2>6, <3>1, <3>2 DEF TypeOK, SetRate
  <2>7. CASE Clock
    BY <2>0, <2>7 DEF TypeOK, Clock, Smaller, Larger
  <2>8. CASE UNCHANGED vars
    BY <2>8 DEF TypeOK, vars
  <2> QED BY <2>1, <2>2, <2>3, <2>4, <2>5, <2>6, <2>7, <2>8 DEF Next, Check
<1> QED BY <1>1, <1>2, PTL DEF Spec

\* What has been sent under a limit and what may still be sent at once never
\* exceed one second's burst, over any interleaving of relays and heartbeats.
THEOREM BurstIsShared == Spec => []BurstShared
<1>1. Init => BurstShared
  <2> SUFFICES ASSUME Init, rate > 0 PROVE level + Refilled <= Full(rate)
    BY DEF BurstShared
  <2>1. rate \in Nat /\ Full(rate) \in Nat /\ 0 * rate = 0
    BY BucketAssumption DEF Init, Full
  <2> QED BY <2>1 DEF Init, Refilled, Smaller
<1>2. TypeOK /\ BurstShared /\ [Next]_vars => BurstShared'
  <2> SUFFICES ASSUME TypeOK, BurstShared, [Next]_vars, rate' > 0
               PROVE  level' + Refilled' <= Full(rate')
    BY DEF BurstShared
  <2>0. /\ rate \in Nat /\ Full(rate) \in Nat /\ Refilled \in 0..Full(rate)
        /\ level \in Nat /\ tokens \in 0..Full(rate)
    BY BucketAssumption, RefilledType DEF TypeOK, Full
  <2>1. ASSUME NEW w \in Waiter, Unlimited(w) PROVE FALSE
    BY <2>1 DEF Unlimited
  <2>2. ASSUME NEW w \in Waiter, Take(w) PROVE level' + Refilled' <= Full(rate')
    <3>1. Parts(want[w]) \in Nat
      BY PartsType
    <3>2. Refilled - Parts(want[w]) \in 0..Full(rate)
      BY <2>0, <2>2, <3>1 DEF Take
    <3>3. Refilled' = Refilled - Parts(want[w])
      BY <2>0, <2>2, <3>2, RefilledAtOnce DEF Take
    <3>4. level' = level + Parts(want[w]) /\ rate' = rate
      BY <2>2 DEF Take
    <3>5. level + Refilled <= Full(rate)
      BY <2>2 DEF Take, BurstShared
    <3> QED BY <2>0, <3>1, <3>3, <3>4, <3>5
  <2>3. ASSUME NEW w \in Waiter, FallAsleep(w) PROVE level' + Refilled' <= Full(rate')
    <3>1. Refilled' = Refilled
      BY <2>0, <2>3, RefilledAtOnce DEF FallAsleep
    <3> QED BY <2>3, <3>1 DEF FallAsleep, BurstShared
  <2>4. ASSUME UNCHANGED <<rate, tokens, since, level>> PROVE level' + Refilled' <= Full(rate')
    BY <2>4 DEF BurstShared, Refilled, Full
  <2>5. ASSUME NEW r \in Rate, SetRate(r) PROVE level' + Refilled' <= Full(rate')
    <3>1. r \in Nat /\ Full(r) \in Nat /\ r > 0 /\ rate' = r
      BY <2>5, BucketAssumption DEF Full, SetRate
    <3>2. Kept(r) = Smaller(Refilled, Full(r))
      BY <3>1 DEF Kept
    <3>3. Kept(r) \in 0..Full(r) /\ Kept(r) <= Refilled
      BY <2>0, <3>1, <3>2 DEF Smaller
    <3>4. Refilled' = Kept(r)
      BY <2>5, <3>1, <3>3, RefilledAtOnce DEF SetRate
    <3>5. CASE r = rate
      BY <2>0, <2>5, <3>1, <3>3, <3>4, <3>5 DEF SetRate, BurstShared
    <3>6. CASE r # rate
      BY <2>5, <3>1, <3>3, <3>4, <3>6 DEF SetRate
    <3> QED BY <3>5, <3>6
  <2>6. CASE Clock
    <3>1. Refilled' <= Refilled + rate
      BY <2>6, RefilledStep
    <3>3. rate' = rate /\ Refilled' \in 0..Full(rate)
      BY <2>6, RefilledStep DEF Clock
    <3>4. level + Refilled <= Full(rate)
      BY <3>3 DEF BurstShared
    <3>5. level' = IF level - rate > 0 THEN level - rate ELSE 0
      BY <2>6 DEF Clock, Larger
    <3> QED BY <2>0, <3>1, <3>3, <3>4, <3>5
  <2>7. \A w \in Waiter, n \in Size :
           WakeUp(w) \/ GiveUp(w) \/ Wait(w, n) => UNCHANGED <<rate, tokens, since, level>>
    BY DEF WakeUp, GiveUp, Wait
  <2>8. \A w \in Waiter : WakeUp(w) \/ GiveUp(w) => UNCHANGED <<rate, tokens, since, level>>
    BY DEF WakeUp, GiveUp
  <2>9. UNCHANGED vars => UNCHANGED <<rate, tokens, since, level>>
    BY DEF vars
  <2> QED BY <2>1, <2>2, <2>3, <2>4, <2>5, <2>6, <2>7, <2>8, <2>9 DEF Next, Check
<1> QED BY <1>1, <1>2, TypeCorrect, PTL DEF Spec

\* All connections of a user together stay within the user's speed limit.
THEOREM SpeedLimitKept == Spec => []LimitKept
<1>1. TypeOK /\ BurstShared => LimitKept
  <2> SUFFICES ASSUME TypeOK, BurstShared, rate > 0 PROVE level <= Full(rate)
    BY DEF LimitKept
  <2>1. Refilled \in 0..Full(rate) /\ level \in Nat /\ Full(rate) \in Nat
    BY BucketAssumption, RefilledType DEF TypeOK, Full
  <2> QED BY <2>1 DEF BurstShared
<1> QED BY <1>1, TypeCorrect, BurstIsShared, PTL
=============================================================================
