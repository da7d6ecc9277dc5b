----------------------------- MODULE EdgeProofs -----------------------------
(***************************************************************************)
(* Proofs about Edge, for every number of connections, every limit and     *)
(* timeout, and any loss of calls.                                         *)
(***************************************************************************)
EXTENDS Edge, FiniteSetTheorems, TLAPS

LEMMA Bounds ==
    /\ MaxIps \in Nat /\ HbEvery \in Nat /\ StaleAfter \in Nat /\ PostTimeout \in Nat
    /\ MaxFailures \in Nat /\ MaxFailures > 0 /\ Latency \in Nat /\ MaxDial \in Nat
    /\ LossesInRow \in Nat /\ MaxBytes \in Nat
    /\ Latency <= PostTimeout /\ PostTimeout < HbEvery
BY EdgeAssumption

\* While a heartbeat is on its way its ticker runs beside it.
Beat(c) == hb[c] = "posting" => timer[c] + spent[c].ping = HbEvery

\* What is counted, about to be counted or posted has been forwarded.
Posted(c) == IF hb[c] = "posting" THEN held[c] ELSE 0
Balance(c) == count[c] + loose[c] + Posted(c) <= wire[c]

TypeInv == TypeOK /\ \A c \in Conn : Beat(c) /\ Balance(c)

Spent == [ping : 0..PostTimeout, call : Nat]

LEMMA SpentChange ==
    ASSUME NEW s \in Spent, NEW n \in Nat, NEW p \in 0..PostTimeout
    PROVE  /\ [s EXCEPT !.call = n] \in Spent /\ [s EXCEPT !.ping = p] \in Spent
           /\ [s EXCEPT !.call = n].call = n /\ [s EXCEPT !.call = n].ping = s.ping
           /\ [s EXCEPT !.ping = p].ping = p /\ [s EXCEPT !.ping = p].call = s.call
BY DEF Spent

LEMMA TypeFacts ==
    ASSUME TypeOK
    PROVE  /\ count \in [Conn -> 0..MaxBytes] /\ held \in [Conn -> 0..MaxBytes]
           /\ last \in [Conn -> 0..MaxBytes] /\ wire \in [Conn -> 0..MaxBytes]
           /\ spent \in [Conn -> Spent]
           /\ \A d \in Conn :
                 /\ count[d] \in Nat /\ held[d] \in Nat /\ last[d] \in Nat /\ wire[d] \in Nat
                 /\ loose[d] \in Nat /\ charged[d] \in Nat /\ idle[d] \in Nat
                 /\ timer[d] \in Nat /\ timer[d] <= HbEvery
                 /\ failures[d] \in Nat /\ failures[d] <= MaxFailures
                 /\ spent[d] \in Spent /\ spent[d].ping \in Nat /\ spent[d].ping <= PostTimeout
                 /\ spent[d].call \in Nat
                 /\ overtime[d].ended \in Nat /\ overtime[d].refused \in Nat
<1>1. /\ count \in [Conn -> 0..MaxBytes] /\ held \in [Conn -> 0..MaxBytes]
      /\ last \in [Conn -> 0..MaxBytes] /\ wire \in [Conn -> 0..MaxBytes]
  BY DEF TypeOK
<1>2. spent \in [Conn -> Spent]
  BY DEF TypeOK, Spent
<1>3. ASSUME NEW d \in Conn
      PROVE  /\ count[d] \in Nat /\ held[d] \in Nat /\ last[d] \in Nat /\ wire[d] \in Nat
             /\ spent[d] \in Spent /\ spent[d].ping \in Nat /\ spent[d].ping <= PostTimeout
             /\ spent[d].call \in Nat
  BY <1>1, <1>2, Bounds DEF Spent
<1>4. /\ loose \in [Conn -> 0..1] /\ charged \in [Conn -> Nat]
      /\ idle \in [Conn -> 0..StaleAfter + 1] /\ timer \in [Conn -> 0..HbEvery]
      /\ failures \in [Conn -> 0..MaxFailures]
      /\ overtime \in [Conn -> [ended : Nat, refused : Nat]]
  BY DEF TypeOK
<1>5. ASSUME NEW d \in Conn
      PROVE  /\ loose[d] \in Nat /\ charged[d] \in Nat /\ idle[d] \in Nat
             /\ timer[d] \in Nat /\ timer[d] <= HbEvery
             /\ failures[d] \in Nat /\ failures[d] <= MaxFailures
             /\ overtime[d].ended \in Nat /\ overtime[d].refused \in Nat
  BY <1>4, Bounds
<1> QED BY <1>1, <1>2, <1>3, <1>5

LEMMA TurnEffect ==
    ASSUME TypeOK, NEW c \in Conn, NEW g \in Stages, Turn(c, g)
    PROVE  /\ gw' \in [Conn -> Stages] /\ spent' \in [Conn -> Spent]
           /\ gw'[c] = g /\ spent'[c].call = 0 /\ spent'[c].ping = spent[c].ping
           /\ \A d \in Conn \ {c} : gw'[d] = gw[d] /\ spent'[d] = spent[d]
<1> DEFINE s == [spent[c] EXCEPT !.call = 0]
<1>1. spent[c] \in Spent /\ s \in Spent /\ s.call = 0 /\ s.ping = spent[c].ping
  <2>1. 0 \in 0..PostTimeout /\ 0 \in Nat /\ spent[c] \in Spent
    BY Bounds, TypeFacts
  <2> QED BY <2>1, SpentChange
<1>2. spent' = [spent EXCEPT ![c] = s] /\ gw' = [gw EXCEPT ![c] = g]
  BY DEF Turn
<1> HIDE DEF s
<1> QED BY <1>1, <1>2 DEF TypeOK, Spent

LEMMA ProceedEffect ==
    ASSUME TypeOK, NEW c \in Conn, NEW stop \in BOOLEAN, NEW n \in Nat, Proceed(c, stop, n),
           stop \/ n <= MaxFailures
    PROVE  /\ hb' \in [Conn -> {"off", "waiting", "posting"}] /\ cancelled' \in [Conn -> BOOLEAN]
           /\ failures' \in [Conn -> 0..MaxFailures] /\ timer' \in [Conn -> 0..HbEvery]
           /\ spent' \in [Conn -> Spent]
           /\ spent'[c].ping = 0 /\ spent'[c].call = spent[c].call
           /\ \/ /\ stop \/ cancelled[c]
                 /\ hb'[c] = "off" /\ cancelled'[c] /\ failures'[c] = 0 /\ timer'[c] = 0
              \/ /\ ~stop /\ ~cancelled[c]
                 /\ hb'[c] = "waiting" /\ ~cancelled'[c] /\ failures'[c] = n /\ timer'[c] = timer[c]
           /\ \A d \in Conn \ {c} :
                 /\ hb'[d] = hb[d] /\ cancelled'[d] = cancelled[d] /\ failures'[d] = failures[d]
                 /\ timer'[d] = timer[d] /\ spent'[d] = spent[d]
<1> DEFINE s == [spent[c] EXCEPT !.ping = 0]
           ends == stop \/ cancelled[c]
<1>1. spent[c] \in Spent /\ s \in Spent /\ s.ping = 0 /\ s.call = spent[c].call
  BY Bounds, SpentChange DEF TypeOK, Spent
<1>2. /\ spent' = [spent EXCEPT ![c] = s]
      /\ hb' = [hb EXCEPT ![c] = IF ends THEN "off" ELSE "waiting"]
      /\ cancelled' = [cancelled EXCEPT ![c] = ends]
      /\ failures' = [failures EXCEPT ![c] = IF ends THEN 0 ELSE n]
      /\ timer' = [timer EXCEPT ![c] = IF ends THEN 0 ELSE timer[c]]
  BY DEF Proceed
<1> HIDE DEF s
<1>3. /\ spent' \in [Conn -> Spent] /\ spent'[c] = s
      /\ \A d \in Conn \ {c} : spent'[d] = spent[d]
  BY <1>1, <1>2 DEF TypeOK, Spent
<1>4. ends \in BOOLEAN /\ cancelled' \in [Conn -> BOOLEAN]
      /\ (cancelled'[c] <=> ends) /\ \A d \in Conn \ {c} : cancelled'[d] = cancelled[d]
  BY <1>2 DEF TypeOK
<1>5. CASE ends
  BY <1>1, <1>2, <1>3, <1>4, <1>5, Bounds DEF TypeOK
<1>6. CASE ~ends
  BY <1>1, <1>2, <1>3, <1>4, <1>6, Bounds DEF TypeOK
<1> QED BY <1>5, <1>6
-----------------------------------------------------------------------------
(***************************************************************************)
(* Types.  The steps of the control plane, of the handler, of the relay    *)
(* and of the heartbeat, then the network and the clock.                   *)
(***************************************************************************)
Served(c) == ServeAuthorize(c) \/ ServeHeartbeat(c) \/ ServeClose(c)
Handled(c) == Connect(c) \/ Handler(c) \/ RelayEnds(c)
Relayed(c) == Forward(c) \/ Count(c)

LEMMA StepForms ==
    ASSUME [Next]_vars
    PROVE  \/ \E c \in Conn : Served(c) \/ Handled(c) \/ Relayed(c) \/ Heart(c) \/ Lose(c)
           \/ Sweep \/ SetAllowed \/ Clock \/ UNCHANGED vars
BY DEF Next, Serve, Served, Handled, Relayed

LEMMA SweptType == TypeOK => Swept \in [Conn -> {"none", "open", "ended"}]
BY DEF Swept, TypeOK

LEMMA ServedType ==
    ASSUME TypeInv, NEW c \in Conn, Served(c)
    PROVE  TypeInv'
<1>0. TypeOK /\ 0 \in 0..StaleAfter + 1
  BY Bounds DEF TypeInv
<1>1. CASE ServeAuthorize(c)
  <2>1. row' \in [Conn -> {"none", "open", "ended"}]
    BY <1>0, <1>1, SweptType DEF ServeAuthorize
  <2>2. idle' \in [Conn -> 0..StaleAfter + 1] /\ call' \in [Conn -> Calls]
    <3>1. idle \in [Conn -> 0..StaleAfter + 1] /\ call \in [Conn -> Calls]
          /\ "admitted" \in Calls /\ "denied" \in Calls
      BY <1>0 DEF TypeOK, Calls
    <3>2. CASE Admissible(c)
      BY <1>0, <1>1, <3>1, <3>2 DEF ServeAuthorize
    <3>3. CASE ~Admissible(c)
      BY <1>0, <1>1, <3>1, <3>3 DEF ServeAuthorize
    <3> QED BY <3>2, <3>3
  <2> QED BY <1>1, <2>1, <2>2 DEF ServeAuthorize, TypeInv, TypeOK, Beat, Balance, Posted, gwVars, byteVars
<1>2. CASE ServeHeartbeat(c)
  <2>1. charged' \in [Conn -> Nat] /\ idle' \in [Conn -> 0..StaleAfter + 1]
    <3>1. charged \in [Conn -> Nat] /\ idle \in [Conn -> 0..StaleAfter + 1] /\ held[c] \in Nat
          /\ charged[c] + held[c] \in Nat
      BY <1>0, TypeFacts DEF TypeOK
    <3> QED BY <1>0, <1>2, <3>1 DEF ServeHeartbeat
  <2>2. ping' \in [Conn -> Pings]
    <3>1. Verdict \in Pings /\ "missing" \in Pings /\ ping \in [Conn -> Pings]
      BY <1>0 DEF Verdict, Pings, TypeOK
    <3> QED BY <1>2, <3>1 DEF ServeHeartbeat
  <2> QED BY <1>2, <2>1, <2>2 DEF ServeHeartbeat, TypeInv, TypeOK, Beat, Balance, Posted, gwVars, byteVars
<1>3. CASE ServeClose(c)
  <2>1. charged' \in [Conn -> Nat] /\ row' \in [Conn -> {"none", "open", "ended"}]
    <3>1. charged \in [Conn -> Nat] /\ row \in [Conn -> {"none", "open", "ended"}]
          /\ charged[c] + last[c] \in Nat
      BY <1>0, TypeFacts DEF TypeOK
    <3> QED BY <1>3, <3>1 DEF ServeClose
  <2>2. call' \in [Conn -> Calls]
    BY <1>0, <1>3 DEF ServeClose, TypeOK, Calls
  <2> QED BY <1>3, <2>1, <2>2 DEF ServeClose, TypeInv, TypeOK, Beat, Balance, Posted, gwVars, byteVars
<1> QED BY <1>1, <1>2, <1>3 DEF Served

LEMMA HandledType ==
    ASSUME TypeInv, NEW c \in Conn, Handled(c)
    PROVE  TypeInv'
<1>0. TypeOK
  BY DEF TypeInv
<1>1. \E g \in Stages : Turn(c, g)
  BY DEF Handled, Handler, Connect, AuthorizeFails, Dial, DialFails, StartRelay, RelayEnds,
         StartClose, CloseReturns, Stages
<1>2. /\ gw' \in [Conn -> Stages] /\ spent' \in [Conn -> Spent]
      /\ \A d \in Conn : spent'[d].ping = spent[d].ping
  BY <1>0, <1>1, TurnEffect
<1>3. call' \in [Conn -> Calls]
  <2>1. \/ call' = call
        \/ \E v \in {"authorize", "close", "none"} : call' = [call EXCEPT ![c] = v]
    <3>1. AuthorizeFails(c) => \/ call' = [call EXCEPT ![c] = "authorize"]
                               \/ call' = [call EXCEPT ![c] = "none"]
      BY DEF AuthorizeFails
    <3> QED BY <3>1 DEF Handled, Handler, Connect, Dial, DialFails, StartRelay, RelayEnds,
               StartClose, CloseReturns
  <2>2. call \in [Conn -> Calls]
    BY <1>0 DEF TypeOK
  <2> QED BY <2>1, <2>2 DEF Calls
<1>4. CASE StartRelay(c)
  <2>1. hb' \in [Conn -> {"off", "waiting", "posting"}] /\ timer' \in [Conn -> 0..HbEvery]
    BY <1>0, <1>4, Bounds DEF StartRelay, TypeOK
  <2>2. \A d \in Conn : hb'[d] = "posting" => hb[d] = "posting" /\ timer'[d] = timer[d]
    BY <1>0, <1>4 DEF StartRelay, TypeOK
  <2>3. \A d \in Conn : Balance(d)'
    <3>1. \A d \in Conn : held[d] \in Nat /\ count[d] \in Nat /\ loose[d] \in Nat /\ wire[d] \in Nat
      BY <1>0, TypeFacts
    <3>2. UNCHANGED <<loose, count, held, wire>>
      BY <1>4 DEF StartRelay, byteVars
    <3> QED BY <2>2, <3>1, <3>2 DEF TypeInv, Balance, Posted
  <2> QED BY <1>2, <1>3, <1>4, <2>1, <2>2, <2>3
      DEF StartRelay, TypeInv, TypeOK, Spent, Beat, byteVars, rowVars
<1>5. CASE StartClose(c)
  <2>1. /\ last' \in [Conn -> 0..MaxBytes] /\ count' \in [Conn -> 0..MaxBytes]
        /\ \A d \in Conn : count'[d] <= count[d]
    BY <1>0, <1>5, Bounds DEF StartClose, TypeOK
  <2>2. UNCHANGED <<hb, cancelled, timer, failures, loose, held, wire, ping, rowVars, overtime>>
    BY <1>5 DEF StartClose
  <2>3. \A d \in Conn : held[d] \in Nat /\ count[d] \in Nat /\ loose[d] \in Nat /\ wire[d] \in Nat
    BY <1>0, TypeFacts
  <2>4. \A d \in Conn : count'[d] \in Nat /\ Balance(d)'
    BY <2>1, <2>2, <2>3, Bounds DEF TypeInv, Balance, Posted
  <2> QED BY <1>2, <1>3, <2>1, <2>2, <2>4 DEF TypeInv, TypeOK, Spent, Beat, rowVars
<1>6. CASE RelayEnds(c)
  <2>1. cancelled' \in [Conn -> BOOLEAN]
    BY <1>0, <1>6 DEF RelayEnds, TypeOK
  <2> QED BY <1>2, <1>3, <1>6, <2>1
      DEF RelayEnds, TypeInv, TypeOK, Spent, Beat, Balance, Posted, byteVars, rowVars
<1>7. CASE Connect(c) \/ AuthorizeFails(c) \/ Dial(c) \/ DialFails(c) \/ CloseReturns(c)
  <2>1. UNCHANGED <<hb, cancelled, timer, failures, byteVars, ping, rowVars, overtime>>
    BY <1>7 DEF Connect, AuthorizeFails, Dial, DialFails, CloseReturns
  <2> QED BY <1>2, <1>3, <2>1 DEF TypeInv, TypeOK, Spent, Beat, Balance, Posted, byteVars, rowVars
<1> QED BY <1>4, <1>5, <1>6, <1>7 DEF Handled, Handler

LEMMA RelayedType ==
    ASSUME TypeInv, NEW c \in Conn, Relayed(c)
    PROVE  TypeInv'
<1>0. /\ TypeOK
      /\ \A d \in Conn : held[d] \in Nat /\ count[d] \in Nat /\ loose[d] \in Nat /\ wire[d] \in Nat
  BY TypeFacts DEF TypeInv
<1>1. count[c] + loose[c] + Posted(c) <= wire[c] /\ Posted(c) \in Nat /\ wire[c] <= MaxBytes
  BY <1>0, TypeFacts, Bounds DEF TypeInv, Balance, Posted, TypeOK
<1>2. CASE Forward(c)
  <2>1. wire' \in [Conn -> 0..MaxBytes] /\ loose' \in [Conn -> 0..1]
    BY <1>0, <1>2, Bounds DEF Forward, TypeOK
  <2>2. \A d \in Conn : Balance(d)'
    BY <1>0, <1>2 DEF TypeInv, TypeOK, Forward, Balance, Posted, gwVars
  <2> QED BY <1>2, <2>1, <2>2 DEF Forward, TypeInv, TypeOK, Beat, gwVars, netVars, rowVars
<1>3. CASE Count(c)
  <2>1. loose[c] = 1 /\ count[c] + 1 <= MaxBytes
    BY <1>0, <1>1, <1>3, Bounds DEF Count
  <2>2. count' \in [Conn -> 0..MaxBytes] /\ loose' \in [Conn -> 0..1]
    BY <1>0, <1>3, <2>1, Bounds DEF Count, TypeOK
  <2>3. \A d \in Conn : Balance(d)'
    BY <1>0, <1>3, <2>1 DEF TypeInv, TypeOK, Count, Balance, Posted, gwVars
  <2> QED BY <1>3, <2>2, <2>3 DEF Count, TypeInv, TypeOK, Beat, gwVars, netVars, rowVars
<1> QED BY <1>2, <1>3 DEF Relayed

LEMMA HeartType ==
    ASSUME TypeInv, NEW c \in Conn, Heart(c)
    PROVE  TypeInv'
<1>0. /\ TypeOK
      /\ \A d \in Conn : /\ held[d] \in Nat /\ count[d] \in Nat /\ loose[d] \in Nat /\ wire[d] \in Nat
                         /\ Posted(d) \in Nat /\ wire[d] <= MaxBytes /\ Balance(d)
  BY TypeFacts, Bounds DEF TypeInv, Posted, TypeOK
<1>1. CASE HbTick(c)
  <2> DEFINE s == [spent[c] EXCEPT !.ping = 0]
  <2>1. s \in Spent /\ s.ping = 0
    <3>1. 0 \in 0..PostTimeout /\ 0 \in Nat /\ spent[c] \in Spent
      BY <1>0, Bounds, TypeFacts
    <3> QED BY <3>1, SpentChange
  <2>2. spent' = [spent EXCEPT ![c] = s]
    BY <1>1 DEF HbTick
  <2> HIDE DEF s
  <2>3. /\ spent' \in [Conn -> Spent] /\ spent'[c].ping = 0
        /\ \A d \in Conn \ {c} : spent'[d] = spent[d]
    BY <1>0, <2>1, <2>2, TypeFacts
  <2>4. /\ hb' \in [Conn -> {"off", "waiting", "posting"}] /\ timer' \in [Conn -> 0..HbEvery]
        /\ held' \in [Conn -> 0..MaxBytes] /\ count' \in [Conn -> 0..MaxBytes]
        /\ hb'[c] = "posting" /\ timer'[c] = HbEvery /\ held'[c] = count[c] /\ count'[c] = 0
        /\ \A d \in Conn \ {c} : /\ hb'[d] = hb[d] /\ timer'[d] = timer[d]
                                 /\ held'[d] = held[d] /\ count'[d] = count[d]
    BY <1>0, <1>1, Bounds DEF HbTick, Taken, TypeOK
  <2>5. ping' \in [Conn -> Pings]
    <3>1. ping \in [Conn -> Pings] /\ "lost" \in Pings /\ "request" \in Pings
      BY <1>0 DEF TypeOK, Pings
    <3> QED BY <1>1, <3>1 DEF HbTick
  <2>6. UNCHANGED <<gw, cancelled, failures, loose, last, wire, call, rowVars, overtime>>
    BY <1>1 DEF HbTick
  <2>7. \A d \in Conn : Beat(d)'
    BY <2>3, <2>4, Bounds DEF TypeInv, Beat
  <2>8. \A d \in Conn : Balance(d)'
    BY <1>0, <2>4, <2>6 DEF Balance, Posted
  <2> QED BY <1>0, <2>3, <2>4, <2>5, <2>6, <2>7, <2>8 DEF TypeInv, TypeOK, Spent, rowVars
<1>2. ASSUME NEW stop \in BOOLEAN, NEW n \in Nat, Proceed(c, stop, n), stop \/ n <= MaxFailures,
             ping' \in [Conn -> Pings], count' \in [Conn -> 0..MaxBytes],
             \A d \in Conn \ {c} : count'[d] = count[d],
             count'[c] <= count[c] + Posted(c),
             UNCHANGED <<gw, loose, held, last, wire, call, rowVars, overtime>>
      PROVE  TypeInv'
  <2>1. /\ hb' \in [Conn -> {"off", "waiting", "posting"}] /\ cancelled' \in [Conn -> BOOLEAN]
        /\ failures' \in [Conn -> 0..MaxFailures] /\ timer' \in [Conn -> 0..HbEvery]
        /\ spent' \in [Conn -> Spent] /\ hb'[c] # "posting"
        /\ \A d \in Conn \ {c} : hb'[d] = hb[d] /\ timer'[d] = timer[d] /\ spent'[d] = spent[d]
    BY <1>0, <1>2, ProceedEffect
  <2>2. \A d \in Conn : Beat(d)'
    BY <2>1 DEF TypeInv, Beat
  <2>3. ASSUME NEW d \in Conn PROVE Balance(d)'
    <3>1. CASE d = c
      <4>1. count'[c] \in Nat
        BY <1>2, Bounds
      <4> QED BY <1>0, <1>2, <2>1, <3>1, <4>1 DEF Balance, Posted
    <3>2. CASE d # c
      BY <1>0, <1>2, <2>1, <3>2 DEF Balance, Posted
    <3> QED BY <3>1, <3>2
  <2> QED BY <1>0, <1>2, <2>1, <2>2, <2>3 DEF TypeInv, TypeOK, Spent, rowVars
<1>3. ping \in [Conn -> Pings] /\ "none" \in Pings /\ count \in [Conn -> 0..MaxBytes]
  BY <1>0 DEF TypeOK, Pings
<1>4. CASE HbAnswered(c)
  <2>1. (ping[c] = "stop") \in BOOLEAN /\ Proceed(c, ping[c] = "stop", 0)
    BY <1>4 DEF HbAnswered
  <2>2. PICK stop \in BOOLEAN : Proceed(c, stop, 0)
    BY <2>1, Zenon
  <2>3. ping' \in [Conn -> Pings] /\ UNCHANGED <<gw, loose, count, held, last, wire, call, rowVars, overtime>>
    BY <1>3, <1>4 DEF HbAnswered, byteVars
  <2>4. 0 \in Nat /\ 0 <= MaxFailures /\ count'[c] <= count[c] + Posted(c)
    BY <1>0, <2>3, Bounds
  <2> QED BY <1>2, <1>3, <2>2, <2>3, <2>4
<1>5. CASE HbFailed(c)
  <2> DEFINE n == failures[c] + 1
  <2>1. n \in Nat /\ TooMany(n) \in BOOLEAN /\ (TooMany(n) \/ n <= MaxFailures)
    BY <1>0, TypeFacts, Bounds DEF TooMany
  <2>2. Proceed(c, TooMany(n), n) /\ hb[c] = "posting"
    BY <1>5 DEF HbFailed
  <2>3. ping' \in [Conn -> Pings]
    <3>1. ping' = [ping EXCEPT ![c] = IF ping[c] = "request" THEN ping[c] ELSE "none"]
      BY <1>5 DEF HbFailed
    <3> QED BY <1>3, <3>1
  <2>4. Posted(c) = held[c] /\ count[c] + held[c] \in 0..MaxBytes
    BY <1>0, <2>2, Bounds DEF Balance, Posted
  <2>5. /\ count' \in [Conn -> 0..MaxBytes] /\ count'[c] = count[c] + Posted(c)
        /\ \A d \in Conn \ {c} : count'[d] = count[d]
    BY <1>3, <1>5, <2>4 DEF HbFailed, Restored
  <2>6. UNCHANGED <<gw, loose, held, last, wire, call, rowVars, overtime>>
    BY <1>5 DEF HbFailed
  <2> HIDE DEF n
  <2>7. count'[c] <= count[c] + Posted(c)
    BY <1>0, <2>5
  <2> QED BY <1>2, <2>1, <2>2, <2>3, <2>5, <2>6, <2>7
<1>6. CASE HbStops(c)
  <2>1. TRUE \in BOOLEAN /\ 0 \in Nat /\ Proceed(c, TRUE, 0)
    BY <1>6 DEF HbStops
  <2>2. UNCHANGED <<ping, gw, loose, count, held, last, wire, call, rowVars, overtime>>
    BY <1>6 DEF HbStops, byteVars
  <2>3. PICK stop \in BOOLEAN : Proceed(c, stop, 0)
    BY <2>1, Zenon
  <2>4. 0 \in Nat /\ 0 <= MaxFailures /\ count'[c] <= count[c] + Posted(c)
    BY <1>0, <2>2, Bounds
  <2> QED BY <1>2, <1>3, <2>2, <2>3, <2>4
<1> QED BY <1>1, <1>4, <1>5, <1>6 DEF Heart

LEMMA LoseType ==
    ASSUME TypeInv, NEW c \in Conn, Lose(c)
    PROVE  TypeInv'
<1>1. ping \in [Conn -> Pings] /\ call \in [Conn -> Calls]
      /\ {"lost", "none"} \subseteq Pings /\ "lost" \in Calls
  BY DEF TypeInv, TypeOK, Pings, Calls
<1>2. ping' \in [Conn -> Pings] /\ call' \in [Conn -> Calls]
  BY <1>1 DEF Lose
<1> QED BY <1>2 DEF Lose, TypeInv, TypeOK, Beat, Balance, Posted, gwVars, byteVars, rowVars

\* What a unit of time does to a connection.
LEMMA ClockEffect ==
    ASSUME TypeInv, Clock, NEW c \in Conn
    PROVE  /\ timer'[c] = IF hb[c] = "off" THEN timer[c] ELSE timer[c] - 1
           /\ hb[c] # "off" => timer[c] > 0
           /\ spent'[c].ping = IF hb[c] = "posting" THEN spent[c].ping + 1 ELSE spent[c].ping
           /\ spent'[c].call = IF gw[c] \in {"authorizing", "dialing", "closing"}
                               THEN spent[c].call + 1 ELSE spent[c].call
           /\ spent'[c] \in Spent
           /\ idle'[c] \in Nat /\ idle'[c] <= idle[c] + 1
           /\ overtime'[c] \in [ended : Nat, refused : Nat]
           /\ overtime'[c].ended = IF gw[c] = "relaying" /\ row[c] = "ended"
                                   THEN overtime[c].ended + 1 ELSE 0
           /\ overtime'[c].refused = IF gw[c] = "relaying" /\ ~allowed
                                     THEN overtime[c].refused + 1 ELSE 0
<1>0. TypeOK /\ Beat(c) /\ Patient(c)
  BY DEF TypeInv, Clock
<1>1. timer'[c] = IF hb[c] = "off" THEN timer[c] ELSE timer[c] - 1
  BY DEF Clock
<1>2. /\ spent'[c].ping = IF hb[c] = "posting" THEN spent[c].ping + 1 ELSE spent[c].ping
      /\ spent'[c].call = IF gw[c] \in {"authorizing", "dialing", "closing"}
                          THEN spent[c].call + 1 ELSE spent[c].call
      /\ spent'[c] = [ping |-> spent'[c].ping, call |-> spent'[c].call]
  BY DEF Clock
<1>3. hb[c] = "posting" => spent[c].ping + 1 <= PostTimeout
  BY <1>0, Bounds, TypeFacts DEF Patient, Patience
<1>4. spent'[c] \in Spent
  BY <1>0, <1>2, <1>3, TypeFacts DEF Spent
<1>5. hb[c] # "off" => timer[c] > 0
  BY <1>0, <1>3, Bounds, TypeFacts DEF Patient, Beat, TypeOK
<1>6. idle'[c] \in Nat /\ idle'[c] <= idle[c] + 1
  BY <1>0, TypeFacts DEF Clock, Up
<1>7. /\ overtime'[c].ended = IF gw[c] = "relaying" /\ row[c] = "ended"
                              THEN overtime[c].ended + 1 ELSE 0
      /\ overtime'[c].refused = IF gw[c] = "relaying" /\ ~allowed
                                THEN overtime[c].refused + 1 ELSE 0
      /\ overtime'[c] = [ended |-> overtime'[c].ended, refused |-> overtime'[c].refused]
  BY DEF Clock
<1>8. overtime'[c] \in [ended : Nat, refused : Nat]
  BY <1>0, <1>7, TypeFacts
<1> QED BY <1>1, <1>2, <1>4, <1>5, <1>6, <1>7, <1>8

LEMMA ClockType ==
    ASSUME TypeInv, Clock
    PROVE  TypeInv'
<1>0. TypeOK
  BY DEF TypeInv
<1>1. timer' \in [Conn -> 0..HbEvery]
  <2>1. \A d \in Conn : timer'[d] \in 0..HbEvery
    BY <1>0, ClockEffect, TypeFacts, Bounds
  <2>2. timer' = [d \in Conn |-> timer'[d]]
    BY DEF Clock
  <2> QED BY <2>1, <2>2
<1>2. spent' \in [Conn -> Spent]
  <2>1. spent' = [d \in Conn |-> spent'[d]]
    BY DEF Clock
  <2> QED BY <2>1, ClockEffect
<1>3. idle' \in [Conn -> 0..StaleAfter + 1]
  <2>1. \A d \in Conn : idle[d] \in 0..StaleAfter + 1
    BY <1>0 DEF TypeOK
  <2> QED BY <2>1, Bounds DEF Clock, Up
<1>4. overtime' \in [Conn -> [ended : Nat, refused : Nat]]
  <2>1. overtime' = [d \in Conn |-> overtime'[d]]
    BY DEF Clock
  <2> QED BY <2>1, ClockEffect
<1>5. UNCHANGED <<gw, hb, cancelled, failures, byteVars, ping, call, row, charged, allowed>>
  BY DEF Clock
<1>6. ASSUME NEW d \in Conn PROVE Beat(d)'
  <2> SUFFICES ASSUME hb[d] = "posting" PROVE timer'[d] + spent'[d].ping = HbEvery
    BY <1>5 DEF Beat
  <2>1. timer'[d] = timer[d] - 1 /\ spent'[d].ping = spent[d].ping + 1
    BY ClockEffect
  <2>2. timer[d] + spent[d].ping = HbEvery /\ timer[d] \in Nat /\ spent[d].ping \in Nat
    BY <1>0, TypeFacts DEF TypeInv, Beat
  <2> QED BY <2>1, <2>2, Bounds
<1>7. \A d \in Conn : Balance(d)'
  BY <1>5 DEF TypeInv, Balance, Posted, byteVars
<1> QED BY <1>0, <1>1, <1>2, <1>3, <1>4, <1>5, <1>6, <1>7 DEF TypeInv, TypeOK, Spent, byteVars

LEMMA TypeStep == TypeInv /\ [Next]_vars => TypeInv'
<1> SUFFICES ASSUME TypeInv, [Next]_vars PROVE TypeInv'
  OBVIOUS
<1>1. CASE UNCHANGED vars
  BY <1>1 DEF vars, gwVars, byteVars, netVars, rowVars, TypeInv, TypeOK, Beat, Balance, Posted
<1>2. CASE Sweep
  BY <1>2, SweptType DEF Sweep, TypeInv, TypeOK, Beat, Balance, Posted, gwVars, byteVars, netVars
<1>3. CASE SetAllowed
  <2>1. overtime' \in [Conn -> [ended : Nat, refused : Nat]] /\ allowed' \in BOOLEAN
    BY <1>3 DEF SetAllowed, TypeInv, TypeOK
  <2> QED BY <1>3, <2>1 DEF SetAllowed, TypeInv, TypeOK, Beat, Balance, Posted, gwVars, byteVars, netVars
<1> QED BY <1>1, <1>2, <1>3, StepForms, ServedType, HandledType, RelayedType, HeartType, LoseType, ClockType

LEMMA TypeFirst == Init => TypeInv
<1> SUFFICES ASSUME Init PROVE TypeInv
  OBVIOUS
<1> DEFINE zero == [c \in Conn |-> 0]
<1>1. TypeOK
  BY Bounds DEF Init, TypeOK, Stages, Pings, Calls
<1>2. \A c \in Conn : Beat(c) /\ Balance(c)
  BY DEF Init, Beat, Balance, Posted
<1> QED BY <1>1, <1>2 DEF TypeInv

LEMMA TypeAlways == Spec => []TypeInv
BY TypeFirst, TypeStep, PTL DEF Spec

\* Every clock, counter and call stays in its range: a heartbeat is answered or
\* given up before its next tick, and no more is counted than was forwarded.
THEOREM TypeCorrect == Spec => []TypeOK
<1>1. TypeInv => TypeOK
  BY DEF TypeInv
<1> QED BY <1>1, TypeAlways, PTL
-----------------------------------------------------------------------------
(***************************************************************************)
(* What the steps do to one connection, c, and that they leave the         *)
(* goroutines, calls and bytes of every other one alone.                   *)
(***************************************************************************)
Still(d) ==
    /\ gw'[d] = gw[d] /\ hb'[d] = hb[d] /\ cancelled'[d] = cancelled[d]
    /\ timer'[d] = timer[d] /\ failures'[d] = failures[d]
    /\ loose'[d] = loose[d] /\ count'[d] = count[d] /\ held'[d] = held[d] /\ wire'[d] = wire[d]
    /\ ping'[d] = ping[d] /\ call'[d] = call[d] /\ spent'[d] = spent[d]
    /\ charged'[d] = charged[d]

OthersStill(c) == \A d \in Conn \ {c} : Still(d)

\* The handler's calls come in this order, and the heartbeat begins with the
\* relay.
HandlerMoves(c) ==
    \/ /\ gw[c] = "idle" /\ gw'[c] = "authorizing" /\ call'[c] = "authorize"
    \/ /\ gw[c] = "authorizing" /\ gw'[c] = "done"
       /\ call'[c] = IF call[c] = "authorize" THEN "authorize" ELSE "none"
    \/ /\ gw[c] = "authorizing" /\ call[c] = "admitted"
       /\ gw'[c] = "dialing" /\ call'[c] = "none"
    \/ /\ gw[c] = "dialing" /\ gw'[c] = "closing" /\ call'[c] = "close"
    \/ /\ gw[c] = "ending" /\ gw'[c] = "closing" /\ call'[c] = "close"
    \/ /\ gw[c] = "closing" /\ gw'[c] = "done" /\ call'[c] = "none"

LEMMA HandledEffect ==
    ASSUME TypeInv, NEW c \in Conn, Handled(c)
    PROVE  /\ OthersStill(c)
           /\ UNCHANGED <<failures, loose, held, wire, ping, row, idle, charged, allowed, overtime>>
           /\ spent'[c].ping = spent[c].ping /\ spent'[c].call = 0
           /\ \/ /\ HandlerMoves(c)
                 /\ hb'[c] = hb[c] /\ cancelled'[c] = cancelled[c] /\ timer'[c] = timer[c]
              \/ /\ gw[c] = "dialing" /\ gw'[c] = "relaying" /\ call'[c] = call[c]
                 /\ hb'[c] = "waiting" /\ timer'[c] = HbEvery /\ cancelled'[c] = cancelled[c]
                 /\ count'[c] = count[c]
              \/ /\ gw[c] = "relaying" /\ gw'[c] = "ending" /\ call'[c] = call[c]
                 /\ cancelled'[c] /\ hb'[c] = hb[c]
<1>0. TypeOK
  BY DEF TypeInv
<1>1. \E g \in Stages : Turn(c, g)
  BY DEF Handled, Handler, Connect, AuthorizeFails, Dial, DialFails, StartRelay, RelayEnds,
         StartClose, CloseReturns, Stages
<1>2. /\ spent'[c].ping = spent[c].ping /\ spent'[c].call = 0
      /\ \A d \in Conn \ {c} : gw'[d] = gw[d] /\ spent'[d] = spent[d]
  BY <1>0, <1>1, TurnEffect
<1>3. /\ call \in [Conn -> Calls] /\ gw \in [Conn -> Stages] /\ count \in [Conn -> 0..MaxBytes]
      /\ hb \in [Conn -> {"off", "waiting", "posting"}] /\ cancelled \in [Conn -> BOOLEAN]
      /\ timer \in [Conn -> 0..HbEvery]
  BY <1>0 DEF TypeOK
<1>4. CASE StartRelay(c)
  BY <1>2, <1>3, <1>4 DEF StartRelay, Turn, OthersStill, Still, byteVars, rowVars
<1>5. CASE RelayEnds(c)
  BY <1>2, <1>3, <1>5 DEF RelayEnds, Turn, OthersStill, Still, byteVars, rowVars
<1>6. CASE StartClose(c)
  <2>1. HandlerMoves(c)
    BY <1>3, <1>6 DEF StartClose, Turn, HandlerMoves
  <2> QED BY <1>2, <1>3, <1>6, <2>1 DEF StartClose, OthersStill, Still, rowVars
<1>7. CASE Connect(c) \/ AuthorizeFails(c) \/ Dial(c) \/ DialFails(c) \/ CloseReturns(c)
  <2>1. UNCHANGED <<hb, cancelled, timer, failures, byteVars, ping, rowVars, overtime>>
    BY <1>7 DEF Connect, AuthorizeFails, Dial, DialFails, CloseReturns
  <2>2. HandlerMoves(c)
    BY <1>3, <1>7 DEF Connect, AuthorizeFails, Dial, DialFails, CloseReturns, Turn, HandlerMoves
  <2>3. \A d \in Conn \ {c} : call'[d] = call[d]
    BY <1>3, <1>7 DEF Connect, AuthorizeFails, Dial, DialFails, CloseReturns
  <2> QED BY <1>2, <2>1, <2>2, <2>3 DEF OthersStill, Still, byteVars, rowVars
<1> QED BY <1>4, <1>5, <1>6, <1>7 DEF Handled, Handler

\* The heartbeat goroutine goes on to its next tick with n failures, or ends and
\* has the context cancelled.
GoesOn(c, n) ==
    /\ hb'[c] = "waiting" /\ ~cancelled[c] /\ ~cancelled'[c]
    /\ failures'[c] = n /\ timer'[c] = timer[c]

EndsLoop(c) == hb'[c] = "off" /\ cancelled'[c] /\ failures'[c] = 0

HeartMoves(c) ==
    \/ /\ hb[c] = "waiting" /\ timer[c] = 0
       /\ hb'[c] = "posting" /\ timer'[c] = HbEvery /\ spent'[c].ping = 0
       /\ held'[c] = count[c] /\ count'[c] = 0
       /\ ping'[c] = IF cancelled[c] THEN "lost" ELSE "request"
       /\ cancelled'[c] = cancelled[c] /\ failures'[c] = failures[c]
    \/ /\ hb[c] = "posting" /\ ping[c] = "continue"
       /\ GoesOn(c, 0) /\ count'[c] = count[c]
    \/ /\ hb[c] = "posting" /\ ping[c] \in {"missing", "lost"}
       /\ GoesOn(c, failures[c] + 1) /\ failures[c] + 1 < MaxFailures
       /\ count'[c] = count[c] + held[c]
    \/ hb[c] # "off" /\ EndsLoop(c)

LEMMA HeartEffect ==
    ASSUME TypeInv, NEW c \in Conn, Heart(c)
    PROVE  /\ OthersStill(c)
           /\ UNCHANGED <<gw, loose, wire, call, row, idle, charged, allowed, overtime>>
           /\ spent'[c].call = spent[c].call
           /\ HeartMoves(c)
<1>0. /\ TypeOK /\ failures[c] \in Nat
      /\ count \in [Conn -> 0..MaxBytes] /\ held \in [Conn -> 0..MaxBytes]
      /\ ping \in [Conn -> Pings] /\ hb \in [Conn -> {"off", "waiting", "posting"}]
      /\ timer \in [Conn -> 0..HbEvery]
  BY TypeFacts DEF TypeInv, TypeOK
<1>1. CASE HbTick(c)
  <2> DEFINE s == [spent[c] EXCEPT !.ping = 0]
  <2>1. s.ping = 0 /\ s.call = spent[c].call /\ spent' = [spent EXCEPT ![c] = s]
    <3>1. 0 \in 0..PostTimeout /\ 0 \in Nat /\ spent[c] \in Spent
      BY <1>0, Bounds, TypeFacts
    <3> QED BY <1>1, <3>1, SpentChange DEF HbTick
  <2> HIDE DEF s
  <2>2. /\ spent'[c].ping = 0 /\ spent'[c].call = spent[c].call
        /\ \A d \in Conn \ {c} : spent'[d] = spent[d]
    BY <1>0, <2>1, TypeFacts
  <2>3. UNCHANGED <<gw, cancelled, failures, loose, wire, call, row, idle, charged, allowed, overtime>>
    BY <1>1 DEF HbTick, rowVars
  <2>4. /\ hb[c] = "waiting" /\ timer[c] = 0
        /\ hb'[c] = "posting" /\ timer'[c] = HbEvery
        /\ held'[c] = count[c] /\ count'[c] = 0
        /\ ping'[c] = IF cancelled[c] THEN "lost" ELSE "request"
    BY <1>0, <1>1 DEF HbTick, Taken
  <2>5. OthersStill(c)
    BY <1>0, <1>1, <2>2, <2>3 DEF HbTick, OthersStill, Still
  <2> QED BY <2>2, <2>3, <2>4, <2>5 DEF HeartMoves
<1>2. ASSUME NEW stop \in BOOLEAN, NEW n \in Nat, Proceed(c, stop, n), stop \/ n <= MaxFailures
      PROVE  /\ spent'[c].call = spent[c].call
             /\ EndsLoop(c) \/ (~stop /\ GoesOn(c, n))
             /\ \A d \in Conn \ {c} :
                   /\ hb'[d] = hb[d] /\ cancelled'[d] = cancelled[d] /\ failures'[d] = failures[d]
                   /\ timer'[d] = timer[d] /\ spent'[d] = spent[d]
  <2>1. TypeOK
    BY <1>0
  <2> QED BY <1>2, <2>1, ProceedEffect, Zenon DEF EndsLoop, GoesOn
<1>3. CASE HbAnswered(c)
  <2>1. (ping[c] = "stop") \in BOOLEAN /\ Proceed(c, ping[c] = "stop", 0)
    BY <1>3 DEF HbAnswered
  <2>2. PICK stop \in BOOLEAN : Proceed(c, stop, 0) /\ (stop <=> ping[c] = "stop")
    BY <2>1, Zenon
  <2>3. 0 \in Nat /\ 0 <= MaxFailures
    BY Bounds
  <2>4. /\ spent'[c].call = spent[c].call
        /\ EndsLoop(c) \/ (~stop /\ GoesOn(c, 0))
        /\ \A d \in Conn \ {c} :
              /\ hb'[d] = hb[d] /\ cancelled'[d] = cancelled[d] /\ failures'[d] = failures[d]
              /\ timer'[d] = timer[d] /\ spent'[d] = spent[d]
    BY <1>2, <2>2, <2>3
  <2>5. /\ UNCHANGED <<gw, loose, count, held, wire, call, row, idle, charged, allowed, overtime>>
        /\ hb[c] = "posting" /\ ping[c] \in {"continue", "stop"}
        /\ \A d \in Conn \ {c} : ping'[d] = ping[d]
    BY <1>0, <1>3 DEF HbAnswered, byteVars, rowVars
  <2>6. HeartMoves(c)
    BY <2>2, <2>4, <2>5 DEF HeartMoves
  <2> QED BY <2>4, <2>5, <2>6 DEF OthersStill, Still
<1>4. CASE HbFailed(c)
  <2> DEFINE n == failures[c] + 1
  <2>1. TooMany(n) \in BOOLEAN /\ Proceed(c, TooMany(n), n)
    BY <1>4 DEF HbFailed, TooMany
  <2>2. PICK stop \in BOOLEAN : Proceed(c, stop, n) /\ (stop <=> TooMany(n))
    BY <2>1, Zenon
  <2>3. n \in Nat /\ (stop \/ n < MaxFailures) /\ (stop \/ n <= MaxFailures)
    BY <1>0, <2>2, Bounds DEF TooMany
  <2>4. /\ spent'[c].call = spent[c].call
        /\ EndsLoop(c) \/ (~stop /\ GoesOn(c, n))
        /\ \A d \in Conn \ {c} :
              /\ hb'[d] = hb[d] /\ cancelled'[d] = cancelled[d] /\ failures'[d] = failures[d]
              /\ timer'[d] = timer[d] /\ spent'[d] = spent[d]
    BY <1>2, <2>2, <2>3
  <2>5. /\ UNCHANGED <<gw, loose, held, wire, call, row, idle, charged, allowed, overtime>>
        /\ hb[c] = "posting" /\ (ping[c] \in {"missing", "lost"} \/ cancelled[c])
        /\ count'[c] = count[c] + held[c]
        /\ \A d \in Conn \ {c} : ping'[d] = ping[d] /\ count'[d] = count[d]
    BY <1>0, <1>4 DEF HbFailed, Restored, rowVars
  <2>6. HeartMoves(c)
    BY <2>3, <2>4, <2>5 DEF HeartMoves, GoesOn
  <2> QED BY <2>4, <2>5, <2>6 DEF OthersStill, Still
<1>5. CASE HbStops(c)
  <2>1. TRUE \in BOOLEAN /\ Proceed(c, TRUE, 0)
    BY <1>5 DEF HbStops
  <2>2. PICK stop \in BOOLEAN : Proceed(c, stop, 0) /\ stop
    BY <2>1, Zenon
  <2>3. 0 \in Nat /\ 0 <= MaxFailures
    BY Bounds
  <2>4. /\ spent'[c].call = spent[c].call
        /\ EndsLoop(c) \/ (~stop /\ GoesOn(c, 0))
        /\ \A d \in Conn \ {c} :
              /\ hb'[d] = hb[d] /\ cancelled'[d] = cancelled[d] /\ failures'[d] = failures[d]
              /\ timer'[d] = timer[d] /\ spent'[d] = spent[d]
    BY <1>2, <2>2, <2>3
  <2>5. /\ UNCHANGED <<gw, loose, count, held, wire, ping, call, row, idle, charged, allowed, overtime>>
        /\ hb[c] = "waiting"
    BY <1>5 DEF HbStops, byteVars, rowVars
  <2>6. HeartMoves(c)
    BY <2>2, <2>4, <2>5 DEF HeartMoves
  <2> QED BY <2>4, <2>5, <2>6 DEF OthersStill, Still
<1> QED BY <1>1, <1>3, <1>4, <1>5 DEF Heart

\* A sweep ends stale rows only.
Ages(d) == row'[d] = row[d] \/ (Stale(d) /\ row'[d] = "ended")

LEMMA SweptRow ==
    ASSUME NEW d \in Conn
    PROVE  \/ Swept[d] = row[d] /\ ~Stale(d)
           \/ Stale(d) /\ Swept[d] = "ended"
BY DEF Swept

ServedMoves(c) ==
    \/ /\ call[c] = "authorize" /\ charged'[c] = charged[c] /\ ping'[c] = ping[c]
       /\ \/ call'[c] = "admitted" /\ row'[c] = "open" /\ idle'[c] = 0
          \/ call'[c] = "denied" /\ Ages(c) /\ idle'[c] = idle[c]
    \/ /\ ping[c] = "request" /\ row'[c] = row[c] /\ call'[c] = call[c]
       /\ \/ /\ row[c] = "open" /\ charged'[c] = charged[c] + held[c] /\ idle'[c] = 0
             /\ ping'[c] = Verdict
          \/ /\ row[c] # "open" /\ charged'[c] = charged[c] /\ idle'[c] = idle[c]
             /\ ping'[c] = "missing"
    \/ /\ call[c] = "close" /\ call'[c] = "closed" /\ ping'[c] = ping[c] /\ idle'[c] = idle[c]
       /\ charged'[c] >= charged[c]
       /\ row'[c] = IF row[c] = "open" THEN "ended" ELSE row[c]

LEMMA ServedEffect ==
    ASSUME TypeInv, NEW c \in Conn, Served(c)
    PROVE  /\ OthersStill(c)
           /\ UNCHANGED <<gw, hb, cancelled, timer, failures, loose, count, held, wire, spent,
                          allowed, overtime>>
           /\ \A d \in Conn \ {c} : idle'[d] = idle[d] /\ Ages(d)
           /\ ServedMoves(c)
<1>0. /\ TypeOK /\ call \in [Conn -> Calls] /\ ping \in [Conn -> Pings]
      /\ idle \in [Conn -> 0..StaleAfter + 1] /\ charged \in [Conn -> Nat]
      /\ row \in [Conn -> {"none", "open", "ended"}]
      /\ Swept \in [Conn -> {"none", "open", "ended"}]
      /\ charged[c] \in Nat /\ held[c] \in Nat /\ last[c] \in Nat
  BY TypeFacts, SweptType DEF TypeInv, TypeOK
<1>1. CASE ServeAuthorize(c)
  <2>1. /\ UNCHANGED <<gw, hb, cancelled, timer, failures, loose, count, held, wire, spent,
                       allowed, overtime, ping, charged>>
        /\ call[c] = "authorize"
    BY <1>1 DEF ServeAuthorize, gwVars, byteVars
  <2>2. CASE Admissible(c)
    <3>1. /\ row' = [Swept EXCEPT ![c] = "open"] /\ idle' = [idle EXCEPT ![c] = 0]
          /\ call' = [call EXCEPT ![c] = "admitted"]
      BY <1>1, <2>2 DEF ServeAuthorize
    <3>2. row'[c] = "open" /\ idle'[c] = 0 /\ call'[c] = "admitted"
      BY <1>0, <3>1
    <3>3. \A d \in Conn \ {c} : row'[d] = Swept[d] /\ idle'[d] = idle[d] /\ call'[d] = call[d]
      BY <1>0, <3>1
    <3>4. \A d \in Conn \ {c} : Ages(d)
      BY <3>3, SweptRow DEF Ages
    <3>5. ServedMoves(c)
      BY <2>1, <3>2 DEF ServedMoves
    <3> QED BY <2>1, <3>3, <3>4, <3>5 DEF OthersStill, Still
  <2>3. CASE ~Admissible(c)
    <3>1. row' = Swept /\ idle' = idle /\ call' = [call EXCEPT ![c] = "denied"]
      BY <1>1, <2>3 DEF ServeAuthorize
    <3>2. call'[c] = "denied" /\ \A d \in Conn \ {c} : call'[d] = call[d]
      BY <1>0, <3>1
    <3>3. \A d \in Conn : Ages(d)
      BY <3>1, SweptRow DEF Ages
    <3>4. ServedMoves(c)
      BY <2>1, <3>1, <3>2, <3>3 DEF ServedMoves
    <3> QED BY <2>1, <3>1, <3>2, <3>3, <3>4 DEF OthersStill, Still
  <2> QED BY <2>2, <2>3
<1>2. CASE ServeHeartbeat(c)
  <2>1. /\ UNCHANGED <<gw, hb, cancelled, timer, failures, loose, count, held, wire, spent,
                       allowed, overtime, call, row>>
        /\ ping[c] = "request"
    BY <1>2 DEF ServeHeartbeat, gwVars, byteVars
  <2>2. /\ \/ /\ row[c] = "open" /\ charged'[c] = charged[c] + held[c] /\ idle'[c] = 0
              /\ ping'[c] = Verdict
           \/ /\ row[c] # "open" /\ charged'[c] = charged[c] /\ idle'[c] = idle[c]
              /\ ping'[c] = "missing"
        /\ \A d \in Conn \ {c} : /\ charged'[d] = charged[d] /\ idle'[d] = idle[d]
                                 /\ ping'[d] = ping[d]
    BY <1>0, <1>2 DEF ServeHeartbeat
  <2> QED BY <2>1, <2>2 DEF ServedMoves, OthersStill, Still, Ages
<1>3. CASE ServeClose(c)
  <2>1. /\ UNCHANGED <<gw, hb, cancelled, timer, failures, loose, count, held, wire, spent,
                       allowed, overtime, ping, idle>>
        /\ call[c] = "close"
    BY <1>3 DEF ServeClose, gwVars, byteVars
  <2>2. /\ charged'[c] >= charged[c] /\ row'[c] = IF row[c] = "open" THEN "ended" ELSE row[c]
        /\ call'[c] = "closed"
        /\ \A d \in Conn \ {c} : charged'[d] = charged[d] /\ row'[d] = row[d] /\ call'[d] = call[d]
    BY <1>0, <1>3 DEF ServeClose
  <2> QED BY <2>1, <2>2 DEF ServedMoves, OthersStill, Still, Ages
<1> QED BY <1>1, <1>2, <1>3 DEF Served

LEMMA RelayedEffect ==
    ASSUME TypeInv, NEW c \in Conn, Relayed(c)
    PROVE  /\ OthersStill(c)
           /\ UNCHANGED <<gw, hb, cancelled, timer, failures, held, ping, call, spent,
                          row, idle, charged, allowed, overtime>>
           /\ \/ /\ gw[c] = "relaying" /\ loose[c] = 0 /\ loose'[c] = 1
                 /\ wire'[c] = wire[c] + 1 /\ count'[c] = count[c]
              \/ /\ loose[c] = 1 /\ loose'[c] = 0 /\ count'[c] = count[c] + 1
                 /\ wire'[c] = wire[c]
<1>0. /\ loose \in [Conn -> 0..1] /\ count \in [Conn -> 0..MaxBytes]
      /\ wire \in [Conn -> 0..MaxBytes]
  BY DEF TypeInv, TypeOK
<1> QED BY <1>0 DEF Relayed, Forward, Count, OthersStill, Still, gwVars, netVars, rowVars

LEMMA LoseEffect ==
    ASSUME TypeInv, NEW c \in Conn, Lose(c)
    PROVE  /\ OthersStill(c)
           /\ UNCHANGED <<gw, hb, cancelled, timer, failures, loose, count, held, wire, spent,
                          row, idle, charged, allowed, overtime>>
           /\ failures[c] < LossesInRow
           /\ \/ /\ ping[c] \in {"request", "continue", "stop"} /\ call'[c] = call[c]
                 /\ ping'[c] = IF hb[c] = "posting" THEN "lost" ELSE "none"
              \/ /\ call[c] \in {"authorize", "admitted", "denied", "close", "closed"}
                 /\ call'[c] = "lost" /\ ping'[c] = ping[c]
<1>0. ping \in [Conn -> Pings] /\ call \in [Conn -> Calls]
  BY DEF TypeInv, TypeOK
<1> QED BY <1>0 DEF Lose, OthersStill, Still, gwVars, byteVars, rowVars
-----------------------------------------------------------------------------
(***************************************************************************)
(* The order of a connection: authorize, dial, relay, close.  Before the   *)
(* relay there is no heartbeat, no failure and no byte; a row begins with  *)
(* the answer to its authorize call; and a relay has its heartbeat as long *)
(* as its context is not done.                                             *)
(***************************************************************************)
Early == {"idle", "authorizing", "dialing"}

Order(c) ==
    /\ gw[c] \in Early =>
          /\ hb[c] = "off" /\ ~cancelled[c] /\ failures[c] = 0 /\ wire[c] = 0 /\ ping[c] = "none"
          /\ overtime[c].ended = 0 /\ overtime[c].refused = 0
    /\ gw[c] = "idle" => call[c] = "none" /\ row[c] = "none"
    /\ gw[c] \in {"dialing", "relaying", "ending"} => call[c] = "none"
    /\ call[c] = "authorize" => row[c] = "none"
    /\ call[c] \in {"authorize", "admitted", "denied"} => gw[c] \in {"authorizing", "done"}
    /\ call[c] \in {"close", "closed"} => gw[c] \in {"closing", "done"}
    /\ gw[c] = "relaying" /\ ~cancelled[c] => hb[c] \in {"waiting", "posting"}
    /\ failures[c] < MaxFailures

LEMMA StillOrder ==
    ASSUME NEW d \in Conn, Order(d), Still(d), Ages(d), overtime'[d] = overtime[d]
    PROVE  Order(d)'
BY DEF Order, Still, Ages, Early, Stale

LEMMA OrderStep ==
    ASSUME TypeInv, \A c \in Conn : Order(c), [Next]_vars
    PROVE  \A c \in Conn : Order(c)'
<1>1. ASSUME NEW c \in Conn, OthersStill(c), overtime' = overtime,
             \A d \in Conn \ {c} : Ages(d), Order(c)'
      PROVE  \A d \in Conn : Order(d)'
  BY <1>1, StillOrder DEF OthersStill
<1>2. ASSUME NEW c \in Conn, Handled(c) PROVE \A d \in Conn : Order(d)'
  <2>1. Order(c)'
    BY <1>2, HandledEffect DEF Order, Early, HandlerMoves
  <2> QED BY <1>1, <1>2, <2>1, HandledEffect DEF Ages
<1>3. ASSUME NEW c \in Conn, Heart(c) PROVE \A d \in Conn : Order(d)'
  <2>1. Order(c)'
    BY <1>3, HeartEffect, Bounds DEF Order, Early, HeartMoves, GoesOn, EndsLoop
  <2> QED BY <1>1, <1>3, <2>1, HeartEffect DEF Ages
<1>4. ASSUME NEW c \in Conn, Served(c) PROVE \A d \in Conn : Order(d)'
  <2>1. Order(c)'
    BY <1>4, ServedEffect DEF Order, Early, ServedMoves, Ages, Stale
  <2> QED BY <1>1, <1>4, <2>1, ServedEffect
<1>5. ASSUME NEW c \in Conn, Relayed(c) PROVE \A d \in Conn : Order(d)'
  <2>1. Order(c)'
    BY <1>5, RelayedEffect DEF Order, Early
  <2> QED BY <1>1, <1>5, <2>1, RelayedEffect DEF Ages
<1>6. ASSUME NEW c \in Conn, Lose(c) PROVE \A d \in Conn : Order(d)'
  <2>1. Order(c)'
    BY <1>6, LoseEffect DEF Order, Early
  <2> QED BY <1>1, <1>6, <2>1, LoseEffect DEF Ages
<1>7. ASSUME Sweep, NEW d \in Conn PROVE Order(d)'
  BY <1>7, SweptRow DEF Sweep, Order, Early, Stale, gwVars, byteVars, netVars
<1>8. ASSUME SetAllowed, NEW d \in Conn PROVE Order(d)'
  <2>1. overtime'[d].ended = overtime[d].ended /\ overtime'[d].refused = 0
    BY <1>8 DEF SetAllowed, TypeInv, TypeOK
  <2> QED BY <1>8, <2>1 DEF SetAllowed, Order, Early, gwVars, byteVars, netVars
<1>9. ASSUME Clock, NEW d \in Conn PROVE Order(d)'
  <2>1. gw[d] \in Early => overtime'[d].ended = 0 /\ overtime'[d].refused = 0
    BY <1>9, ClockEffect DEF Early
  <2> QED BY <1>9, <2>1 DEF Clock, Order, Early, byteVars
<1>10. ASSUME UNCHANGED vars, NEW d \in Conn PROVE Order(d)'
  BY <1>10 DEF vars, gwVars, byteVars, netVars, rowVars, Order, Early
<1> QED BY <1>2, <1>3, <1>4, <1>5, <1>6, <1>7, <1>8, <1>9, <1>10, StepForms

Known == TypeInv /\ \A c \in Conn : Order(c)

LEMMA KnownAlways == Spec => []Known
<1>1. Init => Known
  <2> SUFFICES ASSUME Init PROVE \A c \in Conn : Order(c)
    BY TypeFirst DEF Known
  <2> QED BY Bounds DEF Init, Order
<1>2. Known /\ [Next]_vars => Known'
  BY TypeStep, OrderStep DEF Known
<1> QED BY <1>1, <1>2, PTL DEF Spec
-----------------------------------------------------------------------------
(***************************************************************************)
(* Bytes.  A heartbeat that has been answered is charged, and what it held *)
(* is forgotten at once; one that has not may still be put back.           *)
(***************************************************************************)
Pending(c) ==
    IF hb[c] = "posting" /\ ping[c] \notin {"continue", "stop"} THEN held[c] ELSE 0

Kept(c) ==
    gw[c] = "relaying" /\ ~cancelled[c] =>
        wire[c] <= charged[c] + count[c] + loose[c] + Pending(c)

LEMMA StillKept ==
    ASSUME NEW d \in Conn, Kept(d), Still(d)
    PROVE  Kept(d)'
BY DEF Kept, Still, Pending

LEMMA KeptStep ==
    ASSUME Known, \A c \in Conn : Kept(c), [Next]_vars
    PROVE  \A c \in Conn : Kept(c)'
<1>0. TypeInv /\ \A c \in Conn : Order(c)
  BY DEF Known
<1>1. ASSUME NEW c \in Conn, OthersStill(c), Kept(c)'
      PROVE  \A d \in Conn : Kept(d)'
  BY <1>1, StillKept DEF OthersStill
<1>2. \A c \in Conn : /\ held[c] \in Nat /\ count[c] \in Nat /\ loose[c] \in Nat
                      /\ wire[c] \in Nat /\ charged[c] \in Nat
  BY <1>0, TypeFacts DEF TypeInv
<1>3. ASSUME NEW c \in Conn, Handled(c) PROVE \A d \in Conn : Kept(d)'
  <2>1. Kept(c)'
    <3>1. CASE gw[c] = "dialing" /\ gw'[c] = "relaying" /\ count'[c] = count[c] /\ hb'[c] = "waiting"
      <4>1. wire'[c] = 0 /\ charged'[c] = charged[c] /\ loose'[c] = loose[c] /\ Pending(c)' = 0
        BY <1>0, <1>3, <3>1, HandledEffect DEF Order, Early, Pending
      <4> QED BY <1>2, <3>1, <4>1 DEF Kept
    <3>2. CASE gw'[c] # "relaying"
      BY <3>2 DEF Kept
    <3> QED BY <1>0, <1>3, <3>1, <3>2, HandledEffect DEF HandlerMoves
  <2> QED BY <1>0, <1>1, <1>3, <2>1, HandledEffect
<1>4. ASSUME NEW c \in Conn, Heart(c) PROVE \A d \in Conn : Kept(d)'
  <2>1. Kept(c)'
    <3>1. UNCHANGED <<gw, loose, wire, charged>> /\ HeartMoves(c)
      BY <1>0, <1>4, HeartEffect
    <3>2. gw[c] = "relaying" /\ ~cancelled[c] => wire[c] <= charged[c] + count[c] + loose[c] + Pending(c)
      BY DEF Kept
    <3> QED BY <1>2, <3>1, <3>2 DEF Kept, HeartMoves, GoesOn, EndsLoop, Pending
  <2> QED BY <1>0, <1>1, <1>4, <2>1, HeartEffect
<1>5. ASSUME NEW c \in Conn, Served(c) PROVE \A d \in Conn : Kept(d)'
  <2>1. Kept(c)'
    <3>1. UNCHANGED <<gw, hb, cancelled, loose, count, held, wire>> /\ ServedMoves(c)
      BY <1>0, <1>5, ServedEffect
    <3>2. gw[c] = "relaying" /\ ~cancelled[c] => wire[c] <= charged[c] + count[c] + loose[c] + Pending(c)
      BY DEF Kept
    <3>3. gw[c] = "relaying" => call[c] = "none"
      BY <1>0 DEF Order
    <3>4. Verdict \in {"continue", "stop"}
      BY DEF Verdict
    <3> QED BY <1>2, <3>1, <3>2, <3>3, <3>4 DEF Kept, ServedMoves, Pending
  <2> QED BY <1>0, <1>1, <1>5, <2>1, ServedEffect
<1>6. ASSUME NEW c \in Conn, Relayed(c) PROVE \A d \in Conn : Kept(d)'
  <2>1. Kept(c)'
    BY <1>0, <1>2, <1>6, RelayedEffect DEF Kept, Pending
  <2> QED BY <1>0, <1>1, <1>6, <2>1, RelayedEffect
<1>7. ASSUME NEW c \in Conn, Lose(c) PROVE \A d \in Conn : Kept(d)'
  <2>1. Kept(c)'
    BY <1>0, <1>2, <1>7, LoseEffect DEF Kept, Pending
  <2> QED BY <1>0, <1>1, <1>7, <2>1, LoseEffect
<1>8. ASSUME Sweep \/ SetAllowed \/ Clock \/ UNCHANGED vars, NEW d \in Conn PROVE Kept(d)'
  <2>1. UNCHANGED <<gw, hb, cancelled, loose, count, held, wire, ping, charged>>
    BY <1>8 DEF Sweep, SetAllowed, Clock, vars, gwVars, byteVars, netVars, rowVars
  <2> QED BY <2>1 DEF Kept, Pending
<1> QED BY <1>3, <1>4, <1>5, <1>6, <1>7, <1>8, StepForms

\* As long as a connection is up, no heartbeat that is answered, lost or given
\* up takes bytes with it.
THEOREM BytesKept == Spec => []NothingForgotten
<1>1. Init => \A c \in Conn : Kept(c)
  BY DEF Init, Kept
<1>2. Known /\ (\A c \in Conn : Kept(c)) /\ [Next]_vars => (\A c \in Conn : Kept(c))'
  BY KeptStep
<1>3. Known /\ (\A c \in Conn : Kept(c)) => NothingForgotten
  <2> SUFFICES ASSUME Known, NEW c \in Conn, Kept(c), gw[c] = "relaying", ~cancelled[c]
               PROVE  wire[c] <= charged[c] + count[c] + loose[c]
                                   + (IF hb[c] = "posting" THEN held[c] ELSE 0)
    BY DEF NothingForgotten, Relaying
  <2>1. /\ held[c] \in Nat /\ count[c] \in Nat /\ loose[c] \in Nat
        /\ wire[c] \in Nat /\ charged[c] \in Nat
    BY TypeFacts DEF Known, TypeInv
  <2> QED BY <2>1 DEF Kept, Pending
<1> QED BY <1>1, <1>2, <1>3, KnownAlways, PTL DEF Spec
-----------------------------------------------------------------------------
(***************************************************************************)
(* Bytes charged twice.  A byte that waits in the counter has been charged *)
(* once per heartbeat that failed since the last answer at most; so what   *)
(* may still be charged for it shrinks with every failure, and what is     *)
(* charged and what may still be never exceeds Often for each byte.        *)
(***************************************************************************)
Often == MaxFailures + 1
Times(n, b) == n * b

LEMMA TimesFacts ==
    /\ \A n, b \in Nat : Times(n, b) \in Nat
    /\ \A n \in Nat : Times(n, 0) = 0 /\ Times(n, 1) = n
    /\ \A n, b \in Nat : Times(n + 1, b) = Times(n, b) + b
    /\ \A n, m, b \in Nat : n <= m => Times(n, b) <= Times(m, b)
<1>1. ASSUME NEW n \in Nat, NEW b \in Nat
      PROVE  /\ Times(n, b) \in Nat /\ Times(n, 0) = 0 /\ Times(n, 1) = n
             /\ Times(n + 1, b) = Times(n, b) + b
  BY DEF Times
<1>2. ASSUME NEW n \in Nat, NEW m \in Nat, NEW b \in Nat, n <= m
      PROVE  Times(n, b) <= Times(m, b)
  <2>1. PICK k \in Nat : m = n + k
    <3>1. m - n \in Nat /\ m = n + (m - n)
      BY <1>2
    <3> QED BY <3>1
  <2>2. m * b = n * b + k * b /\ k * b \in Nat /\ n * b \in Nat
    BY <2>1
  <2> QED BY <2>2 DEF Times
<1> QED BY <1>1, <1>2

LEMMA TimesSum ==
    ASSUME NEW n \in Nat, NEW a \in Nat, NEW b \in Nat
    PROVE  Times(n, a + b) = Times(n, a) + Times(n, b)
BY DEF Times

\* How often a byte of the counter, or of the heartbeat under way, may still be
\* charged, the close included.
LeftInCount(c) == IF hb[c] = "waiting" THEN Often - failures[c]
                  ELSE IF hb[c] = "posting" THEN Often ELSE 1

LeftInHeld(c) ==
    IF hb[c] = "posting"
    THEN IF ping[c] = "request" THEN Often - failures[c] ELSE Often - failures[c] - 1
    ELSE IF ping[c] = "request" THEN 1 ELSE 0

Closing(c) == IF call[c] = "close" THEN last[c] ELSE 0

Owed(c) ==
    Times(Often, loose[c]) + Times(LeftInCount(c), count[c]) + Times(LeftInHeld(c), held[c])
        + Closing(c)

Within(c) ==
    /\ charged[c] + Owed(c) <= Times(Often, wire[c])
    /\ hb[c] = "waiting" => ping[c] = "none"
    /\ gw[c] \in Early => last[c] = 0

LEMMA OwedFacts ==
    ASSUME Known, NEW c \in Conn
    PROVE  /\ charged[c] \in Nat /\ loose[c] \in Nat /\ count[c] \in Nat /\ held[c] \in Nat
           /\ last[c] \in Nat /\ wire[c] \in Nat /\ Closing(c) \in Nat
           /\ failures[c] \in Nat /\ failures[c] < MaxFailures /\ MaxFailures \in Nat
           /\ Often \in Nat /\ Often = MaxFailures + 1 /\ 1 <= Often
           /\ LeftInCount(c) \in Nat /\ LeftInHeld(c) \in Nat
           /\ Times(Often, loose[c]) \in Nat /\ Times(Often, wire[c]) \in Nat
           /\ Times(LeftInCount(c), count[c]) \in Nat
           /\ Times(LeftInHeld(c), held[c]) \in Nat
<1>1. /\ charged[c] \in Nat /\ loose[c] \in Nat /\ count[c] \in Nat /\ held[c] \in Nat
      /\ last[c] \in Nat /\ wire[c] \in Nat /\ failures[c] \in Nat
  BY TypeFacts DEF Known, TypeInv
<1>2. failures[c] < MaxFailures /\ MaxFailures \in Nat
  BY Bounds DEF Known, Order
<1>3. Often \in Nat /\ Often = MaxFailures + 1 /\ 1 <= Often
  BY <1>2 DEF Often
<1>4. LeftInCount(c) \in Nat /\ LeftInHeld(c) \in Nat /\ Closing(c) \in Nat
  BY <1>1, <1>2, <1>3 DEF LeftInCount, LeftInHeld, Closing
<1> QED BY <1>1, <1>2, <1>3, <1>4, TimesFacts

\* Fewer bytes that may each be charged less often owe less.
LEMMA LessOwed ==
    ASSUME NEW n \in Nat, NEW m \in Nat, NEW a \in Nat, NEW b \in Nat, n <= m, a <= b
    PROVE  Times(n, a) <= Times(m, b)
<1>1. Times(n, a) <= Times(m, a) /\ Times(m, a) \in Nat /\ Times(n, a) \in Nat
  BY TimesFacts
<1>2. Times(m, a) <= Times(m, b)
  <2>1. b - a \in Nat /\ b = a + (b - a)
    OBVIOUS
  <2>2. Times(m, b) = Times(m, a) + Times(m, b - a) /\ Times(m, b - a) \in Nat
    BY <2>1, TimesSum, TimesFacts
  <2> QED BY <1>1, <2>2
<1>3. Times(m, b) \in Nat
  BY TimesFacts
<1> QED BY <1>1, <1>2, <1>3

LEMMA WithinHandled ==
    ASSUME Known, Known', NEW c \in Conn, Handled(c), Within(c)
    PROVE  Within(c)'
<1>0. TypeInv /\ Order(c) /\ Balance(c)
  BY DEF Known, TypeInv
<1>1. /\ UNCHANGED <<failures, loose, held, wire, ping, charged>>
      /\ last \in [Conn -> 0..MaxBytes] /\ count \in [Conn -> 0..MaxBytes]
      /\ call \in [Conn -> Calls]
  BY <1>0, HandledEffect DEF TypeInv, TypeOK
<1>2. CASE StartClose(c)
  <2>1. /\ hb' = hb /\ call[c] = "none" /\ call'[c] = "close" /\ gw'[c] = "closing"
        /\ last'[c] = count[c] /\ count'[c] = 0
    BY <1>0, <1>1, <1>2 DEF StartClose, Turn, Order, TypeInv, TypeOK
  <2>2. LeftInHeld(c)' = LeftInHeld(c) /\ Times(LeftInCount(c)', 0) = 0
    BY <1>1, <2>1, OwedFacts, TimesFacts DEF LeftInHeld, LeftInCount
  <2>3. Closing(c) = 0 /\ Closing(c)' = count[c]
    BY <2>1 DEF Closing
  <2>4. count[c] <= Times(LeftInCount(c), count[c])
    <3>1. 1 <= LeftInCount(c)
      BY OwedFacts DEF LeftInCount
    <3>2. Times(1, count[c]) = count[c] /\ Times(1, count[c]) <= Times(LeftInCount(c), count[c])
      BY <3>1, OwedFacts, LessOwed DEF Times
    <3> QED BY <3>2
  <2>5. Owed(c)' <= Owed(c)
    BY <1>1, <2>1, <2>2, <2>3, <2>4, OwedFacts DEF Owed
  <2>6. gw'[c] \notin Early /\ (hb'[c] = "waiting" => ping'[c] = "none")
    BY <1>1, <2>1 DEF Within, Early
  <2>7. Owed(c) \in Nat /\ Owed(c)' \in Nat
    BY <1>1, <2>1, <2>2, <2>3, OwedFacts DEF Owed
  <2> QED BY <1>1, <2>5, <2>6, <2>7, OwedFacts DEF Within
<1>3. CASE StartRelay(c)
  <2>1. /\ gw[c] = "dialing" /\ gw'[c] = "relaying" /\ UNCHANGED <<count, last, call>>
        /\ wire[c] = 0 /\ ping[c] = "none" /\ call[c] = "none" /\ hb'[c] = "waiting"
    BY <1>0, <1>3 DEF StartRelay, Turn, Order, Early, byteVars, TypeInv, TypeOK
  <2>2. count[c] = 0 /\ count'[c] = 0 /\ loose[c] = 0
    BY <1>0, <2>1, OwedFacts DEF Balance, Posted
  <2>3. hb[c] = "off"
    BY <1>0, <2>1 DEF Order, Early
  <2>4. LeftInHeld(c)' = 0 /\ LeftInHeld(c) = 0
    BY <1>1, <2>1, <2>3 DEF LeftInHeld
  <2>5. Closing(c)' = Closing(c) /\ LeftInCount(c)' \in Nat
    BY <1>1, <2>1, OwedFacts, Bounds DEF Closing, LeftInCount
  <2>6. Owed(c)' = Owed(c)
    BY <1>1, <2>1, <2>2, <2>3, <2>4, <2>5, OwedFacts, TimesFacts DEF Owed
  <2> QED BY <1>1, <2>1, <2>6 DEF Within, Early
<1>4. CASE Handled(c) /\ ~StartClose(c) /\ ~StartRelay(c)
  <2>1. UNCHANGED <<hb, count, last>>
    BY <1>4 DEF Handled, Handler, Connect, AuthorizeFails, Dial, DialFails, RelayEnds,
                CloseReturns, byteVars
  <2>2. /\ gw'[c] \in Early => gw[c] \in Early
        /\ call'[c] = "close" => call[c] = "close" \/ gw[c] \in Early
    BY <1>0, <1>4, HandledEffect DEF HandlerMoves, Early, StartClose, StartRelay, Handled,
       Handler, Connect, AuthorizeFails, Dial, DialFails, RelayEnds, CloseReturns, Turn, TypeInv, TypeOK
  <2>3. Closing(c)' <= Closing(c)
    BY <2>1, <2>2, OwedFacts DEF Closing, Within
  <2>4. LeftInCount(c)' = LeftInCount(c) /\ LeftInHeld(c)' = LeftInHeld(c) /\ Closing(c)' \in Nat
    BY <1>1, <2>1, OwedFacts DEF LeftInCount, LeftInHeld, Closing
  <2>5. Owed(c)' <= Owed(c) /\ Owed(c) \in Nat /\ Owed(c)' \in Nat
    BY <1>1, <2>1, <2>3, <2>4, OwedFacts DEF Owed
  <2> QED BY <1>1, <2>1, <2>2, <2>5, OwedFacts DEF Within
<1> QED BY <1>2, <1>3, <1>4

LEMMA WithinHeart ==
    ASSUME Known, Known', NEW c \in Conn, Heart(c), Within(c)
    PROVE  Within(c)'
<1>0. TypeInv /\ Order(c)
  BY DEF Known
<1>1. /\ UNCHANGED <<gw, loose, wire, call, charged>>
      /\ last' = last
      /\ hb \in [Conn -> {"off", "waiting", "posting"}] /\ ping \in [Conn -> Pings]
      /\ count \in [Conn -> 0..MaxBytes] /\ held \in [Conn -> 0..MaxBytes]
      /\ HeartMoves(c)
  BY <1>0, HeartEffect DEF TypeInv, TypeOK, Heart, HbTick, HbAnswered, HbFailed, HbStops, byteVars
<1>2. Closing(c)' = Closing(c) /\ Closing(c) \in Nat
  BY <1>1, OwedFacts DEF Closing
<1> DEFINE A == Times(LeftInCount(c), count[c])
           B == Times(LeftInHeld(c), held[c])
<1>3. ASSUME Times(LeftInCount(c), count[c])' + Times(LeftInHeld(c), held[c])' <= A + B,
             Times(LeftInCount(c), count[c])' \in Nat, Times(LeftInHeld(c), held[c])' \in Nat,
             hb'[c] = "waiting" => ping'[c] = "none"
      PROVE  Within(c)'
  <2>1. A \in Nat /\ B \in Nat /\ Times(Often, loose[c]) \in Nat /\ Times(Often, wire[c]) \in Nat
        /\ charged[c] \in Nat
    BY OwedFacts
  <2>2. Times(Often, loose'[c]) = Times(Often, loose[c]) /\ Times(Often, wire'[c]) = Times(Often, wire[c])
    BY <1>1
  <2>3. Owed(c)' <= Owed(c) /\ Owed(c) \in Nat /\ Owed(c)' \in Nat
    BY <1>2, <1>3, <2>1, <2>2 DEF Owed
  <2> QED BY <1>1, <1>3, <2>1, <2>2, <2>3 DEF Within
<1>4. /\ Times(LeftInCount(c)', count'[c]) \in Nat /\ Times(LeftInHeld(c)', held'[c]) \in Nat
      /\ failures'[c] \in Nat /\ failures'[c] < MaxFailures
      /\ LeftInCount(c)' \in Nat /\ LeftInHeld(c)' \in Nat /\ count'[c] \in Nat /\ held'[c] \in Nat
  <2>1. TypeInv' /\ Order(c)'
    BY DEF Known
  <2>2. count'[c] \in Nat /\ held'[c] \in Nat /\ failures'[c] \in Nat
    BY <2>1, Bounds DEF TypeInv, TypeOK
  <2>3. failures'[c] < MaxFailures
    BY <2>1 DEF Order
  <2>4. LeftInCount(c)' \in Nat /\ LeftInHeld(c)' \in Nat
    BY <2>2, <2>3, Bounds DEF LeftInCount, LeftInHeld, Often
  <2> QED BY <2>2, <2>3, <2>4, TimesFacts
<1>5. CASE HbTick(c)
  <2>1. /\ hb[c] = "waiting" /\ hb'[c] = "posting" /\ held'[c] = count[c] /\ count'[c] = 0
        /\ failures'[c] = failures[c] /\ ping[c] = "none"
    BY <1>0, <1>1, <1>5 DEF HbTick, Taken, Within
  <2>2. /\ LeftInHeld(c)' <= LeftInCount(c) /\ LeftInHeld(c) = 0
    BY <2>1, OwedFacts DEF LeftInHeld, LeftInCount
  <2>3. Times(LeftInHeld(c)', count[c]) <= A /\ Times(LeftInCount(c)', 0) = 0 /\ B = 0
    <3>1. B = 0
      BY <2>2, OwedFacts DEF Times
    <3> QED BY <1>4, <2>1, <2>2, <3>1, OwedFacts, LessOwed, TimesFacts
  <2> QED BY <1>3, <1>4, <2>1, <2>3, OwedFacts
<1>6. CASE HbAnswered(c)
  <2>1. /\ hb[c] = "posting" /\ hb'[c] \in {"waiting", "off"} /\ failures'[c] = 0
        /\ UNCHANGED <<count, held>> /\ ping'[c] = "none"
    BY <1>0, <1>1, <1>6, HeartEffect DEF HbAnswered, HeartMoves, GoesOn, EndsLoop, byteVars
  <2>2. LeftInCount(c)' <= LeftInCount(c) /\ LeftInHeld(c)' = 0
    BY <1>4, <2>1, OwedFacts DEF LeftInCount, LeftInHeld, Often
  <2>3. Times(LeftInCount(c)', count[c]) <= A /\ Times(LeftInHeld(c)', held[c]) = 0
    <3>1. Times(0, held[c]) = 0
      BY OwedFacts DEF Times
    <3> QED BY <1>4, <2>2, <3>1, OwedFacts, LessOwed
  <2> QED BY <1>3, <1>4, <2>1, <2>3, OwedFacts
<1>7. CASE HbFailed(c)
  <2>1. /\ hb[c] = "posting"
        /\ count'[c] = count[c] + held[c] /\ held' = held
        /\ ping'[c] = IF ping[c] = "request" THEN "request" ELSE "none"
    BY <1>0, <1>1, <1>7 DEF HbFailed, Restored, TypeInv, TypeOK
  <2>2. \/ /\ hb'[c] = "waiting" /\ failures'[c] = failures[c] + 1 /\ ping'[c] = "none"
           /\ ping[c] # "request"
        \/ hb'[c] = "off" /\ failures'[c] = 0
    BY <1>0, <1>1, <1>7, <2>1, HeartEffect DEF HeartMoves, GoesOn, EndsLoop, HbFailed
  <2>3. /\ LeftInCount(c)' <= LeftInCount(c) /\ LeftInCount(c)' + LeftInHeld(c)' <= LeftInHeld(c)
    <3>1. /\ LeftInCount(c) = Often
          /\ LeftInHeld(c) = IF ping[c] = "request" THEN Often - failures[c] ELSE Often - failures[c] - 1
      BY <2>1 DEF LeftInCount, LeftInHeld
    <3>2. CASE hb'[c] = "waiting" /\ failures'[c] = failures[c] + 1 /\ ping'[c] = "none" /\ ping[c] # "request"
      <4>1. LeftInCount(c)' = Often - (failures[c] + 1) /\ LeftInHeld(c)' = 0
        BY <3>2 DEF LeftInCount, LeftInHeld, Often
      <4> QED BY <3>1, <3>2, <4>1, OwedFacts
    <3>3. CASE hb'[c] = "off"
      <4>1. LeftInCount(c)' = 1 /\ LeftInHeld(c)' = IF ping[c] = "request" THEN 1 ELSE 0
        BY <2>1, <3>3 DEF LeftInCount, LeftInHeld
      <4> QED BY <3>1, <4>1, OwedFacts
    <3> QED BY <2>2, <3>2, <3>3
  <2>4. Times(LeftInCount(c)', count[c] + held[c])
           = Times(LeftInCount(c)', count[c]) + Times(LeftInCount(c)', held[c])
    BY <1>4, OwedFacts DEF Times
  <2>5. Times(LeftInCount(c)', count[c]) <= A
    BY <1>4, <2>3, OwedFacts, LessOwed
  <2>6. Times(LeftInCount(c)', held[c]) + Times(LeftInHeld(c)', held[c]) <= B
    <3>1. Times(LeftInCount(c)' + LeftInHeld(c)', held[c]) <= B
      BY <1>4, <2>3, OwedFacts, LessOwed
    <3>2. Times(LeftInCount(c)' + LeftInHeld(c)', held[c])
             = Times(LeftInCount(c)', held[c]) + Times(LeftInHeld(c)', held[c])
      BY <1>4, OwedFacts DEF Times
    <3> QED BY <3>1, <3>2
  <2>7. /\ Times(LeftInCount(c)', count[c]) \in Nat /\ Times(LeftInCount(c)', held[c]) \in Nat
    BY <1>4, OwedFacts, TimesFacts
  <2> QED BY <1>3, <1>4, <2>1, <2>2, <2>4, <2>5, <2>6, <2>7, OwedFacts
<1>8. CASE HbStops(c)
  <2>1. /\ hb[c] = "waiting" /\ hb'[c] = "off" /\ ping[c] = "none" /\ ping'[c] = "none"
        /\ UNCHANGED <<count, held>>
    BY <1>0, <1>1, <1>8, HeartEffect DEF HbStops, HeartMoves, GoesOn, EndsLoop, byteVars, Within
  <2>2. LeftInCount(c)' <= LeftInCount(c) /\ LeftInHeld(c)' = LeftInHeld(c)
    BY <2>1, OwedFacts DEF LeftInCount, LeftInHeld
  <2>3. Times(LeftInCount(c)', count[c]) <= A
    BY <1>4, <2>2, OwedFacts, LessOwed
  <2> QED BY <1>3, <1>4, <2>1, <2>2, <2>3, OwedFacts
<1> QED BY <1>5, <1>6, <1>7, <1>8 DEF Heart

LEMMA WithinServed ==
    ASSUME Known, NEW c \in Conn, Served(c), Within(c)
    PROVE  Within(c)'
<1>0. /\ TypeInv /\ ServedMoves(c) /\ last' = last
      /\ UNCHANGED <<gw, hb, failures, loose, count, held, wire>>
      /\ charged \in [Conn -> Nat]
  BY ServedEffect DEF Known, TypeInv, TypeOK, Served, ServeAuthorize, ServeHeartbeat, ServeClose,
     byteVars
<1>1. LeftInCount(c)' = LeftInCount(c) /\ Owed(c) \in Nat
  BY <1>0, OwedFacts DEF LeftInCount, Owed
<1>2. ASSUME charged'[c] + Owed(c)' <= charged[c] + Owed(c), charged'[c] \in Nat, Owed(c)' \in Nat,
             hb[c] = "waiting" => ping'[c] = "none"
      PROVE  Within(c)'
  BY <1>0, <1>1, <1>2, OwedFacts DEF Within
<1>3. CASE ServeHeartbeat(c)
  <2>1. ping[c] = "request" /\ ping'[c] # "request" /\ call' = call /\ hb[c] # "waiting"
        /\ charged'[c] \in {charged[c], charged[c] + held[c]}
    BY <1>0, <1>3 DEF ServeHeartbeat, Verdict, Within, TypeInv, TypeOK
  <2>2. LeftInHeld(c)' \in Nat /\ LeftInHeld(c) = LeftInHeld(c)' + 1
    BY <1>0, <2>1, OwedFacts DEF LeftInHeld
  <2>3. /\ Times(LeftInHeld(c), held[c]) = Times(LeftInHeld(c)', held[c]) + held[c]
        /\ Times(LeftInHeld(c)', held[c]) \in Nat
    <3> DEFINE n == LeftInHeld(c)'
    <3>1. held[c] \in Nat /\ n \in Nat /\ Times(LeftInHeld(c), held[c]) = Times(n + 1, held[c])
      BY <2>2, OwedFacts
    <3> HIDE DEF n
    <3>2. Times(n + 1, held[c]) = Times(n, held[c]) + held[c] /\ Times(n, held[c]) \in Nat
      BY <3>1, TimesFacts
    <3> QED BY <3>1, <3>2 DEF n
  <2>4. Closing(c)' = Closing(c)
    BY <1>0, <2>1 DEF Closing
  <2>5. Owed(c) = Owed(c)' + held[c] /\ Owed(c)' \in Nat
    BY <1>0, <1>1, <2>3, <2>4, OwedFacts DEF Owed
  <2> QED BY <1>1, <1>2, <2>1, <2>5, OwedFacts
<1>4. CASE ServeClose(c)
  <2>1. /\ call[c] = "close" /\ call'[c] = "closed" /\ ping' = ping
        /\ charged'[c] \in {charged[c], charged[c] + last[c]}
    BY <1>0, <1>4 DEF ServeClose, TypeInv, TypeOK
  <2>2. Closing(c) = last[c] /\ Closing(c)' = 0 /\ LeftInHeld(c)' = LeftInHeld(c)
    BY <1>0, <2>1 DEF Closing, LeftInHeld
  <2>3. Owed(c) = Owed(c)' + last[c] /\ Owed(c)' \in Nat
    BY <1>0, <1>1, <2>2, OwedFacts DEF Owed
  <2> QED BY <1>1, <1>2, <2>1, <2>3, OwedFacts DEF Within
<1>5. CASE ServeAuthorize(c)
  <2>1. /\ call[c] = "authorize" /\ call'[c] \in {"admitted", "denied"}
        /\ UNCHANGED <<ping, charged>>
    BY <1>5 DEF ServeAuthorize, TypeInv, TypeOK, Known
  <2>2. Closing(c) = 0 /\ Closing(c)' = 0 /\ LeftInHeld(c)' = LeftInHeld(c)
    BY <1>0, <2>1 DEF Closing, LeftInHeld
  <2>3. Owed(c)' = Owed(c)
    BY <1>0, <1>1, <2>2 DEF Owed
  <2> QED BY <1>1, <1>2, <2>1, <2>3, OwedFacts DEF Within
<1> QED BY <1>3, <1>4, <1>5 DEF Served

LEMMA WithinRelayed ==
    ASSUME Known, NEW c \in Conn, Relayed(c), Within(c)
    PROVE  Within(c)'
<1>0. /\ UNCHANGED <<gw, hb, failures, held, ping, call, charged, last>>
      /\ \/ /\ gw[c] = "relaying" /\ loose[c] = 0 /\ loose'[c] = 1
            /\ wire'[c] = wire[c] + 1 /\ count'[c] = count[c]
         \/ /\ loose[c] = 1 /\ loose'[c] = 0 /\ count'[c] = count[c] + 1
            /\ wire'[c] = wire[c]
  BY RelayedEffect DEF Known, Relayed, Forward, Count
<1>1. /\ LeftInCount(c)' = LeftInCount(c) /\ LeftInHeld(c)' = LeftInHeld(c)
      /\ Closing(c)' = Closing(c) /\ Owed(c) \in Nat
  BY <1>0, OwedFacts DEF LeftInCount, LeftInHeld, Closing, Owed
<1>2. Times(Often, 0) = 0 /\ Times(Often, 1) = Often
  BY OwedFacts, TimesFacts
<1>3. CASE loose[c] = 0 /\ loose'[c] = 1 /\ wire'[c] = wire[c] + 1 /\ count'[c] = count[c]
  <2>1. Times(Often, wire[c] + 1) = Times(Often, wire[c]) + Often
    BY OwedFacts DEF Times
  <2>2. Owed(c)' = Owed(c) + Often
    BY <1>0, <1>1, <1>2, <1>3, OwedFacts DEF Owed
  <2> QED BY <1>0, <1>1, <1>3, <2>1, <2>2, OwedFacts DEF Within
<1>4. CASE loose[c] = 1 /\ loose'[c] = 0 /\ count'[c] = count[c] + 1 /\ wire'[c] = wire[c]
  <2>1. Times(LeftInCount(c), count[c] + 1) = Times(LeftInCount(c), count[c]) + LeftInCount(c)
    BY OwedFacts DEF Times
  <2>2. LeftInCount(c) <= Often
    BY OwedFacts DEF LeftInCount
  <2>3. Owed(c)' <= Owed(c) /\ Owed(c)' \in Nat
    BY <1>0, <1>1, <1>2, <1>4, <2>1, <2>2, OwedFacts DEF Owed
  <2> QED BY <1>0, <1>1, <1>4, <2>3, OwedFacts DEF Within
<1> QED BY <1>0, <1>3, <1>4

LEMMA WithinLose ==
    ASSUME Known, NEW c \in Conn, Lose(c), Within(c)
    PROVE  Within(c)'
<1>0. /\ UNCHANGED <<gw, hb, failures, loose, count, held, wire, charged, last>>
      /\ \/ /\ ping[c] \in {"request", "continue", "stop"} /\ call'[c] = call[c]
            /\ ping'[c] = IF hb[c] = "posting" THEN "lost" ELSE "none"
         \/ call'[c] = "lost" /\ ping'[c] = ping[c]
  BY LoseEffect DEF Known, Lose, byteVars
<1>1. /\ LeftInCount(c)' = LeftInCount(c) /\ LeftInHeld(c)' <= LeftInHeld(c)
      /\ LeftInHeld(c)' \in Nat /\ Closing(c)' <= Closing(c) /\ Closing(c)' \in Nat
  BY <1>0, OwedFacts DEF LeftInCount, LeftInHeld, Closing
<1>2. /\ Times(LeftInHeld(c)', held[c]) <= Times(LeftInHeld(c), held[c])
      /\ Times(LeftInHeld(c)', held[c]) \in Nat
  BY <1>1, OwedFacts, LessOwed, TimesFacts
<1>3. Owed(c)' <= Owed(c) /\ Owed(c) \in Nat /\ Owed(c)' \in Nat
  BY <1>0, <1>1, <1>2, OwedFacts DEF Owed
<1> QED BY <1>0, <1>3, OwedFacts DEF Within

\* A byte is charged in at most MaxFailures heartbeats and in the close, whatever
\* answers are lost.
THEOREM OverchargesBounded == Spec => []OverchargeBounded
<1>1. Init => \A c \in Conn : Within(c)
  <2> SUFFICES ASSUME Init, NEW c \in Conn PROVE Within(c)
    OBVIOUS
  <2>1. /\ charged[c] = 0 /\ loose[c] = 0 /\ count[c] = 0 /\ held[c] = 0 /\ wire[c] = 0
        /\ last[c] = 0 /\ hb[c] = "off" /\ ping[c] = "none" /\ call[c] = "none"
    BY DEF Init
  <2>2. LeftInCount(c) = 1 /\ LeftInHeld(c) = 0 /\ Closing(c) = 0
    BY <2>1 DEF LeftInCount, LeftInHeld, Closing
  <2>3. Often \in Nat
    BY Bounds DEF Often
  <2>4. Times(Often, 0) = 0 /\ Times(1, 0) = 0 /\ Times(0, 0) = 0
    BY <2>3, TimesFacts
  <2> QED BY <2>1, <2>2, <2>4 DEF Within, Owed
<1>2. Known /\ Known' /\ (\A c \in Conn : Within(c)) /\ [Next]_vars => (\A c \in Conn : Within(c))'
  <2> SUFFICES ASSUME Known, Known', \A c \in Conn : Within(c), [Next]_vars
               PROVE  \A c \in Conn : Within(c)'
    OBVIOUS
  <2>1. ASSUME NEW c \in Conn, OthersStill(c), \A d \in Conn \ {c} : last'[d] = last[d], Within(c)'
        PROVE  \A d \in Conn : Within(d)'
    BY <2>1 DEF OthersStill, Still, Within, Owed, LeftInCount, LeftInHeld, Closing
  <2>2. ASSUME NEW c \in Conn, Handled(c) PROVE \A d \in Conn : Within(d)'
    <3>1. \A d \in Conn \ {c} : last'[d] = last[d]
      BY <2>2 DEF Handled, Handler, Connect, AuthorizeFails, Dial, DialFails, StartRelay,
                  RelayEnds, StartClose, CloseReturns, byteVars, Known, TypeInv, TypeOK
    <3> QED BY <2>1, <2>2, <3>1, HandledEffect, WithinHandled DEF Known
  <2>3. ASSUME NEW c \in Conn, Heart(c) PROVE \A d \in Conn : Within(d)'
    <3>1. last' = last
      BY <2>3 DEF Heart, HbTick, HbAnswered, HbFailed, HbStops, byteVars
    <3> QED BY <2>1, <2>3, <3>1, HeartEffect, WithinHeart DEF Known
  <2>4. ASSUME NEW c \in Conn, Served(c) PROVE \A d \in Conn : Within(d)'
    <3>1. last' = last
      BY <2>4 DEF Served, ServeAuthorize, ServeHeartbeat, ServeClose, byteVars
    <3> QED BY <2>1, <2>4, <3>1, ServedEffect, WithinServed DEF Known
  <2>5. ASSUME NEW c \in Conn, Relayed(c) PROVE \A d \in Conn : Within(d)'
    <3>1. last' = last
      BY <2>5 DEF Relayed, Forward, Count
    <3> QED BY <2>1, <2>5, <3>1, RelayedEffect, WithinRelayed DEF Known
  <2>6. ASSUME NEW c \in Conn, Lose(c) PROVE \A d \in Conn : Within(d)'
    <3>1. last' = last
      BY <2>6 DEF Lose, byteVars
    <3> QED BY <2>1, <2>6, <3>1, LoseEffect, WithinLose DEF Known
  <2>7. ASSUME Sweep \/ SetAllowed \/ Clock \/ UNCHANGED vars, NEW d \in Conn PROVE Within(d)'
    <3>1. UNCHANGED <<gw, hb, failures, loose, count, held, last, wire, ping, call, charged>>
      BY <2>7 DEF Sweep, SetAllowed, Clock, vars, gwVars, byteVars, netVars, rowVars
    <3> QED BY <3>1 DEF Within, Owed, LeftInCount, LeftInHeld, Closing
  <2> QED BY <2>2, <2>3, <2>4, <2>5, <2>6, <2>7, StepForms
<1>3. Known /\ (\A c \in Conn : Within(c)) => OverchargeBounded
  <2> SUFFICES ASSUME Known, NEW c \in Conn, Within(c)
               PROVE  charged[c] <= (MaxFailures + 1) * wire[c]
    BY DEF OverchargeBounded
  <2>1. Owed(c) \in Nat /\ charged[c] <= Times(Often, wire[c])
    BY OwedFacts DEF Owed, Within
  <2> QED BY <2>1 DEF Times, Often
<1> QED BY <1>1, <1>2, <1>3, KnownAlways, PTL DEF Spec
-----------------------------------------------------------------------------
(***************************************************************************)
(* Relays that should be cut.  Time without entitlement is time since the  *)
(* last heartbeat that was answered with "continue", and every tick since  *)
(* then has added a failure: Grace is when the last of them is given up.   *)
(***************************************************************************)
Missed(c) ==
    IF hb[c] # "posting" THEN failures[c]
    ELSE IF ping[c] = "continue" THEN 0 ELSE failures[c] + 1

Limit(c) == Missed(c) * HbEvery + (HbEvery - timer[c])

Cut(c) ==
    /\ overtime[c].ended <= Grace /\ overtime[c].refused <= Grace
    /\ gw[c] = "relaying" /\ ~cancelled[c] =>
          overtime[c].ended <= Limit(c) /\ overtime[c].refused <= Limit(c)
    /\ row[c] # "ended" => overtime[c].ended = 0
    /\ allowed => overtime[c].refused = 0

LEMMA Products ==
    /\ \A n \in Nat : n * HbEvery \in Nat /\ (n + 1) * HbEvery = n * HbEvery + HbEvery
    /\ \A n, m \in Nat : n <= m => n * HbEvery <= m * HbEvery
    /\ 0 * HbEvery = 0
    /\ Grace \in Nat /\ Grace = MaxFailures * HbEvery + PostTimeout
<1>1. \A n \in Nat : n * HbEvery \in Nat /\ (n + 1) * HbEvery = n * HbEvery + HbEvery
  BY Bounds
<1>2. ASSUME NEW n \in Nat, NEW m \in Nat, n <= m PROVE n * HbEvery <= m * HbEvery
  <2>1. PICK k \in Nat : m = n + k
    <3>1. m - n \in Nat /\ m = n + (m - n)
      BY <1>2
    <3> QED BY <3>1
  <2>2. m * HbEvery = n * HbEvery + k * HbEvery /\ k * HbEvery \in Nat /\ n * HbEvery \in Nat
    BY <2>1, Bounds
  <2> QED BY <2>2
<1> QED BY <1>1, <1>2, Bounds DEF Grace

\* The limit of a relay is within Grace, and rises with time.
LEMMA LimitFacts ==
    ASSUME Known, NEW c \in Conn, gw[c] = "relaying", ~cancelled[c]
    PROVE  /\ Limit(c) \in Nat /\ Limit(c) <= Grace /\ Missed(c) \in Nat
           /\ Missed(c) <= MaxFailures /\ timer[c] \in Nat /\ timer[c] <= HbEvery
           /\ hb[c] = "posting" => HbEvery - timer[c] <= PostTimeout
           /\ hb[c] = "waiting" => Missed(c) + 1 <= MaxFailures
<1>1. TypeOK /\ Beat(c) /\ Order(c)
  BY DEF Known, TypeInv
<1>2. /\ timer[c] \in Nat /\ timer[c] <= HbEvery /\ failures[c] \in Nat /\ failures[c] < MaxFailures
      /\ spent[c].ping \in Nat /\ spent[c].ping <= PostTimeout
      /\ hb[c] \in {"waiting", "posting"}
  BY <1>1, TypeFacts DEF Order
<1>3. /\ Missed(c) \in Nat /\ Missed(c) <= MaxFailures
      /\ hb[c] = "waiting" => Missed(c) + 1 <= MaxFailures
  BY <1>2, Bounds DEF Missed
<1>4. hb[c] = "posting" => HbEvery - timer[c] <= PostTimeout
  BY <1>1, <1>2, Bounds DEF Beat
<1>5. Limit(c) \in Nat
  <2>1. Missed(c) * HbEvery \in Nat /\ HbEvery - timer[c] \in Nat
    BY <1>2, <1>3, Products, Bounds
  <2> QED BY <2>1 DEF Limit
<1>6. Limit(c) <= Grace
  <2>1. CASE hb[c] = "posting"
    <3>1. Missed(c) * HbEvery <= MaxFailures * HbEvery
      BY <1>3, Products, Bounds
    <3> HIDE DEF Missed
    <3> QED BY <1>2, <1>3, <1>4, <2>1, <3>1, Products, Bounds DEF Limit
  <2>2. CASE hb[c] = "waiting"
    <3>1. (Missed(c) + 1) * HbEvery <= MaxFailures * HbEvery
      BY <1>3, <2>2, Products, Bounds
    <3>2. (Missed(c) + 1) * HbEvery = Missed(c) * HbEvery + HbEvery /\ Missed(c) * HbEvery \in Nat
      BY <1>3, Products
    <3> QED BY <1>2, <3>1, <3>2, Products, Bounds DEF Limit
  <2> QED BY <1>2, <2>1, <2>2
<1> QED BY <1>2, <1>3, <1>4, <1>5, <1>6

LEMMA StillCut ==
    ASSUME NEW d \in Conn, Cut(d), Still(d), Ages(d), overtime'[d] = overtime[d],
           allowed' = allowed
    PROVE  Cut(d)'
BY DEF Cut, Still, Ages, Limit, Missed, Stale

\* A step of the goroutines: the limit of a relay that goes on does not sink.
LEMMA CutMoves ==
    ASSUME Known, NEW c \in Conn, Cut(c), row'[c] = row[c], overtime'[c] = overtime[c],
           allowed' = allowed,
           gw'[c] = "relaying" /\ ~cancelled'[c] =>
              /\ gw[c] = "relaying" /\ ~cancelled[c]
              /\ Limit(c)' \in Nat /\ Limit(c) <= Limit(c)'
    PROVE  Cut(c)'
<1>1. /\ overtime[c].ended \in Nat /\ overtime[c].refused \in Nat
      /\ gw[c] = "relaying" /\ ~cancelled[c] => Limit(c) \in Nat
  BY TypeFacts, LimitFacts DEF Known, TypeInv
<1> QED BY <1>1 DEF Cut

LEMMA CutHandled ==
    ASSUME Known, NEW c \in Conn, Cut(c), Handled(c)
    PROVE  Cut(c)'
<1>0. TypeInv
  BY DEF Known
<1>1. UNCHANGED <<failures, ping, row, allowed, overtime>>
  BY <1>0, HandledEffect
<1>2. CASE gw'[c] = "relaying"
  <2>1. gw[c] = "dialing" /\ hb'[c] = "waiting" /\ timer'[c] = HbEvery
    BY <1>0, <1>2, HandledEffect DEF HandlerMoves
  <2>2. failures[c] = 0 /\ overtime[c].ended = 0 /\ overtime[c].refused = 0
    BY <2>1 DEF Known, Order, Early
  <2>3. Limit(c)' = 0
    BY <1>1, <2>1, <2>2, Products, Bounds DEF Limit, Missed
  <2> QED BY <1>1, <2>2, <2>3 DEF Cut
<1>3. CASE gw'[c] # "relaying"
  BY <1>1, <1>3 DEF Cut
<1> QED BY <1>2, <1>3

LEMMA LimitHeart ==
    ASSUME Known, NEW c \in Conn, Heart(c), ~cancelled'[c]
    PROVE  ~cancelled[c] /\ Limit(c)' = Limit(c)
<1>0. /\ TypeInv
      /\ failures[c] \in Nat /\ timer[c] \in Nat /\ timer[c] <= HbEvery
  BY TypeFacts DEF Known, TypeInv
<1>1. HeartMoves(c)
  BY <1>0, HeartEffect
<1>2. CASE /\ hb[c] = "waiting" /\ timer[c] = 0 /\ hb'[c] = "posting" /\ timer'[c] = HbEvery
           /\ ping'[c] = IF cancelled[c] THEN "lost" ELSE "request"
           /\ cancelled'[c] = cancelled[c] /\ failures'[c] = failures[c]
  <2>1. Missed(c) = failures[c] /\ Missed(c)' = failures[c] + 1
    BY <1>2 DEF Missed
  <2>2. /\ failures[c] * HbEvery \in Nat
        /\ (failures[c] + 1) * HbEvery = failures[c] * HbEvery + HbEvery
    BY <1>0, Products
  <2>3. HbEvery - timer[c] = HbEvery /\ HbEvery - timer'[c] = 0
    BY <1>2, Bounds
  <2>4. /\ Limit(c) = failures[c] * HbEvery + HbEvery
        /\ Limit(c)' = (failures[c] + 1) * HbEvery + 0
    BY <2>1, <2>3 DEF Limit
  <2> QED BY <1>2, <2>2, <2>4, Bounds
<1>3. CASE hb[c] = "posting" /\ ping[c] = "continue" /\ GoesOn(c, 0)
  BY <1>3 DEF Limit, Missed, GoesOn
<1>4. CASE hb[c] = "posting" /\ ping[c] \in {"missing", "lost"} /\ GoesOn(c, failures[c] + 1)
  BY <1>4 DEF Limit, Missed, GoesOn
<1> QED BY <1>1, <1>2, <1>3, <1>4 DEF HeartMoves, EndsLoop

LEMMA CutHeart ==
    ASSUME Known, NEW c \in Conn, Cut(c), Heart(c)
    PROVE  Cut(c)'
<1>1. UNCHANGED <<gw, row, allowed, overtime>>
  BY HeartEffect DEF Known
<1>2. gw'[c] = "relaying" /\ ~cancelled'[c] =>
         gw[c] = "relaying" /\ ~cancelled[c] /\ Limit(c)' \in Nat /\ Limit(c) <= Limit(c)'
  BY <1>1, LimitHeart, LimitFacts
<1> QED BY <1>1, <1>2, CutMoves

LEMMA LimitServed ==
    ASSUME Known, NEW c \in Conn, Served(c)
    PROVE  Limit(c)' \in Nat
<1>1. /\ TypeInv
      /\ failures[c] \in Nat /\ timer[c] \in Nat /\ timer[c] <= HbEvery
  BY TypeFacts DEF Known, TypeInv
<1>2. UNCHANGED <<hb, timer, failures>>
  BY <1>1, ServedEffect
<1>3. Missed(c)' \in Nat
  BY <1>1, <1>2 DEF Missed
<1>4. Missed(c)' * HbEvery \in Nat /\ HbEvery - timer'[c] \in Nat
  <2>1. \A n \in Nat : n * HbEvery \in Nat
    BY Products
  <2>2. HbEvery - timer'[c] \in Nat
    BY <1>1, <1>2, Bounds
  <2> QED BY <1>3, <2>1, <2>2
<1> QED BY <1>4 DEF Limit

LEMMA CutServed ==
    ASSUME Known, NEW c \in Conn, Cut(c), Served(c)
    PROVE  Cut(c)'
<1>0. /\ TypeInv /\ Order(c)
      /\ failures[c] \in Nat /\ timer[c] \in Nat /\ timer[c] <= HbEvery
  BY TypeFacts DEF Known, TypeInv
<1>1. UNCHANGED <<gw, hb, cancelled, timer, failures, allowed, overtime>> /\ ServedMoves(c)
  BY <1>0, ServedEffect
<1>2. row'[c] # "ended" => overtime[c].ended = 0
  BY <1>0, <1>1 DEF ServedMoves, Cut, Order, Ages
<1>3. ASSUME gw[c] = "relaying", ~cancelled[c]
      PROVE  overtime[c].ended <= Limit(c)' /\ overtime[c].refused <= Limit(c)'
  <2>1. CASE ping'[c] = "continue" /\ ping[c] # "continue"
    <3>1. overtime[c].ended = 0 /\ overtime[c].refused = 0
      BY <1>1, <2>1 DEF ServedMoves, Cut, Verdict
    <3>2. Limit(c)' \in Nat
      BY LimitServed
    <3> QED BY <3>1, <3>2
  <2>2. CASE ~(ping'[c] = "continue" /\ ping[c] # "continue")
    <3>1. ping'[c] = ping[c] \/ (ping[c] = "request" /\ ping'[c] # "continue")
      BY <1>1, <2>2 DEF ServedMoves
    <3>2. Missed(c)' = Missed(c)
      BY <1>1, <3>1 DEF Missed
    <3> QED BY <1>1, <1>3, <3>2 DEF Limit, Cut
  <2> QED BY <2>1, <2>2
<1> QED BY <1>1, <1>2, <1>3 DEF Cut

LEMMA LimitLose ==
    ASSUME Known, NEW c \in Conn, Lose(c)
    PROVE  Limit(c)' \in Nat /\ Limit(c) <= Limit(c)'
<1>0. /\ TypeInv
      /\ failures[c] \in Nat /\ timer[c] \in Nat /\ timer[c] <= HbEvery
  BY TypeFacts DEF Known, TypeInv
<1>1. /\ UNCHANGED <<hb, timer, failures>>
      /\ ping'[c] # "continue" \/ ping'[c] = ping[c]
  BY <1>0, LoseEffect
<1>2. Missed(c) \in Nat /\ Missed(c)' \in Nat /\ Missed(c) <= Missed(c)'
  BY <1>0, <1>1 DEF Missed
<1>3. /\ Missed(c) * HbEvery \in Nat /\ Missed(c)' * HbEvery \in Nat
      /\ Missed(c) * HbEvery <= Missed(c)' * HbEvery
      /\ HbEvery - timer[c] \in Nat
  <2>1. ASSUME NEW n \in Nat, NEW m \in Nat, n <= m
        PROVE  n * HbEvery \in Nat /\ m * HbEvery \in Nat /\ n * HbEvery <= m * HbEvery
    BY <2>1, Products
  <2>2. HbEvery - timer[c] \in Nat
    BY <1>0, Bounds
  <2> QED BY <1>2, <2>1, <2>2
<1> QED BY <1>1, <1>3 DEF Limit

LEMMA CutLose ==
    ASSUME Known, NEW c \in Conn, Cut(c), Lose(c)
    PROVE  Cut(c)'
<1>1. UNCHANGED <<gw, cancelled, row, allowed, overtime>>
  BY LoseEffect DEF Known
<1> QED BY <1>1, LimitLose, CutMoves

\* Time counts against a relay no faster than its limit rises.
LEMMA CutClock ==
    ASSUME Known, NEW d \in Conn, Cut(d), Clock
    PROVE  Cut(d)'
<1>0. TypeInv /\ TypeInv' /\ Order(d)
  <2>1. [Next]_vars
    BY DEF Next
  <2> QED BY <2>1, TypeStep DEF Known
<1>1. UNCHANGED <<gw, hb, cancelled, failures, ping, row, allowed>>
  BY DEF Clock
<1>2. /\ overtime'[d].ended = IF gw[d] = "relaying" /\ row[d] = "ended"
                              THEN overtime[d].ended + 1 ELSE 0
      /\ overtime'[d].refused = IF gw[d] = "relaying" /\ ~allowed
                                THEN overtime[d].refused + 1 ELSE 0
  BY <1>0, ClockEffect
<1>3. overtime[d].ended \in Nat /\ overtime[d].refused \in Nat /\ Grace \in Nat
  BY <1>0, TypeFacts, Products DEF TypeInv
<1>4. CASE gw[d] # "relaying"
  BY <1>1, <1>2, <1>3, <1>4 DEF Cut
<1>5. CASE gw[d] = "relaying"
  <2>1. Patient(d) /\ ~cancelled[d] /\ hb[d] \in {"waiting", "posting"}
    BY <1>0, <1>5 DEF Clock, Patient, Order
  <2>2. /\ Limit(d) \in Nat /\ Missed(d) \in Nat /\ Missed(d) <= MaxFailures
        /\ timer[d] \in Nat /\ timer[d] <= HbEvery
        /\ hb[d] = "waiting" => Missed(d) + 1 <= MaxFailures
    BY <1>5, <2>1, LimitFacts
  <2>3. timer'[d] = timer[d] - 1 /\ Missed(d)' = Missed(d)
    BY <1>0, <1>1, <2>1, ClockEffect DEF Missed
  <2>4. Missed(d) * HbEvery \in Nat /\ MaxFailures * HbEvery \in Nat
    BY <2>2, Products, Bounds
  <2>5. Limit(d)' = Limit(d) + 1
    BY <2>2, <2>3, <2>4, Bounds DEF Limit
  <2>6. Limit(d) + 1 <= Grace
    <3>1. CASE hb[d] = "waiting"
      <4>1. /\ (Missed(d) + 1) * HbEvery <= MaxFailures * HbEvery
            /\ (Missed(d) + 1) * HbEvery = Missed(d) * HbEvery + HbEvery
        BY <2>2, <3>1, Products, Bounds
      <4>2. timer[d] > 0 /\ HbEvery - timer[d] + 1 <= HbEvery /\ HbEvery - timer[d] \in Nat
        BY <2>1, <2>2, <3>1, Bounds DEF Patient
      <4>3. Grace >= Missed(d) * HbEvery + HbEvery
        BY <2>4, <4>1, Products, Bounds
      <4> QED BY <2>4, <4>2, <4>3, <1>3, Bounds DEF Limit
    <3>2. CASE hb[d] = "posting"
      <4>1. HbEvery - timer'[d] <= PostTimeout
        <5>1. /\ timer'[d] + spent'[d].ping = HbEvery
              /\ spent'[d].ping \in Nat /\ spent'[d].ping <= PostTimeout
          <6>1. \A x \in Conn : spent'[x] \in Spent
            BY <1>0 DEF TypeInv, TypeOK, Spent
          <6> QED BY <1>0, <1>1, <3>2, <6>1, Bounds DEF TypeInv, Beat, Spent
        <5> QED BY <2>2, <2>3, <5>1, Bounds
      <4>2. Missed(d) * HbEvery <= MaxFailures * HbEvery
        BY <2>2, Products, Bounds
      <4> QED BY <2>2, <2>3, <2>4, <4>1, <4>2, Products, Bounds DEF Limit
    <3> QED BY <2>1, <3>1, <3>2
  <2> QED BY <1>1, <1>2, <1>3, <1>5, <2>1, <2>2, <2>5, <2>6 DEF Cut
<1> QED BY <1>4, <1>5

LEMMA CutStep ==
    ASSUME Known, \A c \in Conn : Cut(c), [Next]_vars
    PROVE  \A c \in Conn : Cut(c)'
<1>0. TypeInv
  BY DEF Known
<1>1. ASSUME NEW c \in Conn, OthersStill(c), overtime' = overtime, allowed' = allowed,
             \A d \in Conn \ {c} : Ages(d), Cut(c)'
      PROVE  \A d \in Conn : Cut(d)'
  BY <1>1, StillCut DEF OthersStill
<1>2. ASSUME NEW c \in Conn, Handled(c) PROVE \A d \in Conn : Cut(d)'
  BY <1>0, <1>1, <1>2, CutHandled, HandledEffect DEF Ages
<1>3. ASSUME NEW c \in Conn, Heart(c) PROVE \A d \in Conn : Cut(d)'
  BY <1>0, <1>1, <1>3, CutHeart, HeartEffect DEF Ages
<1>4. ASSUME NEW c \in Conn, Served(c) PROVE \A d \in Conn : Cut(d)'
  BY <1>0, <1>1, <1>4, CutServed, ServedEffect
<1>5. ASSUME NEW c \in Conn, Relayed(c) PROVE \A d \in Conn : Cut(d)'
  <2>1. Cut(c)'
    BY <1>0, <1>5, RelayedEffect DEF Cut, Limit, Missed
  <2> QED BY <1>0, <1>1, <1>5, <2>1, RelayedEffect DEF Ages
<1>6. ASSUME NEW c \in Conn, Lose(c) PROVE \A d \in Conn : Cut(d)'
  BY <1>0, <1>1, <1>6, CutLose, LoseEffect DEF Ages
<1>7. ASSUME Sweep, NEW d \in Conn PROVE Cut(d)'
  BY <1>7, SweptRow DEF Sweep, Cut, Limit, Missed, Stale, gwVars, byteVars, netVars
<1>8. ASSUME SetAllowed, NEW d \in Conn PROVE Cut(d)'
  <2>1. overtime'[d].ended = overtime[d].ended /\ overtime'[d].refused = 0
    BY <1>0, <1>8 DEF SetAllowed, TypeInv, TypeOK
  <2>2. UNCHANGED <<gw, hb, cancelled, timer, failures, ping, row>>
    BY <1>8 DEF SetAllowed, gwVars, netVars
  <2>3. gw[d] = "relaying" /\ ~cancelled[d] => Limit(d) \in Nat /\ Limit(d)' = Limit(d)
    BY <2>2, LimitFacts DEF Limit, Missed
  <2> QED BY <2>1, <2>2, <2>3, Products DEF Cut
<1>9. ASSUME UNCHANGED vars, NEW d \in Conn PROVE Cut(d)'
  BY <1>9 DEF vars, gwVars, byteVars, netVars, rowVars, Cut, Limit, Missed
<1> QED BY <1>2, <1>3, <1>4, <1>5, <1>6, <1>7, <1>8, <1>9, CutClock, StepForms

LEMMA CutAlways == Spec => [](\A c \in Conn : Cut(c))
<1>1. Init => \A c \in Conn : Cut(c)
  BY Products DEF Init, Cut
<1>2. Known /\ (\A c \in Conn : Cut(c)) /\ [Next]_vars => (\A c \in Conn : Cut(c))'
  BY CutStep
<1> QED BY <1>1, <1>2, KnownAlways, PTL DEF Spec

\* However calls are lost and dials take their time, a relay whose row has ended
\* is cut within Grace.
THEOREM EndedRelaysAreCut == Spec => []EndedRelayIsCut
<1>1. (\A c \in Conn : Cut(c)) => EndedRelayIsCut
  BY DEF Cut, EndedRelayIsCut
<1> QED BY <1>1, CutAlways, PTL

\* And so is every relay of a user who may no longer use the service.
THEOREM RefusedRelaysAreCut == Spec => []RefusedRelayIsCut
<1>1. (\A c \in Conn : Cut(c)) => RefusedRelayIsCut
  BY DEF Cut, RefusedRelayIsCut
<1> QED BY <1>1, CutAlways, PTL
-----------------------------------------------------------------------------
(***************************************************************************)
(* Prompt calls and dials.  From the admission of a connection to its      *)
(* first heartbeat, and from one heartbeat that is served to the next, no  *)
(* more time passes than a row may be idle, provided the answers, the dial *)
(* and the calls that may be lost in a row fit into session_stale_seconds. *)
(***************************************************************************)
Prompt == 2 * Latency + MaxDial + (LossesInRow + 1) * HbEvery <= StaleAfter

\* A row is as old as the time its connection has taken so far, or younger.
Fresh(c) ==
    /\ gw[c] = "authorizing" /\ call[c] \in {"authorize", "admitted"} => spent[c].call <= Latency
    /\ gw[c] = "authorizing" /\ call[c] = "admitted" => row[c] = "open" /\ idle[c] <= spent[c].call
    /\ gw[c] = "dialing" =>
          row[c] = "open" /\ spent[c].call <= MaxDial /\ idle[c] <= Latency + spent[c].call
    /\ gw[c] = "relaying" => row[c] = "open" /\ idle[c] <= StaleAfter
    /\ gw[c] = "relaying" /\ ~cancelled[c] =>
          /\ idle[c] <= Latency + MaxDial + Limit(c)
          /\ failures[c] <= LossesInRow
          /\ hb[c] = "posting" => /\ ping[c] \in {"request", "continue", "stop", "lost"}
                                  /\ ping[c] = "lost" => failures[c] < LossesInRow
                                  /\ ping[c] # "lost" => spent[c].ping <= Latency

Needed(c) ==
    \/ gw[c] = "authorizing" /\ call[c] = "admitted"
    \/ gw[c] \in {"dialing", "relaying"}

LEMMA PromptFacts ==
    ASSUME Prompt
    PROVE  /\ (LossesInRow + 1) * HbEvery \in Nat
           /\ (LossesInRow + 1) * HbEvery = LossesInRow * HbEvery + HbEvery
           /\ LossesInRow * HbEvery \in Nat
           /\ Latency + Latency + MaxDial + (LossesInRow + 1) * HbEvery <= StaleAfter
BY Products, Bounds DEF Prompt

\* The row of a connection that still needs it is not stale.
LEMMA NeededStays ==
    ASSUME Prompt, Known, NEW c \in Conn, Fresh(c), Needed(c)
    PROVE  row[c] = "open" /\ idle[c] <= StaleAfter /\ ~Stale(c)
<1>1. idle[c] \in Nat /\ spent[c].call \in Nat
  BY TypeFacts DEF Known, TypeInv
<1>2. row[c] = "open" /\ idle[c] <= StaleAfter
  BY <1>1, PromptFacts, Bounds DEF Needed, Fresh
<1> QED BY <1>1, <1>2, Bounds DEF Stale

LEMMA StillFresh ==
    ASSUME Prompt, Known, NEW d \in Conn, Fresh(d), Still(d), Ages(d), idle'[d] = idle[d]
    PROVE  Fresh(d)'
<1>1. Needed(d) => row'[d] = row[d]
  BY NeededStays DEF Ages
<1>2. Limit(d)' = Limit(d)
  BY DEF Still, Limit, Missed
<1> QED BY <1>1, <1>2 DEF Fresh, Still, Needed

LEMMA FreshHandled ==
    ASSUME Prompt, Known, NEW c \in Conn, Fresh(c), Handled(c)
    PROVE  Fresh(c)'
<1>0. /\ TypeInv /\ Order(c) /\ idle[c] \in Nat /\ spent[c].call \in Nat /\ spent[c].ping \in Nat
  BY TypeFacts DEF Known, TypeInv
<1>1. /\ UNCHANGED <<failures, ping, row, idle>>
      /\ spent'[c].ping = spent[c].ping /\ spent'[c].call = 0
  BY <1>0, HandledEffect
<1>2. CASE gw'[c] = "relaying"
  <2>1. gw[c] = "dialing" /\ hb'[c] = "waiting" /\ timer'[c] = HbEvery
    BY <1>0, <1>2, HandledEffect DEF HandlerMoves
  <2>2. failures[c] = 0 /\ Limit(c)' = 0
    <3>1. failures[c] = 0
      BY <1>0, <2>1 DEF Order, Early
    <3> QED BY <1>1, <2>1, <3>1, Products, Bounds DEF Limit, Missed
  <2>3. row[c] = "open" /\ idle[c] <= Latency + MaxDial
    BY <1>0, <2>1, Bounds DEF Fresh
  <2> QED BY <1>0, <1>1, <1>2, <2>1, <2>2, <2>3, PromptFacts, Bounds DEF Fresh
<1>3. CASE gw'[c] = "dialing"
  <2>1. gw[c] = "authorizing" /\ call[c] = "admitted"
    BY <1>0, <1>3, HandledEffect DEF HandlerMoves
  <2>2. row[c] = "open" /\ idle[c] <= Latency
    BY <1>0, <2>1, Bounds DEF Fresh
  <2> QED BY <1>1, <1>3, <2>2, <1>0, Bounds DEF Fresh
<1>4. CASE gw'[c] \notin {"relaying", "dialing"}
  <2>1. gw'[c] = "authorizing" => call'[c] = "authorize"
    BY <1>0, <1>4, HandledEffect DEF HandlerMoves
  <2> QED BY <1>1, <1>4, <2>1, Bounds DEF Fresh
<1> QED BY <1>2, <1>3, <1>4

LEMMA FreshHeart ==
    ASSUME Prompt, Known, NEW c \in Conn, Fresh(c), Heart(c)
    PROVE  Fresh(c)'
<1>0. /\ TypeInv /\ idle[c] \in Nat /\ failures[c] \in Nat
      /\ timer[c] \in Nat /\ timer[c] <= HbEvery
  BY TypeFacts DEF Known, TypeInv
<1>1. /\ UNCHANGED <<gw, call, row, idle>> /\ spent'[c].call = spent[c].call
      /\ HeartMoves(c)
  BY <1>0, HeartEffect
<1>2. SUFFICES ASSUME gw[c] = "relaying", ~cancelled'[c]
               PROVE  /\ idle[c] <= Latency + MaxDial + Limit(c)'
                      /\ failures'[c] <= LossesInRow
                      /\ hb'[c] = "posting" =>
                            /\ ping'[c] \in {"request", "continue", "stop", "lost"}
                            /\ ping'[c] = "lost" => failures'[c] < LossesInRow
                            /\ ping'[c] # "lost" => spent'[c].ping <= Latency
  BY <1>1 DEF Fresh
<1>3. ~cancelled[c] /\ Limit(c) \in Nat /\ Limit(c)' = Limit(c)
  BY <1>0, <1>1, <1>2, LimitHeart, LimitFacts DEF Known
<1>4. idle[c] <= Latency + MaxDial + Limit(c)' /\ failures[c] <= LossesInRow
  BY <1>2, <1>3 DEF Fresh
<1>5. CASE /\ hb[c] = "waiting" /\ hb'[c] = "posting" /\ spent'[c].ping = 0
           /\ ping'[c] = IF cancelled[c] THEN "lost" ELSE "request"
           /\ failures'[c] = failures[c]
  BY <1>3, <1>4, <1>5, Bounds
<1>6. CASE GoesOn(c, 0)
  BY <1>4, <1>6, Bounds DEF GoesOn
<1>7. CASE hb[c] = "posting" /\ ping[c] \in {"missing", "lost"} /\ GoesOn(c, failures[c] + 1)
  <2>1. failures[c] < LossesInRow
    BY <1>2, <1>3, <1>7 DEF Fresh
  <2> QED BY <1>0, <1>4, <1>7, <2>1, Bounds DEF GoesOn
<1> QED BY <1>1, <1>2, <1>5, <1>6, <1>7 DEF HeartMoves, EndsLoop

LEMMA FreshServed ==
    ASSUME Prompt, Known, NEW c \in Conn, Fresh(c), Served(c)
    PROVE  Fresh(c)'
<1>0. /\ TypeInv /\ Order(c) /\ idle[c] \in Nat /\ spent[c].call \in Nat
      /\ failures[c] \in Nat /\ timer[c] \in Nat /\ timer[c] <= HbEvery
  BY TypeFacts DEF Known, TypeInv
<1>1. UNCHANGED <<gw, hb, cancelled, timer, failures, spent>> /\ ServedMoves(c)
  BY <1>0, ServedEffect
<1>2. CASE call[c] = "authorize" /\ ping'[c] = ping[c]
  <2>1. gw[c] \notin {"dialing", "relaying"}
    BY <1>0, <1>2 DEF Order
  <2>2. \/ call'[c] = "admitted" /\ row'[c] = "open" /\ idle'[c] = 0
        \/ call'[c] = "denied"
    BY <1>0, <1>1, <1>2 DEF ServedMoves, Verdict
  <2> QED BY <1>0, <1>1, <1>2, <2>1, <2>2 DEF Fresh
<1>3. CASE ping[c] = "request" /\ row'[c] = row[c] /\ call'[c] = call[c]
  <2>1. \/ /\ idle'[c] = 0 /\ ping'[c] \in {"continue", "stop"}
        \/ /\ row[c] # "open" /\ idle'[c] = idle[c]
    BY <1>1, <1>3 DEF ServedMoves, Verdict
  <2>2. CASE Needed(c)
    <3>1. idle'[c] = 0 /\ ping'[c] \in {"continue", "stop"} /\ row[c] = "open"
      BY <2>1, <2>2, NeededStays
    <3>2. Limit(c)' \in Nat
      BY LimitServed
    <3>3. gw[c] = "relaying" => 0 <= StaleAfter /\ 0 <= Latency + MaxDial + Limit(c)'
      BY <3>2, Bounds
    <3> QED BY <1>0, <1>1, <1>3, <3>1, <3>3, Bounds DEF Fresh
  <2>3. CASE ~Needed(c)
    BY <1>1, <1>3, <2>3 DEF Fresh, Needed
  <2> QED BY <2>2, <2>3
<1>4. CASE call[c] = "close" /\ call'[c] = "closed" /\ ping'[c] = ping[c] /\ idle'[c] = idle[c]
  <2>1. gw[c] \notin {"authorizing", "dialing", "relaying"}
    BY <1>0, <1>4 DEF Order
  <2> QED BY <1>1, <2>1 DEF Fresh
<1> QED BY <1>1, <1>2, <1>3, <1>4 DEF ServedMoves

LEMMA FreshLose ==
    ASSUME Prompt, Known, NEW c \in Conn, Fresh(c), Lose(c)
    PROVE  Fresh(c)'
<1>0. /\ TypeInv /\ idle[c] \in Nat
  BY TypeFacts DEF Known, TypeInv
<1>1. /\ UNCHANGED <<gw, hb, cancelled, timer, failures, spent, row, idle>>
      /\ failures[c] < LossesInRow
      /\ \/ ping'[c] = (IF hb[c] = "posting" THEN "lost" ELSE "none") /\ call'[c] = call[c]
         \/ call'[c] = "lost" /\ ping'[c] = ping[c]
  BY <1>0, LoseEffect
<1>2. ASSUME gw[c] = "relaying", ~cancelled[c]
      PROVE  idle[c] <= Latency + MaxDial + Limit(c)'
  <2>1. Limit(c) \in Nat /\ Limit(c)' \in Nat /\ Limit(c) <= Limit(c)'
    BY <1>2, LimitLose, LimitFacts
  <2> QED BY <1>0, <1>2, <2>1, Bounds DEF Fresh
<1>3. call'[c] \in {"authorize", "admitted"} => call'[c] = call[c]
  BY <1>1
<1> QED BY <1>1, <1>2, <1>3 DEF Fresh

LEMMA FreshClock ==
    ASSUME Prompt, Known, NEW d \in Conn, Fresh(d), Clock
    PROVE  Fresh(d)'
<1>0. /\ TypeInv /\ Order(d) /\ idle[d] \in Nat /\ spent[d].call \in Nat /\ spent[d].ping \in Nat
  BY TypeFacts DEF Known, TypeInv
<1>1. UNCHANGED <<gw, hb, cancelled, failures, ping, call, row>> /\ Patient(d)
  BY DEF Clock
<1>2. idle'[d] \in Nat /\ idle'[d] <= idle[d] + 1
  <2>1. idle'[d] = IF row[d] = "open" THEN Up(idle[d], StaleAfter + 1) ELSE idle[d]
    BY DEF Clock
  <2> QED BY <1>0, <2>1, Bounds DEF Up
<1>3. /\ gw[d] \in {"authorizing", "dialing"} => spent'[d].call = spent[d].call + 1
      /\ hb[d] = "posting" => spent'[d].ping = spent[d].ping + 1
      /\ hb[d] # "off" => timer'[d] = timer[d] - 1
  BY <1>0, ClockEffect
<1>4. CASE gw[d] = "authorizing"
  <2>1. call[d] \in {"authorize", "admitted"} => spent'[d].call <= Latency
    BY <1>0, <1>1, <1>3, <1>4, Bounds DEF Patient, Patience
  <2>2. call[d] = "admitted" => row[d] = "open" /\ idle'[d] <= spent'[d].call
    BY <1>0, <1>2, <1>3, <1>4 DEF Fresh
  <2> QED BY <1>1, <1>4, <2>1, <2>2 DEF Fresh
<1>5. CASE gw[d] = "dialing"
  <2>1. spent'[d].call <= MaxDial
    BY <1>0, <1>1, <1>3, <1>5, Bounds DEF Patient
  <2>2. row[d] = "open" /\ idle'[d] <= Latency + spent'[d].call
    BY <1>0, <1>2, <1>3, <1>5, Bounds DEF Fresh
  <2> QED BY <1>1, <1>5, <2>1, <2>2 DEF Fresh
<1>6. CASE gw[d] = "relaying"
  <2>1. ~cancelled[d] /\ hb[d] \in {"waiting", "posting"}
    BY <1>0, <1>1, <1>6 DEF Patient, Order
  <2>2. /\ Limit(d) \in Nat /\ Missed(d) \in Nat /\ timer[d] \in Nat /\ timer[d] <= HbEvery
        /\ failures[d] \in Nat /\ Missed(d)' = Missed(d)
    BY <1>0, <1>1, <1>6, <2>1, LimitFacts, TypeFacts DEF TypeInv, Missed
  <2>3. Limit(d)' = Limit(d) + 1
    <3>1. Missed(d) * HbEvery \in Nat
      BY <2>2, Products
    <3>2. timer'[d] = timer[d] - 1
      BY <1>3, <2>1
    <3> QED BY <2>2, <3>1, <3>2, Bounds DEF Limit
  <2>4. /\ idle[d] <= Latency + MaxDial + Limit(d) /\ failures[d] <= LossesInRow
        /\ hb[d] = "posting" => /\ ping[d] \in {"request", "continue", "stop", "lost"}
                                /\ ping[d] = "lost" => failures[d] < LossesInRow
    BY <1>6, <2>1 DEF Fresh
  <2>5. idle'[d] <= Latency + MaxDial + Limit(d)'
    BY <1>0, <1>2, <2>2, <2>3, <2>4, Bounds
  <2>6. hb[d] = "posting" /\ ping[d] # "lost" => spent'[d].ping <= Latency
    BY <1>0, <1>1, <1>3, Bounds DEF Patient, Patience
  <2>7. Limit(d)' <= (LossesInRow + 1) * HbEvery + Latency
    <3>1. CASE hb[d] = "waiting"
      <4>1. Missed(d) = failures[d] /\ timer[d] > 0
        BY <1>1, <3>1 DEF Missed, Patient
      <4>2. failures[d] * HbEvery \in Nat /\ failures[d] * HbEvery <= LossesInRow * HbEvery
        BY <2>2, <2>4, Products, Bounds
      <4>3. Limit(d) = failures[d] * HbEvery + (HbEvery - timer[d])
        BY <4>1 DEF Limit
      <4> QED BY <2>2, <2>3, <4>1, <4>2, <4>3, PromptFacts, Bounds
    <3>2. CASE hb[d] = "posting"
      <4>1. /\ Limit(d) = Missed(d) * HbEvery + spent[d].ping
            /\ spent'[d].ping = spent[d].ping + 1 /\ spent'[d].ping <= PostTimeout
        <5>1. timer[d] + spent[d].ping = HbEvery
          BY <1>0, <3>2 DEF TypeInv, Beat
        <5>2. HbEvery - timer[d] = spent[d].ping
          BY <1>0, <2>2, <5>1, Bounds
        <5>3. spent[d].ping < PostTimeout
          BY <1>0, <1>1, <3>2, Bounds DEF Patient, Patience
        <5> QED BY <1>0, <1>3, <3>2, <5>2, <5>3, Bounds DEF Limit
      <4>2. CASE ping[d] = "lost"
        <5>1. Missed(d) = failures[d] + 1 /\ failures[d] + 1 <= LossesInRow
          BY <2>2, <2>4, <3>2, <4>2, Bounds DEF Missed
        <5>2. Missed(d) * HbEvery \in Nat /\ Missed(d) * HbEvery <= LossesInRow * HbEvery
          <6>1. ASSUME NEW n \in Nat, n <= LossesInRow
                PROVE  n * HbEvery \in Nat /\ n * HbEvery <= LossesInRow * HbEvery
            BY <6>1, Products, Bounds
          <6> QED BY <2>2, <5>1, <6>1
        <5> QED BY <1>0, <2>3, <4>1, <5>2, PromptFacts, Bounds
      <4>3. CASE ping[d] # "lost"
        <5>1. Missed(d) <= LossesInRow + 1 /\ LossesInRow + 1 \in Nat
          BY <2>2, <2>4, <3>2, Bounds DEF Missed
        <5>2. Missed(d) * HbEvery \in Nat /\ Missed(d) * HbEvery <= (LossesInRow + 1) * HbEvery
          <6>1. ASSUME NEW n \in Nat, NEW m \in Nat, n <= m
                PROVE  n * HbEvery \in Nat /\ n * HbEvery <= m * HbEvery
            BY <6>1, Products
          <6> QED BY <2>2, <5>1, <6>1
        <5> QED BY <1>0, <2>3, <2>6, <3>2, <4>1, <4>3, <5>2, PromptFacts, Bounds
      <4> QED BY <4>2, <4>3
    <3> QED BY <2>1, <3>1, <3>2
  <2>8. idle'[d] <= StaleAfter
    <3>1. Limit(d)' \in Nat
      BY <2>2, <2>3
    <3> QED BY <1>2, <2>5, <2>7, <3>1, PromptFacts, Bounds
  <2>9. row[d] = "open"
    BY <1>6 DEF Fresh
  <2> QED BY <1>1, <1>6, <2>4, <2>5, <2>6, <2>8, <2>9 DEF Fresh
<1>7. CASE gw[d] \notin {"authorizing", "dialing", "relaying"}
  BY <1>1, <1>7 DEF Fresh
<1> QED BY <1>4, <1>5, <1>6, <1>7

LEMMA FreshStep ==
    ASSUME Prompt, Known, \A c \in Conn : Fresh(c), [Next]_vars
    PROVE  \A c \in Conn : Fresh(c)'
<1>0. TypeInv
  BY DEF Known
<1>1. ASSUME NEW c \in Conn, OthersStill(c), \A d \in Conn \ {c} : Ages(d) /\ idle'[d] = idle[d],
             Fresh(c)'
      PROVE  \A d \in Conn : Fresh(d)'
  BY <1>1, StillFresh DEF OthersStill
<1>2. ASSUME NEW c \in Conn, Handled(c) PROVE \A d \in Conn : Fresh(d)'
  BY <1>0, <1>1, <1>2, FreshHandled, HandledEffect DEF Ages
<1>3. ASSUME NEW c \in Conn, Heart(c) PROVE \A d \in Conn : Fresh(d)'
  BY <1>0, <1>1, <1>3, FreshHeart, HeartEffect DEF Ages
<1>4. ASSUME NEW c \in Conn, Served(c) PROVE \A d \in Conn : Fresh(d)'
  BY <1>0, <1>1, <1>4, FreshServed, ServedEffect
<1>5. ASSUME NEW c \in Conn, Relayed(c) PROVE \A d \in Conn : Fresh(d)'
  <2>1. Fresh(c)'
    BY <1>0, <1>5, RelayedEffect DEF Fresh, Limit, Missed
  <2> QED BY <1>0, <1>1, <1>5, <2>1, RelayedEffect DEF Ages
<1>6. ASSUME NEW c \in Conn, Lose(c) PROVE \A d \in Conn : Fresh(d)'
  BY <1>0, <1>1, <1>6, FreshLose, LoseEffect DEF Ages
<1>7. ASSUME Sweep, NEW d \in Conn PROVE Fresh(d)'
  <2>1. UNCHANGED <<gw, hb, cancelled, timer, failures, ping, call, spent, idle>>
    BY <1>7 DEF Sweep, gwVars, netVars
  <2>2. Needed(d) => row'[d] = row[d]
    BY <1>7, NeededStays, SweptRow DEF Sweep
  <2> QED BY <2>1, <2>2 DEF Fresh, Needed, Limit, Missed
<1>8. ASSUME SetAllowed \/ UNCHANGED vars, NEW d \in Conn PROVE Fresh(d)'
  <2>1. UNCHANGED <<gw, hb, cancelled, timer, failures, ping, call, spent, row, idle>>
    BY <1>8 DEF SetAllowed, vars, gwVars, netVars, rowVars
  <2> QED BY <2>1 DEF Fresh, Limit, Missed
<1> QED BY <1>2, <1>3, <1>4, <1>5, <1>6, <1>7, <1>8, FreshClock, StepForms

LEMMA FreshAlways == Prompt => (Spec => [](\A c \in Conn : Fresh(c)))
<1> SUFFICES ASSUME Prompt PROVE Spec => [](\A c \in Conn : Fresh(c))
  OBVIOUS
<1>1. Init => \A c \in Conn : Fresh(c)
  BY DEF Init, Fresh
<1>2. Known /\ (\A c \in Conn : Fresh(c)) /\ [Next]_vars => (\A c \in Conn : Fresh(c))'
  BY FreshStep
<1> QED BY <1>1, <1>2, KnownAlways, PTL DEF Spec

\* If calls and dials are prompt, no relay outlives its row.
THEOREM RelaysHaveRow == Prompt => (Spec => []RelayHasRow)
<1> SUFFICES ASSUME Prompt PROVE Spec => []RelayHasRow
  OBVIOUS
<1>1. (\A c \in Conn : Fresh(c)) => RelayHasRow
  BY DEF Fresh, RelayHasRow, Relaying
<1> QED BY <1>1, FreshAlways, PTL
-----------------------------------------------------------------------------
(***************************************************************************)
(* Addresses.  Whatever the timing, the open rows of a user come from at   *)
(* most MaxIps addresses; with prompt calls and dials, so do the relays.   *)
(***************************************************************************)
Few == Cardinality(LiveIps(row)) <= MaxIps

LEMMA LiveIpsShrink ==
    ASSUME NEW r, NEW s, \A c \in Conn : s[c] = "open" => r[c] = "open"
    PROVE  /\ LiveIps(s) \subseteq LiveIps(r) /\ IsFiniteSet(LiveIps(r)) /\ IsFiniteSet(LiveIps(s))
           /\ Cardinality(LiveIps(s)) \in Nat /\ Cardinality(LiveIps(r)) \in Nat
           /\ Cardinality(LiveIps(s)) <= Cardinality(LiveIps(r))
<1>1. LiveIps(s) \subseteq LiveIps(r)
  BY DEF LiveIps
<1>2. IsFiniteSet(LiveIps(r))
  <2>1. IsFiniteSet({x \in Conn : r[x] = "open"})
    BY FS_Subset, EdgeAssumption
  <2> DEFINE open == {x \in Conn : r[x] = "open"}
             f == [x \in open |-> IpOf[x]]
  <2>2. f \in Surjection(open, LiveIps(r))
    BY DEF Surjection, LiveIps
  <2> QED BY <2>1, <2>2, FS_Surjection
<1> QED BY <1>1, <1>2, FS_Subset, FS_CardinalityType

LEMMA FewStep ==
    ASSUME Known, Few, [Next]_vars
    PROVE  Few'
<1>0. TypeInv
  BY DEF Known
<1>1. ASSUME \A c \in Conn : row'[c] = "open" => row[c] = "open" PROVE Few'
  BY <1>1, LiveIpsShrink, Bounds DEF Few
<1>2. ASSUME NEW c \in Conn, ServeAuthorize(c), Admissible(c) PROVE Few'
  <2> DEFINE live == LiveIps(Swept)
  <2>1. LiveIps(row') = live \cup {IpOf[c]}
    <3>1. Swept \in [Conn -> {"none", "open", "ended"}]
      BY <1>0, SweptType DEF TypeInv
    <3>2. row'[c] = "open" /\ \A d \in Conn \ {c} : row'[d] = Swept[d]
      BY <1>2, <3>1 DEF ServeAuthorize
    <3>3. \A d \in Conn : row'[d] = "open" <=> Swept[d] = "open" \/ d = c
      BY <3>2
    <3> HIDE DEF Swept
    <3> QED BY <3>3 DEF LiveIps
  <2>2. /\ IsFiniteSet(live) /\ Cardinality(live) \in Nat
        /\ Cardinality(live) <= Cardinality(LiveIps(row)) /\ Cardinality(LiveIps(row)) \in Nat
    <3>1. \A d \in Conn : Swept[d] = "open" => row[d] = "open"
      BY SweptRow
    <3> QED BY <3>1, LiveIpsShrink
  <2>3. CASE IpOf[c] \in live
    <3>1. LiveIps(row') = live
      BY <2>1, <2>3
    <3> QED BY <2>2, <3>1, Bounds DEF Few
  <2>4. CASE IpOf[c] \notin live
    <3>1. Cardinality(live) < MaxIps
      BY <1>2, <2>4 DEF Admissible
    <3>2. Cardinality(live \cup {IpOf[c]}) = Cardinality(live) + 1
      BY <2>2, <2>4, FS_AddElement
    <3> QED BY <2>1, <2>2, <3>1, <3>2, Bounds DEF Few
  <2> QED BY <2>3, <2>4
<1>3. ASSUME NEW c \in Conn, Served(c), ~(ServeAuthorize(c) /\ Admissible(c)),
             NEW d \in Conn, row'[d] = "open"
      PROVE  row[d] = "open"
  BY <1>0, <1>3, SweptRow, ServedEffect
     DEF Served, ServeAuthorize, ServeHeartbeat, ServeClose, TypeInv, TypeOK
<1>4. ASSUME NEW c \in Conn, Handled(c) \/ Relayed(c) \/ Heart(c) \/ Lose(c) PROVE row' = row
  BY <1>0, <1>4, HandledEffect, RelayedEffect, HeartEffect, LoseEffect
<1>5. ASSUME Sweep, NEW d \in Conn, row'[d] = "open" PROVE row[d] = "open"
  BY <1>5, SweptRow DEF Sweep
<1>6. ASSUME SetAllowed \/ Clock \/ UNCHANGED vars PROVE row' = row
  BY <1>6 DEF SetAllowed, Clock, vars, rowVars
<1> QED BY <1>1, <1>2, <1>3, <1>4, <1>5, <1>6, StepForms DEF Served

\* The sweep before the count never lets one address too many in, with any timing
\* and any loss of calls.
THEOREM RowIpsAreFew == Spec => []Few
<1>1. Init => Few
  <2> SUFFICES ASSUME Init PROVE Few
    OBVIOUS
  <2>1. LiveIps(row) = {}
    BY DEF Init, LiveIps
  <2> QED BY <2>1, FS_EmptySet, Bounds DEF Few
<1>2. Known /\ Few /\ [Next]_vars => Few'
  BY FewStep
<1> QED BY <1>1, <1>2, KnownAlways, PTL DEF Spec

\* And then the addresses that relay are never more than the limit.
THEOREM RelayedIpsAreFew == Prompt => (Spec => []RelayedIpsWithinLimit)
<1> SUFFICES ASSUME Prompt PROVE Spec => []RelayedIpsWithinLimit
  OBVIOUS
<1>1. Few /\ RelayHasRow => RelayedIpsWithinLimit
  <2> SUFFICES ASSUME Few, RelayHasRow PROVE RelayedIpsWithinLimit
    OBVIOUS
  <2> DEFINE ips == {IpOf[c] : c \in Relaying}
  <2>1. ips \subseteq LiveIps(row)
    BY DEF RelayHasRow, LiveIps, Relaying
  <2>2. IsFiniteSet(LiveIps(row))
    BY LiveIpsShrink
  <2>3. /\ Cardinality(ips) <= Cardinality(LiveIps(row))
        /\ Cardinality(ips) \in Nat /\ Cardinality(LiveIps(row)) \in Nat
    BY <2>1, <2>2, FS_Subset, FS_CardinalityType
  <2> QED BY <2>3, Bounds DEF Few, RelayedIpsWithinLimit
<1> QED BY <1>1, RowIpsAreFew, RelaysHaveRow, PTL

-----------------------------------------------------------------------------
(***************************************************************************)
(* What Edge says of session rows implements SessionRows, as the tables of *)
(* SessionLedger do: Edge assumes nothing of the control plane that the    *)
(* ledger does not give.                                                   *)
(***************************************************************************)
Given == {c \in Conn : row[c] # "none"}
View == [c \in Given |-> Face(c)]
Limits == [u \in {"user"} |-> MaxIps]

\* Nothing is charged before there is a row.
Uncharged(c) == row[c] = "none" => charged[c] = 0

LEMMA UnchargedStep ==
    ASSUME Known, \A c \in Conn : Uncharged(c), [Next]_vars
    PROVE  \A c \in Conn : Uncharged(c)'
<1>0. /\ row \in [Conn -> {"none", "open", "ended"}] /\ charged \in [Conn -> Nat]
      /\ Swept \in [Conn -> {"none", "open", "ended"}]
      /\ \A d \in Conn : Swept[d] = "none" => row[d] = "none"
  BY SweptType DEF Known, TypeInv, TypeOK, Swept, Stale
<1>1. ASSUME charged' = charged, \A d \in Conn : row'[d] = "none" => row[d] = "none"
      PROVE  \A d \in Conn : Uncharged(d)'
  BY <1>1 DEF Uncharged
<1>2. ASSUME NEW c \in Conn, ServeAuthorize(c) PROVE \A d \in Conn : Uncharged(d)'
  <2>1. charged' = charged /\ row' \in {Swept, [Swept EXCEPT ![c] = "open"]}
    BY <1>2 DEF ServeAuthorize
  <2> HIDE DEF Swept
  <2> QED BY <1>0, <1>1, <2>1
<1>3. ASSUME NEW c \in Conn, ServeHeartbeat(c) PROVE \A d \in Conn : Uncharged(d)'
  BY <1>0, <1>3 DEF ServeHeartbeat, Uncharged
<1>4. ASSUME NEW c \in Conn, ServeClose(c) PROVE \A d \in Conn : Uncharged(d)'
  BY <1>0, <1>4 DEF ServeClose, Uncharged
<1>5. ASSUME NEW c \in Conn, Handled(c) \/ Relayed(c) \/ Heart(c) \/ Lose(c)
      PROVE  row' = row /\ charged' = charged
  BY <1>5 DEF Handled, Relayed, Connect, Handler, AuthorizeFails, Dial, DialFails, StartRelay,
     StartClose, CloseReturns, RelayEnds, Forward, Count, Heart, HbTick, HbAnswered, HbFailed,
     HbStops, Lose, rowVars
<1>6. ASSUME Sweep PROVE \A d \in Conn : Uncharged(d)'
  BY <1>0, <1>1, <1>6 DEF Sweep
<1>7. ASSUME SetAllowed \/ Clock \/ UNCHANGED vars PROVE row' = row /\ charged' = charged
  BY <1>7 DEF SetAllowed, Clock, vars, rowVars
<1> QED BY <1>1, <1>2, <1>3, <1>4, <1>5, <1>6, <1>7, StepForms DEF Served

LEMMA SameCardinality == \A S : Rows!Cardinality(S) = Cardinality(S)
BY DEF Rows!Cardinality, Cardinality

LEMMA FaceFacts ==
    ASSUME NEW c \in Conn
    PROVE  /\ row[c] = "open" => 
                Face(c) = [user |-> "user", ip |-> IpOf[c], state |-> "open", idle |-> idle[c],
                           bytes |-> charged[c]]
           /\ row[c] # "open" => 
                Face(c) = [user |-> "user", ip |-> IpOf[c], state |-> "over", idle |-> 0,
                           bytes |-> charged[c]]
           /\ Face(c).user = "user" /\ Face(c).ip = IpOf[c]
           /\ Rows!IsOpen(Face(c)) <=> row[c] = "open"
           /\ Rows!Silent(Face(c)) <=> Stale(c)
BY DEF Face, Rows!IsOpen, Rows!Silent, Stale

LEMMA OverFace ==
    ASSUME NEW u, NEW i, NEW state, NEW n, NEW b
    PROVE  Rows!Over([user |-> u, ip |-> i, state |-> state, idle |-> n, bytes |-> b])
              = [user |-> u, ip |-> i, state |-> "over", idle |-> 0, bytes |-> b]
<1> DEFINE r == [user |-> u, ip |-> i, state |-> state, idle |-> n, bytes |-> b]
           q == [r EXCEPT !.state = "over"]
<1>1. q = [user |-> u, ip |-> i, state |-> "over", idle |-> n, bytes |-> b]
  OBVIOUS
<1>2. Rows!Over(r) = [q EXCEPT !.idle = 0]
  BY Zenon DEF Rows!Over
<1> HIDE DEF q
<1>3. [q EXCEPT !.idle = 0] = [user |-> u, ip |-> i, state |-> "over", idle |-> 0, bytes |-> b]
  BY <1>1
<1> QED BY <1>2, <1>3

LEMMA ReportedFace ==
    ASSUME NEW u, NEW i, NEW state, NEW n, NEW b, NEW d, NEW to
    PROVE  Rows!Reported([user |-> u, ip |-> i, state |-> state, idle |-> n, bytes |-> b], d, to)
              = [user |-> u, ip |-> i, state |-> to, idle |-> 0, bytes |-> b + d]
<1> DEFINE r == [user |-> u, ip |-> i, state |-> state, idle |-> n, bytes |-> b]
           p == [r EXCEPT !.bytes = b + d]
           q == [p EXCEPT !.idle = 0]
<1>1. p = [user |-> u, ip |-> i, state |-> state, idle |-> n, bytes |-> b + d]
  OBVIOUS
<1>2. Rows!Reported(r, d, to) = [q EXCEPT !.state = to]
  <2>1. r.bytes = b
    OBVIOUS
  <2>2. Rows!Reported(r, d, to) = [r EXCEPT !.bytes = r.bytes + d, !.idle = 0, !.state = to]
    BY Zenon DEF Rows!Reported
  <2> HIDE DEF r
  <2> QED BY <2>1, <2>2, Zenon
<1> HIDE DEF p
<1>3. q = [user |-> u, ip |-> i, state |-> state, idle |-> 0, bytes |-> b + d]
  BY <1>1
<1> HIDE DEF q
<1>4. [q EXCEPT !.state = to] = [user |-> u, ip |-> i, state |-> to, idle |-> 0, bytes |-> b + d]
  BY <1>3
<1> QED BY <1>2, <1>4

\* The sweep of this module is the sweep of SessionRows.
LEMMA SweptFaces ==
    /\ DOMAIN View = Given /\ DOMAIN Rows!Swept = Given
    /\ \A c \in Given : /\ c \in Conn /\ View[c] = Face(c)
                        /\ Rows!Swept[c] = IF Stale(c) THEN Rows!Over(Face(c)) ELSE Face(c)
<1>1. DOMAIN View = Given /\ \A c \in Given : c \in Conn /\ View[c] = Face(c)
  BY DEF View, Given
<1>2. Rows!Swept = [c \in Given |-> IF Rows!Silent(View[c]) THEN Rows!Over(View[c]) ELSE View[c]]
  BY DEF Rows!Swept, View, Given
<1> QED BY <1>1, <1>2, FaceFacts

\* A row that the sweep ended, and one that it left alone.
LEMMA FaceAfter ==
    ASSUME NEW c \in Given, row'[c] = Swept[c], charged'[c] = charged[c], idle'[c] = idle[c]
    PROVE  Face(c)' = Rows!Swept[c]
<1>0. c \in Conn /\ Swept[c] = IF Stale(c) THEN "ended" ELSE row[c]
  BY DEF Given, Swept
<1>1. CASE Stale(c)
  <2>1. row[c] = "open" /\ row'[c] = "ended"
    BY <1>0, <1>1 DEF Stale
  <2>2. Face(c)' = [user |-> "user", ip |-> IpOf[c], state |-> "over", idle |-> 0,
                    bytes |-> charged[c]]
    BY <2>1 DEF Face
  <2> QED BY <1>0, <1>1, <2>1, <2>2, SweptFaces, FaceFacts, OverFace
<1>2. CASE ~Stale(c)
  <2>1. Face(c)' = Face(c)
    BY <1>0, <1>2 DEF Face
  <2> QED BY <1>2, <2>1, SweptFaces
<1> QED BY <1>1, <1>2

LEMMA SweepRefuses ==
    ASSUME row' = Swept, UNCHANGED <<charged, idle>>
    PROVE  Rows!Refuse
<1>1. Given' = Given
  BY DEF Given, Swept, Stale
<1>2. \A c \in Given : Face(c)' = Rows!Swept[c]
  BY FaceAfter
<1>3. View' = [c \in Given |-> Rows!Swept[c]]
  BY <1>1, <1>2 DEF View
<1>4. Rows!Swept = [c \in Given |-> Rows!Swept[c]]
  BY SweptFaces DEF Rows!Swept
<1> QED BY <1>3, <1>4 DEF Rows!Refuse, View, Given

LEMMA SweptLive == Rows!Ips("user") = LiveIps(Swept)
<1>1. ASSUME NEW c \in Given
      PROVE  /\ Rows!IsOpen(Rows!Swept[c]) <=> Swept[c] = "open"
             /\ Rows!Swept[c].user = "user" /\ Rows!Swept[c].ip = IpOf[c]
  <2>0. c \in Conn /\ Swept[c] = IF Stale(c) THEN "ended" ELSE row[c]
    BY DEF Given, Swept
  <2>1. CASE Stale(c)
    <3>0. row[c] = "open"
      BY <2>1 DEF Stale
    <3>2. Rows!Swept[c] = Rows!Over(Face(c))
      BY <2>1, SweptFaces
    <3>3. Face(c) = [user |-> "user", ip |-> IpOf[c], state |-> "open", idle |-> idle[c],
                     bytes |-> charged[c]]
      BY <2>0, <3>0, FaceFacts
    <3>1. Rows!Swept[c] = [user |-> "user", ip |-> IpOf[c], state |-> "over", idle |-> 0,
                           bytes |-> charged[c]]
      BY <3>2, <3>3, OverFace
    <3> QED BY <2>0, <2>1, <3>1 DEF Rows!IsOpen
  <2>2. CASE ~Stale(c)
    BY <2>0, <2>2, SweptFaces, FaceFacts
  <2> QED BY <2>1, <2>2
<1>2. \A c \in Conn : Swept[c] = "open" => c \in Given
  BY DEF Swept, Stale, Given
<1>3. {c \in Given : Rows!IsOpen(Rows!Swept[c]) /\ Rows!Swept[c].user = "user"}
         = {c \in Conn : Swept[c] = "open"}
  BY <1>1, <1>2 DEF Given
<1>4. Rows!Ips("user") = {Rows!Swept[c].ip : c \in {x \in Conn : Swept[x] = "open"}}
  BY <1>3 DEF Rows!Ips, View, Given
<1>5. \A c \in {x \in Conn : Swept[x] = "open"} : Rows!Swept[c].ip = IpOf[c]
  BY <1>1, <1>2
<1> QED BY <1>4, <1>5 DEF LiveIps

LEMMA AdmissionAdmits ==
    ASSUME Known, \A c \in Conn : Uncharged(c), NEW c \in Conn, ServeAuthorize(c), Admissible(c)
    PROVE  Rows!Admit(c, "user", IpOf[c])
<1>0. /\ row' = [Swept EXCEPT ![c] = "open"] /\ idle' = [idle EXCEPT ![c] = 0]
      /\ charged' = charged /\ call[c] = "authorize"
  BY DEF ServeAuthorize
<1>1. row[c] = "none" /\ c \notin Given /\ charged[c] = 0
  BY <1>0 DEF Known, Order, Given, Uncharged
<1>2. /\ idle \in [Conn -> 0..StaleAfter + 1]
      /\ Swept \in [Conn -> {"none", "open", "ended"}]
  BY SweptType DEF Known, TypeInv, TypeOK
<1>3. /\ row'[c] = "open" /\ idle'[c] = 0
      /\ \A d \in Conn \ {c} : row'[d] = Swept[d] /\ idle'[d] = idle[d]
  <2> HIDE DEF Swept
  <2> QED BY <1>0, <1>2
<1>4. Face(c)' = [user |-> "user", ip |-> IpOf[c], state |-> "open", idle |-> 0, bytes |-> 0]
  BY <1>0, <1>1, <1>3 DEF Face
<1>5. ASSUME NEW d \in Given PROVE d # c /\ d \in Conn /\ Face(d)' = Rows!Swept[d]
  BY <1>0, <1>1, <1>3, FaceAfter DEF Given
<1>6. Given' = Given \cup {c}
  <2>1. \A d \in Conn : Swept[d] # "none" <=> row[d] # "none"
    BY DEF Swept, Stale
  <2> QED BY <1>3, <2>1 DEF Given
<1>7. View' = [x \in Given \cup {c} |->
                 IF x = c THEN [user |-> "user", ip |-> IpOf[c], state |-> "open", idle |-> 0, bytes |-> 0]
                 ELSE Rows!Swept[x]]
  <2>1. View' = [x \in Given \cup {c} |-> Face(x)']
    BY <1>6 DEF View
  <2> QED BY <1>4, <1>5, <2>1
<1>8. IpOf[c] \in Rows!Ips("user") \/ Rows!Cardinality(Rows!Ips("user")) < MaxIps
  BY SweptLive, SameCardinality DEF Admissible
<1>9. Limits["user"] = MaxIps /\ DOMAIN View = Given /\ Limits' = Limits
  BY DEF Limits, View
<1> QED BY <1>1, <1>7, <1>8, <1>9 DEF Rows!Admit, View, Limits, Given

LEMMA ReportReports ==
    ASSUME NEW c \in Conn, NEW d \in 0..MaxBytes, NEW to \in {"open", "over"}, row[c] = "open",
           Given' = Given, \A x \in Given \ {c} : Face(x)' = Face(x),
           Face(c)' = [user |-> "user", ip |-> IpOf[c], state |-> to, idle |-> 0,
                       bytes |-> charged[c] + d]
    PROVE  Rows!Report(c, d, to)
<1>1. c \in Given /\ View[c] = Face(c) /\ DOMAIN View = Given /\ Rows!IsOpen(View[c])
  BY FaceFacts DEF View, Given
<1>2. Face(c)' = Rows!Reported(View[c], d, to)
  BY <1>1, FaceFacts, ReportedFace
<1>3. View' = [x \in Given |-> Face(x)']
  BY DEF View
<1>4. \A x \in Given : Face(x)' = IF x = c THEN Rows!Reported(View[c], d, to) ELSE View[x]
  BY <1>2 DEF View
<1>5. View = [x \in Given |-> View[x]]
  BY DEF View
<1>6. View' = [View EXCEPT ![c] = Rows!Reported(View[c], d, to)]
  <2> HIDE DEF View
  <2> QED BY <1>1, <1>3, <1>4, <1>5
<1>7. Limits' = Limits
  BY DEF Limits
<1> QED BY <1>1, <1>6, <1>7 DEF Rows!Report, View, Limits, Given

LEMMA OtherStepsEdit ==
    ASSUME UNCHANGED <<row, idle, charged>>
    PROVE  Rows!Edit
<1>1. Given' = Given /\ View' = View
  BY DEF Given, View, Face
<1>2. Limits' \in [{"user"} -> Nat]
  BY Bounds DEF Limits
<1> QED BY <1>1, <1>2 DEF Rows!Edit, View, Limits, Given

LEMMA ClockPasses ==
    ASSUME Known, Clock
    PROVE  Rows!Pass
<1>0. /\ UNCHANGED <<row, charged>> /\ Given' = Given /\ StaleAfter \in Nat
      /\ \A c \in Conn : /\ idle[c] \in Nat /\ idle[c] <= StaleAfter + 1
                         /\ row[c] = "open" =>
                              idle'[c] = IF idle[c] < StaleAfter + 1 THEN idle[c] + 1 ELSE idle[c]
  BY Bounds DEF Clock, Given, Up, Known, TypeInv, TypeOK
<1>1. ASSUME NEW c \in Given PROVE Face(c)' = Rows!Older(View[c])
  <2>0. c \in Conn /\ View[c] = Face(c)
    BY DEF View, Given
  <2>1. CASE row[c] # "open"
    <3>1. Face(c)' = Face(c)
      BY <1>0, <2>1 DEF Face
    <3> QED BY <2>0, <2>1, <3>1, FaceFacts DEF Rows!Older
  <2>2. CASE row[c] = "open"
    <3>1. Face(c)' = [user |-> "user", ip |-> IpOf[c], state |-> "open", idle |-> idle'[c],
                      bytes |-> charged[c]]
      BY <1>0, <2>2 DEF Face
    <3>2. /\ View[c] = [user |-> "user", ip |-> IpOf[c], state |-> "open", idle |-> idle[c],
                        bytes |-> charged[c]]
          /\ View[c].idle = idle[c] /\ Rows!IsOpen(View[c])
      BY <2>0, <2>2, FaceFacts
    <3>3. [View[c] EXCEPT !.idle = View[c].idle + 1] =
             [user |-> "user", ip |-> IpOf[c], state |-> "open", idle |-> idle[c] + 1,
              bytes |-> charged[c]]
      BY <3>2
    <3>4. CASE idle[c] <= StaleAfter
      <4>1. idle'[c] = idle[c] + 1
        BY <1>0, <2>0, <2>2, <3>4
      <4> QED BY <3>1, <3>2, <3>3, <3>4, <4>1 DEF Rows!Older
    <3>5. CASE ~(idle[c] <= StaleAfter)
      <4>1. idle'[c] = idle[c]
        BY <1>0, <2>0, <2>2, <3>5
      <4> QED BY <3>1, <3>2, <3>5, <4>1 DEF Rows!Older
    <3> QED BY <3>4, <3>5
  <2> QED BY <2>1, <2>2
<1>2. DOMAIN View = Given /\ Limits' = Limits
  BY DEF View, Limits
<1>3. View' = [c \in DOMAIN View |-> Rows!Older(View[c])]
  <2>1. View' = [c \in Given |-> Face(c)']
    BY <1>0 DEF View
  <2> QED BY <1>1, <1>2, <2>1
<1> QED BY <1>2, <1>3 DEF Rows!Pass, View, Limits, Given

LEMMA RowsStep == Known /\ (\A c \in Conn : Uncharged(c)) /\ [Next]_vars => Rows!Next
<1> SUFFICES ASSUME Known, \A c \in Conn : Uncharged(c), [Next]_vars PROVE Rows!Next
  OBVIOUS
<1>0. /\ row \in [Conn -> {"none", "open", "ended"}] /\ charged \in [Conn -> Nat]
      /\ idle \in [Conn -> 0..StaleAfter + 1] /\ held \in [Conn -> 0..MaxBytes]
      /\ last \in [Conn -> 0..MaxBytes]
  BY DEF Known, TypeInv, TypeOK
<1>1. ASSUME NEW c \in Conn, ServeAuthorize(c) PROVE Rows!Next
  <2>1. CASE Admissible(c)
    BY <1>1, <2>1, AdmissionAdmits DEF Rows!Next
  <2>2. CASE ~Admissible(c)
    <3>1. row' = Swept /\ UNCHANGED <<charged, idle>>
      BY <1>1, <2>2 DEF ServeAuthorize
    <3> QED BY <3>1, SweepRefuses DEF Rows!Next
  <2> QED BY <2>1, <2>2
<1>2. ASSUME UNCHANGED <<row, idle, charged>> PROVE Rows!Next
  BY <1>2, OtherStepsEdit DEF Rows!Next
<1>3. ASSUME NEW c \in Conn, ServeHeartbeat(c) PROVE Rows!Next
  <2>1. CASE row[c] = "open"
    <3>1. /\ row' = row /\ Given' = Given /\ charged'[c] = charged[c] + held[c] /\ idle'[c] = 0
          /\ \A x \in Conn \ {c} : charged'[x] = charged[x] /\ idle'[x] = idle[x]
      BY <1>0, <1>3, <2>1 DEF ServeHeartbeat, Given
    <3>2. Face(c)' = [user |-> "user", ip |-> IpOf[c], state |-> "open", idle |-> 0,
                      bytes |-> charged[c] + held[c]]
      BY <2>1, <3>1 DEF Face
    <3>3. \A x \in Given \ {c} : Face(x)' = Face(x)
      BY <3>1 DEF Face, Given
    <3>4. held[c] \in 0..MaxBytes
      BY <1>0
    <3>5. Rows!Report(c, held[c], "open")
      BY <2>1, <3>1, <3>2, <3>3, <3>4, ReportReports
    <3> QED BY <3>4, <3>5 DEF Rows!Next
  <2>2. CASE row[c] # "open"
    BY <1>2, <1>3, <2>2 DEF ServeHeartbeat
  <2> QED BY <2>1, <2>2
<1>4. ASSUME NEW c \in Conn, ServeClose(c) PROVE Rows!Next
  <2>1. CASE row[c] = "open"
    <3>1. /\ row'[c] = "ended" /\ charged'[c] = charged[c] + last[c] /\ idle' = idle
          /\ \A x \in Conn \ {c} : row'[x] = row[x] /\ charged'[x] = charged[x]
      BY <1>0, <1>4, <2>1 DEF ServeClose
    <3>2. Face(c)' = [user |-> "user", ip |-> IpOf[c], state |-> "over", idle |-> 0,
                      bytes |-> charged[c] + last[c]]
      BY <3>1 DEF Face
    <3>3. (\A x \in Given \ {c} : Face(x)' = Face(x)) /\ Given' = Given
      BY <2>1, <3>1 DEF Face, Given
    <3>4. last[c] \in 0..MaxBytes
      BY <1>0
    <3>5. Rows!Report(c, last[c], "over")
      BY <2>1, <3>2, <3>3, <3>4, ReportReports
    <3> QED BY <3>4, <3>5 DEF Rows!Next
  <2>2. CASE row[c] # "open"
    BY <1>2, <1>4, <2>2 DEF ServeClose
  <2> QED BY <2>1, <2>2
<1>5. ASSUME NEW c \in Conn, Handled(c) \/ Relayed(c) \/ Heart(c) \/ Lose(c)
      PROVE  UNCHANGED <<row, idle, charged>>
  BY <1>5 DEF Handled, Relayed, Connect, Handler, AuthorizeFails, Dial, DialFails, StartRelay,
     StartClose, CloseReturns, RelayEnds, Forward, Count, Heart, HbTick, HbAnswered, HbFailed,
     HbStops, Lose, rowVars
<1>6. ASSUME Sweep PROVE Rows!Next
  BY <1>6, SweepRefuses DEF Sweep, Rows!Next
<1>7. ASSUME Clock PROVE Rows!Next
  BY <1>7, ClockPasses DEF Rows!Next
<1>8. ASSUME SetAllowed \/ UNCHANGED vars PROVE UNCHANGED <<row, idle, charged>>
  BY <1>8 DEF SetAllowed, vars, rowVars
<1> QED BY <1>1, <1>2, <1>3, <1>4, <1>5, <1>6, <1>7, <1>8, StepForms DEF Served

\* What this module takes for granted of the control plane's rows is what
\* SessionRows promises and the ledger keeps.
THEOREM ImplementsRows == Spec => RowsPromised
<1>1. Init => Rows!Init /\ \A c \in Conn : Uncharged(c)
  <2> SUFFICES ASSUME Init PROVE Rows!Init /\ \A c \in Conn : Uncharged(c)
    OBVIOUS
  <2>1. Given = {} /\ \A c \in Conn : charged[c] = 0
    BY DEF Init, Given
  <2>2. Limits \in [{"user"} -> Nat]
    BY Bounds DEF Limits
  <2> QED BY <2>1, <2>2 DEF Rows!Init, Limits, Given, Uncharged
<1>2. Known /\ (\A c \in Conn : Uncharged(c)) /\ [Next]_vars => (\A c \in Conn : Uncharged(c))'
  BY UnchargedStep
<1>3. Known /\ (\A c \in Conn : Uncharged(c)) /\ [Next]_vars => [Rows!Next]_Rows!vars
  BY RowsStep
<1> QED BY <1>1, <1>2, <1>3, KnownAlways, PTL DEF Spec, RowsPromised, Rows!Spec

=============================================================================
