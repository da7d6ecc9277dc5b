-------------------------------- MODULE Edge --------------------------------
(***************************************************************************)
(* The data plane: the connections of one user through the Go gateway      *)
(* (gateway/cmd/arena-gateway/main.go), the session rows the control plane *)
(* keeps for them (backend/app/routes/gateway.py) and the HTTP calls in    *)
(* between, which may be slow or lost.                                     *)
(*                                                                         *)
(* A connection is a handler goroutine (gw), a heartbeat goroutine (hb)    *)
(* and two relay goroutines, whose byte counting is Forward and Count.     *)
(* Time is discrete.  Clock lets one unit pass and waits for every step a  *)
(* goroutine takes without blocking; a dial takes at most MaxDial units    *)
(* and a call that is not lost at most Latency.  Rows are ages, not dates: *)
(* idle[c] is the time since last_seen_at.                                 *)
(***************************************************************************)
EXTENDS Naturals, FiniteSets

CONSTANTS
    Conn,           \* connection attempts; the session row of c is named c too
    IpOf,           \* the address each one comes from
    MaxIps,         \* users.max_ips
    HbEvery,        \* heartbeat_seconds
    StaleAfter,     \* session_stale_seconds
    PostTimeout,    \* http.Client.Timeout, and the timeout of closeSession
    MaxFailures,    \* failed heartbeats in a row after which a relay is cut
    Latency,        \* bound on a call that is answered
    MaxDial,        \* bound on websocket.Dial and Accept, which have no timeout
    LossesInRow,    \* how many calls of a connection may be lost in a row
    MaxBytes        \* bound on the bytes a connection forwards

ASSUME EdgeAssumption ==
    /\ IsFiniteSet(Conn)
    /\ {MaxIps, HbEvery, StaleAfter, PostTimeout, MaxFailures, Latency,
        MaxDial, LossesInRow, MaxBytes} \subseteq Nat
    /\ MaxFailures > 0
    /\ Latency <= PostTimeout
    /\ PostTimeout < HbEvery        \* 8 s < 15 s: ticks never pile up

VARIABLES
    gw,         \* handleWebSocket
    hb,         \* heartbeatLoop
    cancelled,  \* the context of the connection
    timer,      \* time to the next tick of the heartbeat ticker
    failures,   \* consecutive failed heartbeats
    loose,      \* bytes written to the peer and not yet added to the counter
    count,      \* counters: bytes not yet reported
    held,       \* bytes of the heartbeat that was posted last
    last,       \* bytes of the close call
    ping,       \* the heartbeat call on its way
    call,       \* the authorize or close call on its way
    spent,      \* time spent in [ping, call (or dial)]
    row,        \* session rows
    idle,       \* time since last_seen_at
    charged,    \* bytes charged to the row and to the user
    allowed,    \* user_allowed(user)
    wire,       \* history: bytes forwarded
    overtime    \* history: time relayed since the row ended, or the user was refused

gwVars  == <<gw, hb, cancelled, timer, failures>>
byteVars == <<loose, count, held, last, wire>>
netVars == <<ping, call, spent>>
rowVars == <<row, idle, charged, allowed>>
vars == <<gwVars, byteVars, netVars, rowVars, overtime>>

Stages == {"idle", "authorizing", "dialing", "relaying", "ending", "closing", "done"}
Pings == {"none", "request", "continue", "stop", "missing", "lost"}
Calls == {"none", "authorize", "admitted", "denied", "close", "closed", "lost"}

\* A relay is cut at the latest after this time without a heartbeat that succeeds.
Grace == MaxFailures * HbEvery + PostTimeout

TypeOK ==
    /\ gw \in [Conn -> Stages]
    /\ hb \in [Conn -> {"off", "waiting", "posting"}]
    /\ cancelled \in [Conn -> BOOLEAN]
    /\ timer \in [Conn -> 0..HbEvery]
    /\ failures \in [Conn -> 0..MaxFailures]
    /\ loose \in [Conn -> 0..1]
    /\ count \in [Conn -> 0..MaxBytes] /\ held \in [Conn -> 0..MaxBytes]
    /\ last \in [Conn -> 0..MaxBytes] /\ wire \in [Conn -> 0..MaxBytes]
    /\ ping \in [Conn -> Pings]
    /\ call \in [Conn -> Calls]
    /\ spent \in [Conn -> [ping : 0..PostTimeout, call : Nat]]
    /\ row \in [Conn -> {"none", "open", "ended"}]
    /\ idle \in [Conn -> 0..StaleAfter + 1]
    /\ charged \in [Conn -> Nat]
    /\ allowed \in BOOLEAN
    /\ overtime \in [Conn -> [ended : Nat, refused : Nat]]

Init ==
    /\ gw = [c \in Conn |-> "idle"]
    /\ hb = [c \in Conn |-> "off"]
    /\ cancelled = [c \in Conn |-> FALSE]
    /\ row = [c \in Conn |-> "none"]
    /\ ping = [c \in Conn |-> "none"]
    /\ call = [c \in Conn |-> "none"]
    /\ spent = [c \in Conn |-> [ping |-> 0, call |-> 0]]
    /\ LET zero == [c \in Conn |-> 0]
       IN  /\ timer = zero /\ failures = zero /\ idle = zero /\ charged = zero
           /\ loose = zero /\ count = zero /\ held = zero /\ last = zero /\ wire = zero
    /\ allowed = TRUE
    /\ overtime = [c \in Conn |-> [ended |-> 0, refused |-> 0]]
-----------------------------------------------------------------------------
(***************************************************************************)
(* The control plane, one transaction each.                                *)
(***************************************************************************)
\* (a row goes stale between two heartbeats)
StaleSoon(c) == row[c] = "open" /\ idle[c] > HbEvery

\* (a row whose clock is capped never goes stale)
StaleNever(c) == row[c] = "open" /\ idle[c] > StaleAfter + 1

Stale(c) == row[c] = "open" /\ idle[c] > StaleAfter

Swept == [c \in Conn |-> IF Stale(c) THEN "ended" ELSE row[c]]

LiveIps(rows) == {IpOf[c] : c \in {x \in Conn : rows[x] = "open"}}

\* (one address too many)
AdmissibleOneMore(c) ==
    /\ allowed
    /\ IpOf[c] \in LiveIps(Swept) \/ Cardinality(LiveIps(Swept)) <= MaxIps

Admissible(c) ==
    /\ allowed
    /\ IpOf[c] \in LiveIps(Swept) \/ Cardinality(LiveIps(Swept)) < MaxIps

ServeAuthorize(c) ==
    /\ call[c] = "authorize"
    /\ IF Admissible(c)
       THEN /\ row' = [Swept EXCEPT ![c] = "open"]
            /\ idle' = [idle EXCEPT ![c] = 0]
            /\ call' = [call EXCEPT ![c] = "admitted"]
       ELSE /\ row' = Swept
            /\ call' = [call EXCEPT ![c] = "denied"]
            /\ UNCHANGED idle
    /\ UNCHANGED <<gwVars, byteVars, ping, spent, charged, allowed, overtime>>

\* An authorize call of any other user sweeps the rows of this one, too.
Sweep ==
    /\ row' = Swept
    /\ UNCHANGED <<gwVars, byteVars, netVars, idle, charged, allowed, overtime>>

\* (a heartbeat that takes the user's word)
VerdictAlways == "continue"

Verdict == IF allowed THEN "continue" ELSE "stop"

ServeHeartbeat(c) ==
    /\ ping[c] = "request"
    /\ IF row[c] = "open"
       THEN /\ charged' = [charged EXCEPT ![c] = @ + held[c]]
            /\ idle' = [idle EXCEPT ![c] = 0]
            /\ ping' = [ping EXCEPT ![c] = Verdict]
       ELSE /\ ping' = [ping EXCEPT ![c] = "missing"]
            /\ UNCHANGED <<charged, idle>>
    /\ UNCHANGED <<gwVars, byteVars, call, spent, row, allowed, overtime>>

ServeClose(c) ==
    /\ call[c] = "close"
    /\ IF row[c] = "open"
       THEN /\ charged' = [charged EXCEPT ![c] = @ + last[c]]
            /\ row' = [row EXCEPT ![c] = "ended"]
       ELSE UNCHANGED <<charged, row>>
    /\ call' = [call EXCEPT ![c] = "closed"]
    /\ UNCHANGED <<gwVars, byteVars, ping, spent, idle, allowed, overtime>>

\* The administrator disables or enables the user, or changes or resets quota
\* or validity.
SetAllowed ==
    /\ allowed' = ~allowed
    /\ overtime' = [c \in Conn |-> [overtime[c] EXCEPT !.refused = 0]]
    /\ UNCHANGED <<gwVars, byteVars, netVars, row, idle, charged>>
-----------------------------------------------------------------------------
(***************************************************************************)
(* The handler goroutine.                                                  *)
(***************************************************************************)
Turn(c, stage) ==
    /\ gw' = [gw EXCEPT ![c] = stage]
    /\ spent' = [spent EXCEPT ![c].call = 0]

Connect(c) ==
    /\ gw[c] = "idle"
    /\ Turn(c, "authorizing")
    /\ call' = [call EXCEPT ![c] = "authorize"]
    /\ UNCHANGED <<hb, cancelled, timer, failures, byteVars, ping, rowVars, overtime>>

\* The call is refused, is lost or outlives the client (r.Context is done): the
\* handler returns.  A call nobody waits for is still served, if it arrives.
AuthorizeFails(c) ==
    /\ gw[c] = "authorizing"
    /\ Turn(c, "done")
    /\ call' = [call EXCEPT ![c] = IF @ = "authorize" THEN @ ELSE "none"]
    /\ UNCHANGED <<hb, cancelled, timer, failures, byteVars, ping, rowVars, overtime>>

Dial(c) ==
    /\ gw[c] = "authorizing"
    /\ call[c] = "admitted"
    /\ Turn(c, "dialing")
    /\ call' = [call EXCEPT ![c] = "none"]
    /\ UNCHANGED <<hb, cancelled, timer, failures, byteVars, ping, rowVars, overtime>>

\* "upstream_unavailable" or "upgrade_failed".
DialFails(c) ==
    /\ gw[c] = "dialing"
    /\ Turn(c, "closing")
    /\ call' = [call EXCEPT ![c] = "close"]
    /\ UNCHANGED <<hb, cancelled, timer, failures, byteVars, ping, rowVars, overtime>>

StartRelay(c) ==
    /\ gw[c] = "dialing"
    /\ Turn(c, "relaying")
    /\ hb' = [hb EXCEPT ![c] = "waiting"]
    /\ timer' = [timer EXCEPT ![c] = HbEvery]
    /\ UNCHANGED <<cancelled, failures, byteVars, ping, call, rowVars, overtime>>

\* A relay goroutine reports an error: a peer has gone or the context is done.
RelayEnds(c) ==
    /\ gw[c] = "relaying"
    /\ Turn(c, "ending")
    /\ cancelled' = [cancelled EXCEPT ![c] = TRUE]
    /\ UNCHANGED <<hb, timer, failures, byteVars, ping, call, rowVars, overtime>>

StartClose(c) ==
    /\ gw[c] = "ending"
    /\ Turn(c, "closing")
    /\ last' = [last EXCEPT ![c] = count[c]]
    /\ count' = [count EXCEPT ![c] = 0]
    /\ call' = [call EXCEPT ![c] = "close"]
    /\ UNCHANGED <<hb, cancelled, timer, failures, loose, held, wire, ping, rowVars, overtime>>

\* (an error of the close call is waited for to go away)
CloseReturnsIfServed(c) ==
    /\ gw[c] = "closing"
    /\ call[c] = "closed"
    /\ Turn(c, "done")
    /\ call' = [call EXCEPT ![c] = "none"]
    /\ UNCHANGED <<hb, cancelled, timer, failures, byteVars, ping, rowVars, overtime>>

\* Whether the close was served or not, the handler returns.
CloseReturns(c) ==
    /\ gw[c] = "closing"
    /\ call[c] \in {"closed", "lost"}
    /\ Turn(c, "done")
    /\ call' = [call EXCEPT ![c] = "none"]
    /\ UNCHANGED <<hb, cancelled, timer, failures, byteVars, ping, rowVars, overtime>>
-----------------------------------------------------------------------------
(***************************************************************************)
(* The relay goroutines: writer.Write and counter.Add are separate steps,  *)
(* and the handler does not wait for the second goroutine when it closes.  *)
(***************************************************************************)
Forward(c) ==
    /\ gw[c] = "relaying"
    /\ ~cancelled[c]
    /\ loose[c] = 0
    /\ wire[c] < MaxBytes
    /\ loose' = [loose EXCEPT ![c] = 1]
    /\ wire' = [wire EXCEPT ![c] = @ + 1]
    /\ UNCHANGED <<gwVars, count, held, last, netVars, rowVars, overtime>>

Count(c) ==
    /\ loose[c] = 1
    /\ loose' = [loose EXCEPT ![c] = 0]
    /\ count' = [count EXCEPT ![c] = @ + 1]
    /\ UNCHANGED <<gwVars, held, last, wire, netVars, rowVars, overtime>>
-----------------------------------------------------------------------------
(***************************************************************************)
(* The heartbeat goroutine.                                                *)
(***************************************************************************)
\* (Load in the place of Swap)
TakenTwice(c) == [sent |-> count[c], kept |-> count[c]]

\* What a tick takes from the counter: Swap(0).
Taken(c) == [sent |-> count[c], kept |-> 0]

\* When the context is done as well, select may still choose the tick; the post
\* then fails without being sent.
HbTick(c) ==
    /\ hb[c] = "waiting"
    /\ timer[c] = 0
    /\ hb' = [hb EXCEPT ![c] = "posting"]
    /\ timer' = [timer EXCEPT ![c] = HbEvery]
    /\ held' = [held EXCEPT ![c] = Taken(c).sent]
    /\ count' = [count EXCEPT ![c] = Taken(c).kept]
    /\ ping' = [ping EXCEPT ![c] = IF cancelled[c] THEN "lost" ELSE "request"]
    /\ spent' = [spent EXCEPT ![c].ping = 0]
    /\ UNCHANGED <<gw, cancelled, failures, loose, last, wire, call, rowVars, overtime>>

\* The loop goes on with n failures to the next tick, or stops its ticker and
\* ends: because it has cancelled the context, or because somebody else has.
Proceed(c, stop, n) ==
    LET ends == stop \/ cancelled[c]
    IN  /\ hb' = [hb EXCEPT ![c] = IF ends THEN "off" ELSE "waiting"]
        /\ cancelled' = [cancelled EXCEPT ![c] = ends]
        /\ failures' = [failures EXCEPT ![c] = IF ends THEN 0 ELSE n]
        /\ timer' = [timer EXCEPT ![c] = IF ends THEN 0 ELSE @]
        /\ spent' = [spent EXCEPT ![c].ping = 0]

HbAnswered(c) ==
    /\ hb[c] = "posting"
    /\ ping[c] \in {"continue", "stop"}
    /\ Proceed(c, ping[c] = "stop", 0)
    /\ ping' = [ping EXCEPT ![c] = "none"]
    /\ UNCHANGED <<gw, byteVars, call, rowVars, overtime>>

\* (Store in the place of Add)
RestoredOver(c) == held[c]

Restored(c) == count[c] + held[c]

\* (a relay is cut one failure late)
TooManyByOne(n) == n > MaxFailures

TooMany(n) == n >= MaxFailures

\* The answer is an error, the call is lost, or the context ends it, in which
\* case the request may still be served.
HbFailed(c) ==
    /\ hb[c] = "posting"
    /\ ping[c] \in {"missing", "lost"} \/ cancelled[c]
    /\ Proceed(c, TooMany(failures[c] + 1), failures[c] + 1)
    /\ count' = [count EXCEPT ![c] = Restored(c)]
    /\ ping' = [ping EXCEPT ![c] = IF @ = "request" THEN @ ELSE "none"]
    /\ UNCHANGED <<gw, loose, held, last, wire, call, rowVars, overtime>>

HbStops(c) ==
    /\ hb[c] = "waiting"
    /\ cancelled[c]
    /\ Proceed(c, TRUE, 0)
    /\ UNCHANGED <<gw, byteVars, ping, call, rowVars, overtime>>
-----------------------------------------------------------------------------
(***************************************************************************)
(* The network and time.                                                   *)
(***************************************************************************)
\* A request or its answer is lost.  LossesInRow = MaxFailures: any number.
Lose(c) ==
    /\ failures[c] < LossesInRow
    /\ \/ /\ ping[c] \in {"request", "continue", "stop"}
          /\ ping' = [ping EXCEPT ![c] = IF hb[c] = "posting" THEN "lost" ELSE "none"]
          /\ UNCHANGED call
       \/ /\ call[c] \in {"authorize", "admitted", "denied", "close", "closed"}
          /\ call' = [call EXCEPT ![c] = "lost"]
          /\ UNCHANGED ping
    /\ UNCHANGED <<gwVars, byteVars, spent, rowVars, overtime>>

\* What goroutines do at once, and what timeouts force, happens before time passes.
Patience(message) == IF message = "lost" THEN PostTimeout ELSE Latency

Patient(c) ==
    /\ gw[c] \in {"authorizing", "closing"} => spent[c].call < Patience(call[c])
    /\ gw[c] = "dialing" => spent[c].call < MaxDial
    /\ gw[c] # "ending"
    /\ gw[c] = "relaying" => ~cancelled[c]
    /\ hb[c] = "waiting" => timer[c] > 0 /\ ~cancelled[c]
    /\ hb[c] = "posting" => spent[c].ping < Patience(ping[c]) /\ ~cancelled[c]
    /\ loose[c] = 0

Up(n, limit) == IF n < limit THEN n + 1 ELSE n

Clock ==
    /\ \A c \in Conn : Patient(c)
    /\ timer' = [c \in Conn |-> IF hb[c] = "off" THEN timer[c] ELSE timer[c] - 1]
    /\ spent' = [c \in Conn |->
          [ping |-> IF hb[c] = "posting" THEN spent[c].ping + 1 ELSE spent[c].ping,
           call |-> IF gw[c] \in {"authorizing", "dialing", "closing"}
                    THEN spent[c].call + 1 ELSE spent[c].call]]
    /\ idle' = [c \in Conn |-> IF row[c] = "open" THEN Up(idle[c], StaleAfter + 1) ELSE idle[c]]
    /\ overtime' = [c \in Conn |->
          [ended   |-> IF gw[c] = "relaying" /\ row[c] = "ended" THEN overtime[c].ended + 1 ELSE 0,
           refused |-> IF gw[c] = "relaying" /\ ~allowed THEN overtime[c].refused + 1 ELSE 0]]
    /\ UNCHANGED <<gw, hb, cancelled, failures, byteVars, ping, call, row, charged, allowed>>
-----------------------------------------------------------------------------
Handler(c) ==
    \/ AuthorizeFails(c) \/ Dial(c) \/ DialFails(c) \/ StartRelay(c)
    \/ StartClose(c) \/ CloseReturns(c)

Heart(c) == HbTick(c) \/ HbAnswered(c) \/ HbFailed(c) \/ HbStops(c)

Serve(c) == ServeAuthorize(c) \/ ServeHeartbeat(c) \/ ServeClose(c)

Next ==
    \/ \E c \in Conn :
          \/ Handler(c) \/ Heart(c) \/ Count(c) \/ Serve(c)
          \/ Connect(c) \/ Forward(c) \/ RelayEnds(c) \/ Lose(c)
    \/ Sweep \/ SetAllowed \/ Clock

Spec == Init /\ [][Next]_vars

(***************************************************************************)
(* Goroutines run, the control plane answers the calls that reach it, time *)
(* passes, and some user's client calls authorize again and again.  A      *)
(* client need not connect, send or disconnect, and nobody need touch the  *)
(* account; a relay ends by itself only when its context is done.          *)
(***************************************************************************)
Fairness ==
    /\ \A c \in Conn :
          /\ WF_vars(Handler(c)) /\ WF_vars(Heart(c)) /\ WF_vars(Count(c))
          /\ WF_vars(Serve(c)) /\ WF_vars(cancelled[c] /\ RelayEnds(c))
    /\ WF_vars(Sweep) /\ WF_vars(Clock)

FairSpec == Spec /\ Fairness
-----------------------------------------------------------------------------
(***************************************************************************)
(* Properties.                                                             *)
(***************************************************************************)

Relaying == {c \in Conn : gw[c] = "relaying"}

\* A relay whose session row has ended, and which the IP limit therefore no
\* longer counts, is cut within Grace, however slow the dial was and whatever
\* calls are lost (heartbeatLoop, main.go:224-231).
EndedRelayIsCut == \A c \in Conn : overtime[c].ended <= Grace

\* A user who may no longer use the service is off every relay within Grace,
\* whatever calls are lost (main.go:236-238, gateway.py:120-125).
RefusedRelayIsCut == \A c \in Conn : overtime[c].refused <= Grace

\* PHASE1_CHANGE_REPORT.md:63: the IP limit is enforced before and during the
\* connection.  Addresses with a relay, not only those with a row, stay within it.
RelayedIpsWithinLimit == Cardinality({IpOf[c] : c \in Relaying}) <= MaxIps

\* Every relay is accounted for by an open session row.
RelayHasRow == \A c \in Relaying : row[c] = "open"

\* While a connection is up, no byte it forwarded is forgotten: each is charged,
\* counted, about to be counted, or in a heartbeat that is restored if it fails.
NothingForgotten ==
    \A c \in Relaying :
        ~cancelled[c] =>
            wire[c] <= charged[c] + count[c] + loose[c]
                         + (IF hb[c] = "posting" THEN held[c] ELSE 0)

\* A heartbeat that is charged and whose answer is lost is reported again (main.go:
\* 224-226).  The limit of failures in a row bounds what a user pays twice: no byte
\* is charged more often than in MaxFailures heartbeats and in the close.
OverchargeBounded == \A c \in Conn : charged[c] <= (MaxFailures + 1) * wire[c]

\* FLOWS.md:40 and 45: the traffic recorded every 15 seconds and at the close is
\* what the quota is compared with: once the close of a connection has been
\* recorded, what is charged is what was forwarded, no more and no less.
ChargedExactly ==
    \A c \in Conn : gw[c] = "done" /\ call[c] = "none" => charged[c] = wire[c]

\* No goroutine outlives its connection: once the context is done, the handler
\* returns and the heartbeat loop ends, even if the last calls are lost.
ConnectionWindsUp == \A c \in Conn : cancelled[c] ~> gw[c] = "done" /\ hb[c] = "off"

\* An address is given back: a row without a relay, because an answer was lost,
\* a client left early or a close was lost, ends.
RowsEnd == \A c \in Conn : row[c] = "open" ~> row[c] = "ended" \/ gw[c] = "relaying"

(***************************************************************************)
(* What this module says of session rows is what the control plane         *)
(* promises: the rows of one user, of whose account only max_ips and       *)
(* "allowed or not" are looked at.                                         *)
(***************************************************************************)
Face(c) ==
    [user |-> "user", ip |-> IpOf[c], state |-> IF row[c] = "open" THEN "open" ELSE "over",
     idle |-> IF row[c] = "open" THEN idle[c] ELSE 0, bytes |-> charged[c]]

Rows == INSTANCE SessionRows WITH
    User <- {"user"}, Session <- Conn, Ip <- {IpOf[c] : c \in Conn}, Bytes <- 0..MaxBytes,
    row <- [c \in {x \in Conn : row[x] # "none"} |-> Face(c)],
    limit <- [u \in {"user"} |-> MaxIps]

\* The authorize, heartbeat and close calls that a connection makes, also late,
\* lost or after the row has ended, are steps of SessionRows.
RowsPromised == Rows!Spec
=============================================================================
