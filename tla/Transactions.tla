---------------------------- MODULE Transactions ----------------------------
(***************************************************************************)
(* The requests of the control plane as PostgreSQL runs them: statement    *)
(* by statement, under READ COMMITTED, with the row locks they take, on    *)
(* one user, its connection sessions and the administrators' sessions.     *)
(* SessionLedger takes a request as one step; this module says when that   *)
(* is right, and covers the handlers that take no lock before they write.  *)
(*                                                                         *)
(* One uvicorn process runs one event loop.  A handler declared with def   *)
(* runs in a thread, to which the loop hands its dependencies and then its *)
(* body; when the body returns, the loop must run again to close the       *)
(* database session (get_db).  A handler declared with async def runs its  *)
(* blocking database calls in the loop itself, from the first read to the  *)
(* commit.  PostgreSQL keeps a row lock until the transaction ends, a      *)
(* statement that waited for a lock looks at the row again, and a cycle of *)
(* waiting transactions is broken by aborting one of them.                 *)
(***************************************************************************)
EXTENDS Naturals, FiniteSets

CONSTANTS
    Conn,           \* connection sessions of the user
    Login,          \* sessions of administrators
    IpOf,           \* the address a session is opened from
    MaxIps,         \* max_ips of the user
    Tx,             \* requests that may be under way at a time
    None,           \* NULL
    Report,         \* what a heartbeat or a close may report
    MaxRequests     \* bound: requests in a behaviour

Column == {"up", "down"}

ASSUME RowAssumption == Conn \cap Login = {} /\ "user" \notin Conn \cup Login
ASSUME NoneAssumption == None \notin Tx \cup Conn \cup Login
ASSUME ReportAssumption == Report \subseteq [Column -> Nat]
ASSUME BoundAssumption == MaxRequests \in Nat
ASSUME LimitAssumption == IsFiniteSet(Conn) /\ MaxIps \in Nat

VARIABLES
    there,      \* the row of the user exists
    used,       \* used_up_bytes and used_down_bytes
    version,    \* subscription_version
    conn,       \* connection sessions: quiet is open but stale, gone is deleted
    login,      \* administrators' sessions
    lock,       \* the transaction that has locked a row, or None
    tx,         \* the requests under way
    asked,      \* bound: requests so far
    loop,       \* the async handler that blocks the event loop, or None
    counted,    \* the addresses that the authorize which holds the user has read
    reported,   \* history: bytes reported in committed heartbeats and closes
    forgiven    \* history: bytes taken away by committed resets

vars == <<there, used, version, conn, login, lock, tx, asked, loop, counted, reported, forgiven>>
rows == <<there, used, version, conn, login, reported, forgiven>>

Row == Conn \cup Login \cup {"user"}

Async == {"reset", "delete"}
OwnUpdate == {"rotate", "reset", "delete", "clean"}     \* they write last_seen_at
Administrative == OwnUpdate \cup {"logout"}
Gateway == {"authorize", "heartbeat", "close"}

\* The rows that the statements of a request have still to lock: a transaction
\* executes three statements at most, and an empty one is over.
Statement == 1..3
NoRows == <<{}, {}, {}>>

Idle == [kind |-> "none", stage |-> "idle", who |-> None, todo |-> NoRows,
         seen |-> [used |-> [k \in Column |-> 0], version |-> 0,
                   reported |-> [k \in Column |-> 0]]]

Request == [kind  : Gateway \cup Administrative \cup {"none"},
            stage : {"idle", "auth", "run", "returned"},
            who   : Conn \cup Login \cup {None},
            todo  : [Statement -> SUBSET Row],
            seen  : [used : [Column -> Nat], version : Nat, reported : [Column -> Nat]]]

TypeOK ==
    /\ there \in BOOLEAN
    /\ used \in [Column -> Nat]
    /\ version \in Nat
    /\ conn \in [Conn -> {"none", "open", "quiet", "ended", "gone"}]
    /\ login \in [Login -> {"none", "live", "expired", "gone"}]
    /\ lock \in [Row -> Tx \cup {None}]
    /\ tx \in [Tx -> Request]
    /\ asked \in 0..MaxRequests
    /\ loop \in Tx \cup {None}
    /\ counted \subseteq {IpOf[c] : c \in Conn}
    /\ reported \in [Column -> Nat]
    /\ forgiven \in [Column -> Nat]

\* The user is there, with some sessions from before, open or ended; there may be
\* too many, since max_ips can be lowered.
Init ==
    /\ there = TRUE
    /\ used = [k \in Column |-> 0]
    /\ version = 1
    /\ conn \in [Conn -> {"none", "open", "ended"}]
    /\ login \in [Login -> {"none", "live"}]
    /\ lock = [r \in Row |-> None]
    /\ tx = [t \in Tx |-> Idle]
    /\ asked = 0
    /\ loop = None
    /\ counted = {}
    /\ reported = [k \in Column |-> 0]
    /\ forgiven = [k \in Column |-> 0]
-----------------------------------------------------------------------------
Exists(r) ==
    CASE r \in Conn  -> conn[r] \in {"open", "quiet", "ended"}
      [] r \in Login -> login[r] \in {"live", "expired"}
      [] OTHER       -> there

Held(t) == {r \in Row : lock[r] = t}
Unended(c) == conn[c] \in {"open", "quiet"}
Released(t) == [r \in Row |-> IF lock[r] = t THEN None ELSE lock[r]]

\* The statement under way is the first that is not over; its rows are to be
\* locked in any order.
Front(t) ==
    {r \in Row : \E i \in Statement :
        /\ r \in tx[t].todo[i]
        /\ \A j \in Statement : j < i => tx[t].todo[j] = {}}

\* The loop can take a new request, or go on with one.
Scheduled(t, stage) == loop = None /\ tx[t].stage = stage

Start(t, k, w, stage, s) ==
    /\ Scheduled(t, "idle")
    /\ asked < MaxRequests
    /\ asked' = asked + 1
    /\ tx' = [tx EXCEPT ![t] = [Idle EXCEPT !.kind = k, !.stage = stage, !.who = w,
                                            !.todo = s]]
    /\ UNCHANGED <<rows, lock, loop, counted>>

\* What was read goes with the transaction.
Forget(t) == counted' = IF lock["user"] = t THEN {} ELSE counted

\* (the handler goes on in the loop after its commit)
EndInLoop(t) ==
    /\ lock' = Released(t)
    /\ tx' = [tx EXCEPT ![t] = Idle]
    /\ loop' = loop
    /\ Forget(t)

\* The transaction of t is over, by a commit or a rollback.
End(t) ==
    /\ lock' = Released(t)
    /\ tx' = [tx EXCEPT ![t] = Idle]
    /\ loop' = IF loop = t THEN None ELSE loop
    /\ Forget(t)
-----------------------------------------------------------------------------
\* Requests of the gateway.  Their first statement reads rows that are there.
Authorize(t) ==
    /\ Start(t, "authorize", None, "run", <<{c \in Conn : conn[c] = "quiet"}, {"user"}, {}>>)

\* (the user is locked first, as authorize does)
UserFirst(c) == <<{"user"}, {c}, {}>>

Rows(c) == <<{c}, {"user"}, {}>>

Heartbeat(t, c) ==
    /\ Unended(c)
    /\ Start(t, "heartbeat", c, "run", Rows(c))

Close(t, c) ==
    /\ Exists(c)
    /\ Start(t, "close", c, "run", Rows(c))
-----------------------------------------------------------------------------
\* Requests of administrators: current_admin finds the session in a thread,
Admitted(t, a, k) ==
    /\ login[a] = "live"
    /\ Start(t, k, a, "auth", NoRows)

\* and the statements of a body are known when it has read what it changes.
Plan(t) ==
    LET a == tx[t].who
        expired == {b \in Login : login[b] = "expired"}
    IN  CASE tx[t].kind = "rotate" -> <<{a}, {"user"}, {}>>
          [] tx[t].kind = "reset"  -> <<{a}, IF \E k \in Column : used[k] # 0 THEN {"user"} ELSE {}, {}>>
          [] tx[t].kind = "delete" -> <<{a}, {c \in Conn : Exists(c)}, {"user"}>>
          [] tx[t].kind = "logout" -> <<{a} \cap {b \in Login : Exists(b)}, {}, {}>>
          [] OTHER                 -> <<expired, {a} \ expired, {}>>

\* The DELETE of its own session takes the object out of the handler's hands.
Expunged(t) ==
    \/ tx[t].kind = "logout"
    \/ tx[t].kind = "clean" /\ login[tx[t].who] = "expired"

Seen(t) ==
    CASE tx[t].kind = "rotate" -> [Idle.seen EXCEPT !.version = version]
      [] tx[t].kind = "reset"  -> [Idle.seen EXCEPT !.used = used, !.reported = reported]
      [] OTHER                 -> Idle.seen

BodyRuns(t) ==
    /\ Scheduled(t, "auth")
    /\ UNCHANGED asked
    /\ IF tx[t].kind \in {"rotate", "reset", "delete"} /\ ~there
       THEN End(t)                                               \* 404
       ELSE /\ tx' = [tx EXCEPT ![t] = [@ EXCEPT !.stage = "run",
                                                !.who = IF Expunged(t) THEN None ELSE tx[t].who,
                                                !.todo = Plan(t),
                                                !.seen = Seen(t)]]
            /\ loop' = IF tx[t].kind \in Async THEN t ELSE None
            /\ UNCHANGED <<lock, counted>>
    /\ UNCHANGED rows
-----------------------------------------------------------------------------
\* (no row count is compared)
NeedNotFind(t, r) == FALSE

\* An UPDATE of an object that the handler has loaded must find its row.
MustFind(t, r) ==
    \/ r = tx[t].who /\ tx[t].kind \in OwnUpdate
    \/ r = "user" /\ tx[t].kind \in {"rotate", "reset"}

\* (the session read by the statement is taken as it was then)
ReturnsNever(t, r) == FALSE

\* The handler looks at a session it has locked, and returns at once if it
\* has ended: its transaction stays open.
Returns(t, r) == r \in Conn /\ tx[t].kind \in {"heartbeat", "close"} /\ ~Unended(r)

\* (the foreign key does not cascade)
NoCascade(t) == {}

\* The rows of sessions inserted since the delete read them go with the user.
Cascade(t) == {c \in Conn : Exists(c) /\ lock[c] # t}

Rest(t, r) ==
    IF r = "user" /\ tx[t].kind = "delete"
    THEN <<{}, {}, Cascade(t)>>
    ELSE [i \in Statement |-> tx[t].todo[i] \ {r}]

\* (authorize reads the user without FOR UPDATE)
GrantedToReaders(t, r) ==
    /\ tx[t].stage = "run"
    /\ r \in Front(t)
    /\ lock[r] = None \/ (r = "user" /\ tx[t].kind = "authorize")

Granted(t, r) ==
    /\ tx[t].stage = "run"
    /\ r \in Front(t)
    /\ lock[r] = None

\* (the user comes with the session, by a join, before it is locked)
ReadsWithSession(t, r) == r \in Conn /\ tx[t].kind \in {"heartbeat", "close"}

\* The gateway's handlers read the counters in the statement that locks them.
ReadsUser(t, r) == r = "user" /\ tx[t].kind \in {"heartbeat", "close"}

\* The sessions that the sweep of t has ended.
Sweeps(t, c) == lock[c] = t /\ conn[c] = "quiet"

\* With the user locked, authorize reads the sessions of the user: the addresses
\* of the unended ones, less what it has swept itself.
ReadsSessions(t, r) == r = "user" /\ tx[t].kind = "authorize"
Counted(t) == {IpOf[c] : c \in {d \in Conn : Unended(d) /\ ~Sweeps(t, d)}}

\* The row is there, locked from now on.
Lock(t, r) ==
    /\ Granted(t, r)
    /\ Exists(r)
    /\ lock' = [lock EXCEPT ![r] = t]
    /\ tx' = IF Returns(t, r) THEN [tx EXCEPT ![t].stage = "returned", ![t].todo = NoRows]
                              ELSE [tx EXCEPT ![t].todo = Rest(t, r),
                                              ![t].seen.used = IF ReadsUser(t, r) THEN used ELSE @]
    /\ counted' = IF ReadsSessions(t, r) THEN Counted(t) ELSE counted
    /\ UNCHANGED <<rows, asked, loop>>

\* The row has been deleted meanwhile: the handler fails, answers, or goes on.
Miss(t, r) ==
    /\ Granted(t, r)
    /\ ~Exists(r)
    /\ IF MustFind(t, r) \/ Returns(t, r)
       THEN End(t)
       ELSE tx' = [tx EXCEPT ![t].todo = Rest(t, r)] /\ UNCHANGED <<lock, loop, counted>>
    /\ UNCHANGED <<rows, asked>>
-----------------------------------------------------------------------------
Ready(t) == tx[t].stage = "run" /\ \A i \in Statement : tx[t].todo[i] = {}

Charge(t, b) ==
    /\ used' = [k \in Column |-> tx[t].seen.used[k] + b[k]]
    /\ reported' = [k \in Column |-> reported[k] + b[k]]
    /\ UNCHANGED <<there, version, login, forgiven>>

\* A session of a new address is inserted only below the limit, as it was read.
AuthorizeCommits(t) ==
    /\ LET swept == [c \in Conn |-> IF Sweeps(t, c) THEN "ended" ELSE conn[c]]
       IN  \/ conn' = swept                                       \* denied
           \/ \E c \in Conn :
                 /\ there /\ conn[c] = "none"
                 /\ IpOf[c] \in counted \/ Cardinality(counted) < MaxIps
                 /\ conn' = [swept EXCEPT ![c] = "open"]
    /\ UNCHANGED <<there, used, version, login, reported, forgiven>>

HeartbeatCommits(t) ==
    /\ conn' = [conn EXCEPT ![tx[t].who] = "open"]
    /\ \E b \in Report : Charge(t, b)

CloseCommits(t) ==
    /\ conn' = [conn EXCEPT ![tx[t].who] = "ended"]
    /\ \E b \in Report : Charge(t, b)

RotateCommits(t) ==
    /\ version' = tx[t].seen.version + 1
    /\ UNCHANGED <<there, used, conn, login, reported, forgiven>>

\* (only the sum is looked at: a counter read as zero is left alone)
WipedUp(seen) == {k \in Column : k = "up" /\ seen.used[k] # 0}

\* Of the two counters, the ones read as not zero are written.
Wiped(seen) == {k \in Column : seen.used[k] # 0}

ResetCommits(t) ==
    LET gone == Wiped(tx[t].seen)
    IN  /\ used' = [k \in Column |-> IF k \in gone THEN 0 ELSE used[k]]
        /\ forgiven' = [k \in Column |-> IF k \in gone THEN forgiven[k] + used[k] ELSE forgiven[k]]
        /\ UNCHANGED <<there, version, conn, login, reported>>

DeleteCommits(t) ==
    /\ there' = FALSE
    /\ conn' = [c \in Conn |-> IF lock[c] = t THEN "gone" ELSE conn[c]]
    /\ UNCHANGED <<used, version, login, reported, forgiven>>

\* (the sessions are marked and kept)
LoginsMarked(t) ==
    /\ login' = [a \in Login |->
                   IF lock[a] = t /\ a # tx[t].who THEN "revoked" ELSE login[a]]
    /\ UNCHANGED <<there, used, version, conn, reported, forgiven>>

\* logout, and the expired sessions that clean has deleted
LoginsDeleted(t) ==
    /\ login' = [a \in Login |->
                   IF lock[a] = t /\ a # tx[t].who THEN "gone" ELSE login[a]]
    /\ UNCHANGED <<there, used, version, conn, reported, forgiven>>

Commit(t) ==
    /\ Ready(t)
    /\ CASE tx[t].kind = "authorize" -> AuthorizeCommits(t)
         [] tx[t].kind = "heartbeat" -> HeartbeatCommits(t)
         [] tx[t].kind = "close"     -> CloseCommits(t)
         [] tx[t].kind = "rotate"    -> RotateCommits(t)
         [] tx[t].kind = "reset"     -> ResetCommits(t)
         [] tx[t].kind = "delete"    -> DeleteCommits(t)
         [] OTHER                    -> LoginsDeleted(t)
    /\ End(t)
    /\ UNCHANGED asked

\* The loop closes the database session of a handler that did not commit.
Finalise(t) ==
    /\ Scheduled(t, "returned")
    /\ End(t)
    /\ UNCHANGED <<rows, asked>>
-----------------------------------------------------------------------------
\* What t waits for: a row that others hold, in the statement it executes.
Waits(t) ==
    /\ tx[t].stage = "run"
    /\ Front(t) # {}
    /\ \A r \in Front(t) : lock[r] # None
WaitsFor(t) == {lock[r] : r \in Front(t)}

Deadlocked(D) == D # {} /\ \A t \in D : Waits(t) /\ WaitsFor(t) \subseteq D

Cycle(D) == Deadlocked(D) /\ \A E \in SUBSET D : Deadlocked(E) => E = D

\* PostgreSQL aborts one transaction of a cycle; the handler answers 500.
DeadlockAbort(t) ==
    /\ \E D \in SUBSET Tx : t \in D /\ Cycle(D)
    /\ End(t)
    /\ UNCHANGED <<rows, asked>>

LoginCreated(a) ==
    /\ login[a] = "none"
    /\ login' = [login EXCEPT ![a] = "live"]
    /\ UNCHANGED <<there, used, version, conn, lock, tx, asked, loop, counted, reported, forgiven>>

LoginExpires(a) ==
    /\ login[a] = "live"
    /\ login' = [login EXCEPT ![a] = "expired"]
    /\ UNCHANGED <<there, used, version, conn, lock, tx, asked, loop, counted, reported, forgiven>>

GoesQuiet(c) ==
    /\ conn[c] = "open"
    /\ conn' = [conn EXCEPT ![c] = "quiet"]
    /\ UNCHANGED <<there, used, version, login, lock, tx, asked, loop, counted, reported, forgiven>>

Step(t) ==
    \/ BodyRuns(t)
    \/ \E r \in Row : Lock(t, r) \/ Miss(t, r)
    \/ Commit(t)
    \/ Finalise(t)
    \/ DeadlockAbort(t)

Next ==
    \/ \E t \in Tx :
          \/ Step(t)
          \/ Authorize(t)
          \/ \E c \in Conn : Heartbeat(t, c) \/ Close(t, c)
          \/ \E a \in Login, k \in Administrative : Admitted(t, a, k)
    \/ \E a \in Login : LoginCreated(a) \/ LoginExpires(a)
    \/ \E c \in Conn : GoesQuiet(c)

Spec == Init /\ [][Next]_vars
-----------------------------------------------------------------------------
(***************************************************************************)
(* Nothing reported is lost and nothing is charged twice, whatever runs    *)
(* beside a heartbeat or a close (_apply_traffic): a counter is what was   *)
(* reported less what resets took away.                                    *)
(***************************************************************************)
CountersKept == \A k \in Column : used[k] + forgiven[k] = reported[k]

(***************************************************************************)
(* A session has its user: a delete that races an authorize takes the      *)
(* session inserted in between with it, so a heartbeat or a close never    *)
(* finds a session whose user is gone.                                     *)
(***************************************************************************)
UserOutlivesSessions == \A c \in Conn : Exists(c) => there

(***************************************************************************)
(* A session that has ended stays ended: a heartbeat or a close that       *)
(* waited for the row while a sweep or another close ended the session     *)
(* does not reopen it or charge it again.                                  *)
(***************************************************************************)
EndedStaysEnded ==
    [][\A c \in Conn : conn[c] \in {"ended", "gone"} => conn'[c] \in {conn[c], "gone"}]_vars

Live == {IpOf[c] : c \in {d \in Conn : Unended(d)}}

(***************************************************************************)
(* Two authorizes at once do not both take the last place under max_ips:   *)
(* when a session is inserted, its address had an unended one already, or  *)
(* the addresses are then within the limit.                                *)
(***************************************************************************)
AdmittedWithinLimit ==
    [][\A t \in Tx, c \in Conn :
          Commit(t) /\ conn[c] = "none" /\ conn'[c] = "open" =>
              IpOf[c] \in Live \/ Cardinality(Live') <= MaxIps]_vars

(***************************************************************************)
(* An administrator who has logged out changes nothing any more: a         *)
(* request that had been admitted before (current_admin) fails when it     *)
(* writes last_seen_at of the deleted session, with all it was to change.  *)
(***************************************************************************)
RevokedSessionWritesNothing ==
    [][\A t \in Tx : Commit(t) /\ tx[t].who \in Login => Exists(tx[t].who)]_vars

(***************************************************************************)
(* After reset_usage only traffic reported since it read the counters is   *)
(* left in them: a heartbeat may commit between the read and the write.    *)
(***************************************************************************)
ResetLeavesOnlyNewer ==
    [][\A t \in Tx : Commit(t) /\ tx[t].kind = "reset" =>
          \A k \in Column : used'[k] + tx[t].seen.reported[k] <= reported[k]]_vars

(***************************************************************************)
(* Only authorizes, by their sweep, and deletes meet in a deadlock, and    *)
(* never without a sweep; or cleanings of administrators' sessions among   *)
(* themselves.  So PostgreSQL never aborts a heartbeat or a close, whose   *)
(* bytes would be lost, nor a rotation, a reset or a logout.               *)
(***************************************************************************)
OnlySweepsDeadlock ==
    \A D \in SUBSET Tx : Cycle(D) =>
        LET kinds == {tx[t].kind : t \in D}
        IN  \/ "authorize" \in kinds /\ kinds \subseteq {"authorize", "delete"}
            \/ kinds = {"clean"}

Blocked(t) == Waits(t) \/ (loop # None /\ tx[t].stage \in {"auth", "returned"})
Busy == {t \in Tx : tx[t].stage # "idle"}

\* Requests are under way, none of them can go on, and PostgreSQL sees no cycle.
Hung ==
    /\ Busy # {}
    /\ \A t \in Busy : Blocked(t)
    /\ \A D \in SUBSET Tx : ~Deadlocked(D)

(***************************************************************************)
(* Only one thing can hang the control plane: the event loop waits in a    *)
(* handler for a row that is locked by a request whose handler has         *)
(* returned, and that the loop would have to close.                        *)
(***************************************************************************)
OnlyTheLoopHangs == Hung => loop # None /\ \E t \in Busy : tx[t].stage = "returned"

(***************************************************************************)
(* Every request is answered: what the acceptance script and the tests     *)
(* take for granted of DELETE /api/users and of the gateway's close.       *)
(***************************************************************************)
EveryRequestGoesOn == ~Hung

(***************************************************************************)
(* A rotation makes a version that no link has had ("the previous link is  *)
(* void at once").                                                         *)
(***************************************************************************)
RotationMovesOn ==
    [][\A t \in Tx : Commit(t) /\ tx[t].kind = "rotate" => version' > version]_vars
=============================================================================
