---------------------------- MODULE SessionLedger ----------------------------
(***************************************************************************)
(* The control plane's ledger: the tables "users", "access_keys", "nodes"  *)
(* and "connection_sessions", and the handlers that change them            *)
(* (backend/app/routes/gateway.py, users.py, nodes.py).                    *)
(*                                                                         *)
(* Each action is one committed database transaction.  The handlers of the *)
(* gateway lock the user row (SELECT ... FOR UPDATE) before they read what *)
(* they decide on, so their effects are those of some serial order.  The   *)
(* data plane is the environment here: an authorize, heartbeat or close    *)
(* can arrive for any user, address and session at any time, in any order  *)
(* and any number of times, which covers lost, repeated and late calls and *)
(* gateways that crash.  A call that changes nothing (a heartbeat of a     *)
(* session that is over is answered with 404, a close of one with "ok") is *)
(* a stuttering step.                                                      *)
(***************************************************************************)
EXTENDS Accounts, FiniteSets, Functions

CONSTANTS
    User, Node, Ip,
    Session,      \* ids of session rows; a fresh uuid is an id without a row
    StaleAfter,   \* settings.session_stale_seconds
    CloseReason,  \* the reasons a gateway gives when it closes a session
    Quota, Validity, IpLimit, Expiry,   \* the values an administrator enters
    Delta,        \* the byte counts a gateway reports in one call
    MaxTime,      \* bound on the clock
    MaxBytes      \* bound on the traffic ever charged to one user

ASSUME LedgerAssumption ==
    /\ IsFiniteSet(Ip)
    /\ None \notin User
    /\ StaleAfter \in Nat
    /\ Quota \subseteq Nat
    /\ Validity \subseteq Nat
    /\ IpLimit \subseteq Nat \ {0}
    /\ Expiry \subseteq MaybeTime
    /\ Delta \subseteq Nat
    /\ MaxTime \in Nat
    /\ MaxBytes \in Nat

VARIABLES
    now,          \* the clock of the control plane
    registered,   \* users that have a row
    account,      \* their rows
    route,        \* <<user, node>> pairs that have an access key
    nodeUp,       \* nodes with enabled = true
    session,      \* rows of connection_sessions
    denied,       \* the last "gateway.denied" audit event
    waived        \* history: bytes an administrator has reset, per user

vars == <<now, registered, account, route, nodeUp, session, denied, waived>>
-----------------------------------------------------------------------------
\* Rows of connection_sessions. "active" and "blocked" rows have no ended_at.

Reason == Refusals \cup CloseReason \cup {"", "heartbeat_timeout"}

Row ==
    [status  : {"none", "active", "blocked", "stale", "closed"},
     user    : User \cup {None},
     ip      : Ip \cup {None},
     bytes   : Nat,               \* uplink_bytes + downlink_bytes
     started : MaybeTime,
     seen    : MaybeTime,         \* last_seen_at
     ended   : MaybeTime,
     reason  : Reason]

NoRow ==
    [status |-> "none", user |-> None, ip |-> None, bytes |-> 0,
     started |-> None, seen |-> None, ended |-> None, reason |-> ""]

NewRow(u, i) ==
    [status |-> "active", user |-> u, ip |-> i, bytes |-> 0,
     started |-> now, seen |-> now, ended |-> None, reason |-> ""]

IsOpen(row) == row.status # "none" /\ row.ended = None

OpenOf(rows, u) == {s \in Session : IsOpen(rows[s]) /\ rows[s].user = u}

LiveIps(rows, u) == {rows[s].ip : s \in OpenOf(rows, u)}

Blank ==   \* a row as create_user inserts it, before the payload is copied in
    [active |-> TRUE, quota |-> 0, used |-> 0, validity |-> 0,
     starts |-> None, expires |-> None, maxIps |-> 1]

TypeOK ==
    /\ now \in 0..MaxTime
    /\ registered \subseteq User
    /\ account \in [User -> Account]
    /\ route \subseteq User \X Node
    /\ nodeUp \subseteq Node
    /\ session \in [Session -> Row]
    /\ denied \in [user : User \cup {None}, reason : {"none", "route_not_found", "ip_limit"} \cup Refusals]
    /\ waived \in [User -> Nat]

Init ==
    /\ now = 0
    /\ registered = {}
    /\ account = [u \in User |-> Blank]
    /\ route = {}
    /\ nodeUp \in SUBSET Node
    /\ session = [s \in Session |-> NoRow]
    /\ denied = [user |-> None, reason |-> "none"]
    /\ waived = [u \in User |-> 0]
-----------------------------------------------------------------------------
(***************************************************************************)
(* POST /api/internal/gateway/authorize.  Every outcome, a refusal too,    *)
(* first ends the sessions of all users that have been silent for longer   *)
(* than StaleAfter, and commits that.                                      *)
(***************************************************************************)
\* (a sweep that does not wait for the limit to pass)
IsStaleAtLimit(row) == IsOpen(row) /\ row.seen + StaleAfter <= now

IsStale(row) == IsOpen(row) /\ row.seen + StaleAfter < now

Swept ==
    [s \in Session |->
        IF IsStale(session[s])
        THEN [session[s] EXCEPT !.ended = now, !.status = "stale",
                                !.reason = "heartbeat_timeout"]
        ELSE session[s]]

HasRoute(u, n) == u \in registered /\ n \in nodeUp /\ <<u, n>> \in route

\* (a count taken before the sweep)
OverIpLimitUnswept(u, i) ==
    /\ i \notin LiveIps(session, u)
    /\ Cardinality(LiveIps(session, u)) >= account[u].maxIps

OverIpLimit(u, i) ==
    /\ i \notin LiveIps(Swept, u)
    /\ Cardinality(LiveIps(Swept, u)) >= account[u].maxIps

\* (every connection restarts the validity period)
StartedAgain(a) ==
    [a EXCEPT !.starts = now,
              !.expires = IF a.validity # 0 THEN now + Day * a.validity ELSE @]

\* The first authorised connection starts the validity period.
Started(a) ==
    IF a.starts # None THEN a
    ELSE [a EXCEPT !.starts = now,
                   !.expires = IF a.validity # 0 THEN now + Day * a.validity ELSE @]

Deny(u, reason) ==
    /\ session' = Swept
    /\ denied' = [user |-> u, reason |-> reason]
    /\ UNCHANGED <<now, registered, account, route, nodeUp, waived>>

AuthorizeUnrouted(u, n) ==
    /\ ~HasRoute(u, n)
    /\ Deny(u, "route_not_found")

AuthorizeRefused(u, n) ==
    /\ HasRoute(u, n)
    /\ ~UserAllowed(account[u], now)
    /\ Deny(u, Verdict(account[u], now))

AuthorizeIpLimited(u, n, i) ==
    /\ HasRoute(u, n)
    /\ UserAllowed(account[u], now)
    /\ OverIpLimit(u, i)
    /\ Deny(u, "ip_limit")

AuthorizeAdmitted(u, n, i, s) ==
    /\ HasRoute(u, n)
    /\ UserAllowed(account[u], now)
    /\ ~OverIpLimit(u, i)
    /\ session[s] = NoRow
    /\ account' = [account EXCEPT ![u] = Started(@)]
    /\ session' = [Swept EXCEPT ![s] = NewRow(u, i)]
    /\ UNCHANGED <<now, registered, route, nodeUp, denied, waived>>
-----------------------------------------------------------------------------
(***************************************************************************)
(* POST /heartbeat and POST /close.  Both charge the reported bytes to the *)
(* session and to its user while the session is open.  A heartbeat of a    *)
(* user who may no longer use the service marks the session "blocked" and  *)
(* asks the gateway to terminate it, but does not end it.  Neither call    *)
(* looks at the node, the access key or the address again.                 *)
(***************************************************************************)
\* (a wrong sign)
ChargedBack(a, d) == [a EXCEPT !.used = @ - d]

Charged(a, d) == [a EXCEPT !.used = @ + d]

\* (the session's own counter is forgotten)
HeardUncounted(row, d) == [row EXCEPT !.seen = now]

Heard(row, d) == [row EXCEPT !.bytes = @ + d, !.seen = now]

CanCharge(u, d) == account[u].used + waived[u] + d <= MaxBytes

Heartbeat(s, d) ==
    LET u == session[s].user
        a == Charged(account[u], d)
        row == Heard(session[s], d)
    IN  /\ IsOpen(session[s])
        /\ u \in registered
        /\ CanCharge(u, d)
        /\ account' = [account EXCEPT ![u] = a]
        /\ session' = [session EXCEPT ![s] =
              IF UserAllowed(a, now) THEN row
              ELSE [row EXCEPT !.status = "blocked", !.reason = Verdict(a, now)]]
        /\ UNCHANGED <<now, registered, route, nodeUp, denied, waived>>

Closed(row, r) == [row EXCEPT !.ended = now, !.status = "closed", !.reason = r]

Close(s, d, r) ==
    LET u == session[s].user
    IN  /\ IsOpen(session[s])
        /\ IF u \in registered
           THEN /\ CanCharge(u, d)
                /\ account' = [account EXCEPT ![u] = Charged(@, d)]
                /\ session' = [session EXCEPT ![s] = Closed(Heard(@, d), r)]
           ELSE /\ session' = [session EXCEPT ![s] = Closed(@, r)]
                /\ UNCHANGED account
        /\ UNCHANGED <<now, registered, route, nodeUp, denied, waived>>
-----------------------------------------------------------------------------
\* The administrator's handlers.

CreateUser(u, q, v, m, N) ==
    /\ u \notin registered
    /\ registered' = registered \cup {u}
    /\ account' = [account EXCEPT ![u] =
                     [Blank EXCEPT !.quota = q, !.validity = v, !.maxIps = m]]
    /\ route' = route \cup ({u} \X (nodeUp \cap N))
    /\ UNCHANGED <<now, nodeUp, session, denied, waived>>

\* PATCH /users/{id}: any subset of the columns, the others keep their value.
UpdateUser(u, b, q, v, m, e) ==
    /\ u \in registered
    /\ account' = [account EXCEPT ![u] =
                     [@ EXCEPT !.active = b, !.quota = q, !.validity = v,
                               !.maxIps = m, !.expires = e]]
    /\ UNCHANGED <<now, registered, route, nodeUp, session, denied, waived>>

ResetUsage(u) ==
    /\ u \in registered
    /\ account' = [account EXCEPT ![u].used = 0]
    /\ waived' = [waived EXCEPT ![u] = @ + account[u].used]
    /\ UNCHANGED <<now, registered, route, nodeUp, session, denied>>

\* The foreign keys of both tables cascade.
RoutesWithout(u) == {p \in route : p[1] # u}

RowsWithout(u) == [s \in Session |-> IF session[s].user = u THEN NoRow ELSE session[s]]

DeleteUser(u) ==
    /\ u \in registered
    /\ registered' = registered \ {u}
    /\ account' = [account EXCEPT ![u] = Blank]
    /\ route' = RoutesWithout(u)
    /\ session' = RowsWithout(u)
    /\ waived' = [waived EXCEPT ![u] = 0]
    /\ UNCHANGED <<now, nodeUp, denied>>

AttachNode(u, n) ==
    /\ u \in registered
    /\ route' = route \cup {<<u, n>>}
    /\ UNCHANGED <<now, registered, account, nodeUp, session, denied, waived>>

DetachNode(u, n) ==
    /\ u \in registered
    /\ route' = route \ {<<u, n>>}
    /\ UNCHANGED <<now, registered, account, nodeUp, session, denied, waived>>

\* PATCH and DELETE /nodes/{id}; no handler removes the row of a node.
SetNode(n, up) ==
    /\ nodeUp' = IF up THEN nodeUp \cup {n} ELSE nodeUp \ {n}
    /\ UNCHANGED <<now, registered, account, route, session, denied, waived>>

Tick ==
    /\ now < MaxTime
    /\ now' = now + 1
    /\ UNCHANGED <<registered, account, route, nodeUp, session, denied, waived>>
-----------------------------------------------------------------------------
Authorize ==
    \E u \in User, n \in Node :
        \/ AuthorizeUnrouted(u, n)
        \/ AuthorizeRefused(u, n)
        \/ \E i \in Ip : AuthorizeIpLimited(u, n, i)
        \/ \E i \in Ip, s \in Session : AuthorizeAdmitted(u, n, i, s)

Report ==
    \E s \in Session, d \in Delta :
        \/ Heartbeat(s, d)
        \/ \E r \in CloseReason : Close(s, d, r)

Administer ==
    \/ \E u \in User, q \in Quota, v \in Validity, m \in IpLimit, N \in SUBSET Node :
          CreateUser(u, q, v, m, N)
    \/ \E u \in User, b \in BOOLEAN, q \in Quota, v \in Validity, m \in IpLimit :
          \E e \in Expiry \cup {account[u].expires} : UpdateUser(u, b, q, v, m, e)
    \/ \E u \in User : ResetUsage(u) \/ DeleteUser(u)
    \/ \E u \in User, n \in Node : AttachNode(u, n) \/ DetachNode(u, n)
    \/ \E n \in Node, up \in BOOLEAN : SetNode(n, up)

Next == Authorize \/ Report \/ Administer \/ Tick

Spec == Init /\ [][Next]_vars
-----------------------------------------------------------------------------
(***************************************************************************)
(* Properties.                                                             *)
(***************************************************************************)

\* Every row belongs to a registered user, and so does every access key: the
\* cascade of delete_user leaves nothing behind, so the "user_not_found" branch
\* of heartbeat and the missing-user branch of close are never taken.
RowsHaveUser ==
    /\ \A s \in Session :
          IF session[s].status = "none" THEN session[s] = NoRow
          ELSE /\ session[s].user \in registered
               /\ session[s].started \in 0..now
    /\ \A p \in route : p[1] \in registered

\* The IP limit, over any sequence of admissions, edits of the limit and late
\* heartbeats: a step that adds a live address to a user leaves the user with
\* no more live addresses than max_ips (authorize, gateway.py:68-80).
IpCeiling ==
    [][\A u \in User :
          LiveIps(session', u) \subseteq LiveIps(session, u)
          \/ Cardinality(LiveIps(session', u)) <= account[u].maxIps]_vars

\* A connection is refused with "ip_limit" only when max_ips other addresses
\* were heard from within StaleAfter: a session nobody hears of any more never
\* keeps a user out (the sweep precedes the count, gateway.py:48 and 68-80).
IpDenialJustified ==
    [][denied' # denied /\ denied'.reason = "ip_limit" =>
          LET u == denied'.user
              fresh == {s \in OpenOf(session, u) : session[s].seen + StaleAfter >= now}
          IN  Cardinality({session[s].ip : s \in fresh}) >= account[u].maxIps]_vars

\* A session that is over is never charged, reopened or relabelled again by a
\* late heartbeat, a repeated close or a sweep; only deleting its user removes it.
EndedIsFinal ==
    [][\A s \in Session :
          session[s].ended # None => session'[s] \in {session[s], NoRow}]_vars

\* The usage an account shows is what its sessions were charged, less what an
\* administrator reset: no traffic is charged to one side only, or twice.
UsageAccounted ==
    \A u \in registered :
        account[u].used + waived[u]
            = SumFunctionOnSet([s \in Session |-> session[s].bytes],
                               {s \in Session : session[s].user = u})

\* Validity runs from the first authorised connection, whatever is edited,
\* reset or reconnected afterwards (FLOWS.md: not from the creation of the user).
FirstConnectionStartsValidity ==
    \A u \in registered :
        LET mine == {s \in Session : session[s].user = u}
        IN  IF mine = {} THEN account[u].starts = None
            ELSE /\ \E s \in mine : account[u].starts = session[s].started
                 /\ \A s \in mine : account[u].starts <= session[s].started

\* A session only opens on a route that exists, for a user whom the row the same
\* transaction commits still allows: starting the validity period never admits
\* a user and expires the user in one step (gateway.py:58-97).
AdmissionJustified ==
    [][\A s \in Session :
          session[s] = NoRow /\ session'[s] # NoRow =>
              LET u == session'[s].user
              IN  /\ \E n \in nodeUp : <<u, n>> \in route
                  /\ UserAllowed(account'[u], now)]_vars

(***************************************************************************)
(* The tables keep the promise of SessionRows: the sweep ends exactly the  *)
(* sessions that were silent for longer than session_stale_seconds, every  *)
(* admission respects max_ips as of then, and a report changes nothing but *)
(* the session it is about.                                                *)
(***************************************************************************)
IdleFor(r, t) ==
    IF r.ended # None THEN 0
    ELSE IF r.seen + StaleAfter < t THEN StaleAfter + 1 ELSE t - r.seen

Face(r, t) ==
    [user |-> r.user, ip |-> r.ip, state |-> IF r.ended = None THEN "open" ELSE "over",
     idle |-> IdleFor(r, t), bytes |-> r.bytes]

Kept == {s \in Session : session[s].status # "none"}

Rows == INSTANCE SessionRows WITH
    Bytes <- Delta \cup {0},
    row <- [s \in Kept |-> Face(session[s], now)],
    limit <- [u \in User |-> account[u].maxIps]

\* authorize, heartbeat, close, the edits of an administrator and the passing of
\* time are steps of SessionRows on these tables.
RowsPromised == Rows!Spec
=============================================================================
