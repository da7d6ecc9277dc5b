------------------------- MODULE SessionLedgerProofs -------------------------
(***************************************************************************)
(* Proofs about SessionLedger, for every set of users, nodes, addresses    *)
(* and session ids and every value of the bounds.                          *)
(***************************************************************************)
EXTENDS SessionLedger, SumTheorems, FiniteSetTheorems, TLAPS

\* The verdict on an account is "allowed" or one of the three refusals, so the
\* reason that a denial or a blocked session records is always a known one.
LEMMA VerdictType ==
    \A a, t : Verdict(a, t) \in Refusals \cup {"allowed"}
BY DEF Verdict, Refusals

\* authorize starts the validity of an account and keeps its columns in range.
LEMMA StartedType ==
    ASSUME NEW a \in Account, now \in Nat
    PROVE  Started(a) \in Account
<1>1. Day * a.validity \in Nat
  BY DayAssumption DEF Account
<1> DEFINE end == IF a.validity # 0 THEN now + Day * a.validity ELSE a.expires
<1>2. now \in MaybeTime /\ end \in MaybeTime
  BY <1>1 DEF Account, MaybeTime
<1>3. [a EXCEPT !.starts = now, !.expires = end] \in Account
  <2> HIDE DEF end
  <2> QED BY <1>2 DEF Account
<1> QED BY <1>3 DEF Started

\* The sweep keeps every row a row.
LEMMA SweptType ==
    ASSUME TypeOK
    PROVE  Swept \in [Session -> Row]
<1>1. ASSUME NEW row \in Row
      PROVE  [row EXCEPT !.ended = now, !.status = "stale",
                         !.reason = "heartbeat_timeout"] \in Row
  <2>1. now \in MaybeTime /\ "heartbeat_timeout" \in Reason
    BY LedgerAssumption DEF TypeOK, MaybeTime, Reason
  <2> QED BY <2>1 DEF Row
<1> QED BY <1>1 DEF Swept, TypeOK

\* A row keeps its type when it is heard of, blocked or closed.
LEMMA HeardType ==
    ASSUME NEW row \in Row, NEW d \in Nat, now \in Nat
    PROVE  Heard(row, d) \in Row
<1>1. now \in MaybeTime
  BY DEF MaybeTime
<1>2. row.bytes + d \in Nat
  BY DEF Row
<1>3. \A b \in Nat, t \in MaybeTime : [row EXCEPT !.bytes = b, !.seen = t] \in Row
  BY DEF Row
<1> QED BY <1>1, <1>2, <1>3 DEF Heard

LEMMA BlockedType ==
    ASSUME NEW row \in Row, NEW r \in Reason
    PROVE  [row EXCEPT !.status = "blocked", !.reason = r] \in Row
BY DEF Row

LEMMA ClosedType ==
    ASSUME NEW row \in Row, NEW r \in CloseReason, now \in Nat
    PROVE  Closed(row, r) \in Row
<1>1. now \in MaybeTime /\ r \in Reason
  BY DEF MaybeTime, Reason
<1> QED BY <1>1 DEF Closed, Row

\* Every handler keeps the tables well typed: sums never go below zero and a
\* reason, a status or an owner outside the declared sets is never stored.
THEOREM TypeCorrect == Spec => []TypeOK
<1>1. Init => TypeOK
  <2>1. Blank \in Account /\ NoRow \in Row
    BY DEF Blank, Account, NoRow, Row, MaybeTime, Reason
  <2> QED BY <2>1, LedgerAssumption DEF Init, TypeOK
<1>2. TypeOK /\ [Next]_vars => TypeOK'
  <2> SUFFICES ASSUME TypeOK, [Next]_vars PROVE TypeOK'
    OBVIOUS
  <2> USE LedgerAssumption
  <2>1. ASSUME NEW u \in User,
               NEW reason \in {"route_not_found", "ip_limit"} \cup Refusals, Deny(u, reason)
        PROVE  TypeOK'
    BY <2>1, SweptType DEF TypeOK, Deny
  <2>2. CASE Authorize
    <3>1. PICK u \in User, n \in Node :
             \/ AuthorizeUnrouted(u, n)
             \/ AuthorizeRefused(u, n)
             \/ \E i \in Ip : AuthorizeIpLimited(u, n, i)
             \/ \E i \in Ip, s \in Session : AuthorizeAdmitted(u, n, i, s)
      BY <2>2 DEF Authorize
    <3>2. CASE AuthorizeUnrouted(u, n)
      BY <2>1, <3>2 DEF AuthorizeUnrouted
    <3>3. CASE AuthorizeRefused(u, n)
      BY <2>1, <3>3, VerdictType DEF AuthorizeRefused, UserAllowed
    <3>4. CASE \E i \in Ip : AuthorizeIpLimited(u, n, i)
      BY <2>1, <3>4 DEF AuthorizeIpLimited
    <3>5. ASSUME NEW i \in Ip, NEW s \in Session, AuthorizeAdmitted(u, n, i, s)
          PROVE  TypeOK'
      <4>1. account' \in [User -> Account]
        BY <3>5, StartedType DEF TypeOK, AuthorizeAdmitted
      <4>2. NewRow(u, i) \in Row
        <5>1. now \in MaybeTime /\ None \in MaybeTime /\ "" \in Reason
          BY DEF TypeOK, MaybeTime, Reason
        <5> QED BY <5>1 DEF NewRow, Row
      <4>3. session' \in [Session -> Row]
        BY <3>5, <4>2, SweptType DEF AuthorizeAdmitted
      <4> QED BY <3>5, <4>1, <4>3 DEF TypeOK, AuthorizeAdmitted
    <3> QED BY <3>1, <3>2, <3>3, <3>4, <3>5
  <2>3. CASE Report
    <3>1. PICK s \in Session, d \in Delta :
             Heartbeat(s, d) \/ \E r \in CloseReason : Close(s, d, r)
      BY <2>3 DEF Report
    <3> DEFINE u == session[s].user
    <3>2. d \in Nat /\ session[s] \in Row /\ now \in Nat
      BY DEF TypeOK
    <3>3. \A a \in Account : Charged(a, d) \in Account
      BY <3>2 DEF Charged, Account
    <3>4. CASE Heartbeat(s, d)
      <4> DEFINE a == Charged(account[u], d)
      <4>1. u \in User /\ a \in Account
        BY <3>3, <3>4 DEF Heartbeat, TypeOK
      <4>2. account' \in [User -> Account]
        BY <3>4, <4>1 DEF Heartbeat, TypeOK
      <4>3. session' \in [Session -> Row]
        <5>1. CASE UserAllowed(a, now)
          BY <3>2, <3>4, <5>1, HeardType DEF Heartbeat, TypeOK
        <5>2. CASE ~UserAllowed(a, now)
          <6>1. Verdict(a, now) \in Reason
            BY <5>2, VerdictType DEF UserAllowed, Reason
          <6>2. [Heard(session[s], d) EXCEPT !.status = "blocked", !.reason = Verdict(a, now)] \in Row
            BY <3>2, <6>1, HeardType, BlockedType
          <6> QED BY <3>4, <5>2, <6>2 DEF Heartbeat, TypeOK
        <5> QED BY <5>1, <5>2
      <4> QED BY <3>4, <4>2, <4>3 DEF TypeOK, Heartbeat
    <3>5. ASSUME NEW r \in CloseReason, Close(s, d, r)
          PROVE  TypeOK'
      <4>1. account' \in [User -> Account]
        BY <3>3, <3>5 DEF Close, TypeOK
      <4>2. Closed(Heard(session[s], d), r) \in Row /\ Closed(session[s], r) \in Row
        BY <3>2, HeardType, ClosedType
      <4>3. session' \in [Session -> Row]
        BY <3>5, <4>2 DEF Close, TypeOK
      <4> QED BY <3>5, <4>1, <4>3 DEF TypeOK, Close
    <3> QED BY <3>1, <3>4, <3>5
  <2>4. CASE Administer
    <3>1. ASSUME NEW u \in User, NEW q \in Quota, NEW v \in Validity, NEW m \in IpLimit,
                 NEW N \in SUBSET Node, CreateUser(u, q, v, m, N)
          PROVE  TypeOK'
      <4>1. [Blank EXCEPT !.quota = q, !.validity = v, !.maxIps = m] \in Account
        BY DEF Blank, Account, MaybeTime
      <4> QED BY <3>1, <4>1 DEF TypeOK, CreateUser
    <3>2. ASSUME NEW u \in User, NEW b \in BOOLEAN, NEW q \in Quota, NEW v \in Validity,
                 NEW m \in IpLimit, NEW e \in Expiry \cup {account[u].expires},
                 UpdateUser(u, b, q, v, m, e)
          PROVE  TypeOK'
      <4>1. account[u] \in Account
        BY DEF TypeOK
      <4>2. [account[u] EXCEPT !.active = b, !.quota = q, !.validity = v,
                               !.maxIps = m, !.expires = e] \in Account
        BY <4>1 DEF Account
      <4> QED BY <3>2, <4>2 DEF TypeOK, UpdateUser
    <3>3. ASSUME NEW u \in User, ResetUsage(u) PROVE TypeOK'
      <4>1. account[u] \in Account /\ waived[u] \in Nat
        BY DEF TypeOK
      <4>2. [account[u] EXCEPT !.used = 0] \in Account /\ waived[u] + account[u].used \in Nat
        BY <4>1 DEF Account
      <4> QED BY <3>3, <4>2 DEF TypeOK, ResetUsage
    <3>4. ASSUME NEW u \in User, DeleteUser(u) PROVE TypeOK'
      <4>1. Blank \in Account /\ NoRow \in Row
        BY DEF Blank, Account, NoRow, Row, MaybeTime, Reason
      <4> QED BY <3>4, <4>1 DEF TypeOK, DeleteUser, RoutesWithout, RowsWithout
    <3>5. ASSUME NEW u \in User, NEW n \in Node, AttachNode(u, n) \/ DetachNode(u, n)
          PROVE  TypeOK'
      BY <3>5 DEF TypeOK, AttachNode, DetachNode
    <3>6. ASSUME NEW n \in Node, NEW up \in BOOLEAN, SetNode(n, up) PROVE TypeOK'
      BY <3>6 DEF TypeOK, SetNode
    <3> QED BY <2>4, <3>1, <3>2, <3>3, <3>4, <3>5, <3>6 DEF Administer
  <2>5. CASE Tick
    BY <2>5 DEF TypeOK, Tick
  <2>6. CASE UNCHANGED vars
    BY <2>6 DEF TypeOK, vars
  <2> QED BY <2>2, <2>3, <2>4, <2>5, <2>6 DEF Next
<1> QED BY <1>1, <1>2, PTL DEF Spec
-----------------------------------------------------------------------------
\* The life of a row over one step.  A row is opened by an admission only; it
\* keeps its owner, address and start until it is deleted with its user; and
\* once it has ended it does not change any more.
RowLife(s) ==
    IF session[s] = NoRow
    THEN session'[s] = NoRow
         \/ \E u \in User, n \in Node, i \in Ip : AuthorizeAdmitted(u, n, i, s)
    ELSE session'[s] = NoRow
         \/ /\ session'[s].user = session[s].user
            /\ session'[s].ip = session[s].ip
            /\ session'[s].started = session[s].started
            /\ session'[s].seen \in {session[s].seen, now}
            /\ session'[s].status # "none" <=> session[s].status # "none"
            /\ IsOpen(session'[s]) => IsOpen(session[s])
            /\ session[s].ended # None => session'[s] = session[s]

\* The sweep ends open rows and touches nothing else.
LEMMA SweptRow ==
    ASSUME TypeOK, NEW s \in Session
    PROVE  /\ session[s] = NoRow => Swept[s] = NoRow
           /\ Swept[s].user = session[s].user
           /\ Swept[s].ip = session[s].ip
           /\ Swept[s].started = session[s].started
           /\ Swept[s].seen = session[s].seen
           /\ Swept[s].status # "none" <=> session[s].status # "none"
           /\ IsOpen(Swept[s]) => IsOpen(session[s])
           /\ session[s].ended # None => Swept[s] = session[s]
<1>1. session[s] \in Row
  BY DEF TypeOK
<1> DEFINE over == [session[s] EXCEPT !.ended = now, !.status = "stale",
                                      !.reason = "heartbeat_timeout"]
<1>2. Swept[s] = IF IsStale(session[s]) THEN over ELSE session[s]
  BY DEF Swept
<1>3. CASE ~IsStale(session[s])
  BY <1>2, <1>3
<1>4. CASE IsStale(session[s])
  <2>1. session[s].status # "none" /\ session[s].ended = None
    BY <1>4 DEF IsStale, IsOpen
  <2>2. /\ over.ended = now /\ over.status = "stale" /\ over.user = session[s].user
        /\ over.ip = session[s].ip /\ over.started = session[s].started
        /\ over.seen = session[s].seen
    BY <1>1 DEF Row
  <2>3. now # None
    BY NoneAssumption, LedgerAssumption DEF TypeOK
  <2>4. session[s] # NoRow
    <3>1. NoRow.status = "none"
      BY DEF NoRow
    <3> QED BY <2>1, <3>1
  <2> HIDE DEF over
  <2> QED BY <1>2, <1>4, <2>1, <2>2, <2>3, <2>4 DEF IsOpen
<1> QED BY <1>3, <1>4

LEMMA RowLives ==
    ASSUME TypeOK, [Next]_vars, NEW s \in Session
    PROVE  RowLife(s)
<1>0. session[s] \in Row /\ NoRow.status = "none"
  BY DEF TypeOK, NoRow
<1>1. ASSUME session' = Swept PROVE RowLife(s)
  BY <1>1, SweptRow DEF RowLife
<1>2. CASE Authorize
  <2>1. PICK u \in User, n \in Node :
           \/ AuthorizeUnrouted(u, n)
           \/ AuthorizeRefused(u, n)
           \/ \E i \in Ip : AuthorizeIpLimited(u, n, i)
           \/ \E i \in Ip, x \in Session : AuthorizeAdmitted(u, n, i, x)
    BY <1>2 DEF Authorize
  <2>2. ASSUME NEW i \in Ip, NEW x \in Session, AuthorizeAdmitted(u, n, i, x)
        PROVE  RowLife(s)
    <3>1. CASE s = x
      BY <2>2, <3>1 DEF AuthorizeAdmitted, RowLife
    <3>2. CASE s # x
      <4>1. session'[s] = Swept[s]
        BY <2>2, <3>2 DEF AuthorizeAdmitted, Swept
      <4> QED BY <4>1, SweptRow DEF RowLife
    <3> QED BY <3>1, <3>2
  <2> QED BY <1>1, <2>1, <2>2
          DEF Deny, AuthorizeUnrouted, AuthorizeRefused, AuthorizeIpLimited
<1>3. CASE Report
  <2>1. PICK x \in Session, d \in Delta :
           Heartbeat(x, d) \/ \E r \in CloseReason : Close(x, d, r)
    BY <1>3 DEF Report
  <2>2. CASE s # x
    BY <2>1, <2>2 DEF Heartbeat, Close, RowLife, TypeOK
  <2>3. CASE s = x
    <3>1. IsOpen(session[s]) /\ session[s] # NoRow
      BY <1>0, <2>1, <2>3 DEF Heartbeat, Close, IsOpen
    <3>2. CASE Heartbeat(s, d)
      BY <1>0, <3>1, <3>2 DEF Heartbeat, Heard, RowLife, IsOpen, Row, TypeOK
    <3>3. ASSUME NEW r \in CloseReason, Close(s, d, r) PROVE RowLife(s)
      <4>1. PICK row \in {session[s], Heard(session[s], d)} : session'[s] = Closed(row, r)
        BY <3>3 DEF Close, TypeOK
      <4>2. /\ Closed(row, r).user = session[s].user
            /\ Closed(row, r).ip = session[s].ip
            /\ Closed(row, r).started = session[s].started
            /\ Closed(row, r).seen \in {session[s].seen, now}
            /\ Closed(row, r).status = "closed"
        BY <1>0 DEF Closed, Heard, Row
      <4>3. session[s].ended = None /\ session[s].status # "none"
        BY <3>1 DEF IsOpen
      <4> QED BY <3>1, <4>1, <4>2, <4>3 DEF RowLife
    <3> QED BY <2>1, <2>3, <3>2, <3>3
  <2> QED BY <2>2, <2>3
<1>4. ASSUME UNCHANGED session PROVE RowLife(s)
  BY <1>4 DEF RowLife
<1>5. ASSUME NEW u \in User, DeleteUser(u) PROVE RowLife(s)
  BY <1>5 DEF DeleteUser, RowsWithout, RowLife
<1>6. CASE Administer
  BY <1>4, <1>5, <1>6 DEF Administer, CreateUser, UpdateUser, ResetUsage,
     AttachNode, DetachNode, SetNode
<1> QED BY <1>2, <1>3, <1>4, <1>6 DEF Next, Tick, vars

\* No late heartbeat, repeated close or sweep changes a session that is over.
THEOREM EndedStaysEnded == Spec => EndedIsFinal
<1>1. TypeOK /\ [Next]_vars =>
         [\A s \in Session : session[s].ended # None => session'[s] \in {session[s], NoRow}]_vars
  <2> SUFFICES ASSUME TypeOK, [Next]_vars, NEW s \in Session, session[s].ended # None
               PROVE  session'[s] \in {session[s], NoRow}
    OBVIOUS
  <2>1. NoRow.ended = None
    BY DEF NoRow
  <2>2. session[s] # NoRow
    BY <2>1
  <2> QED BY <2>2, RowLives DEF RowLife
<1> QED BY <1>1, TypeCorrect, PTL DEF Spec, EndedIsFinal

\* However calls interleave, an admission never takes a user above max_ips.
THEOREM IpLimitKept == Spec => IpCeiling
<1> DEFINE Grows(u) == ~ (LiveIps(session', u) \subseteq LiveIps(session, u))
<1>1. ASSUME TypeOK, [Next]_vars, NEW w \in User, Grows(w)
      PROVE  Cardinality(LiveIps(session', w)) <= account[w].maxIps
  <2>0. NoRow.status = "none"
    BY DEF NoRow
  <2>1. PICK s \in Session : /\ IsOpen(session'[s]) /\ session'[s].user = w
                             /\ session'[s].ip \notin LiveIps(session, w)
    BY <1>1 DEF LiveIps, OpenOf
  <2>2. session'[s] # NoRow
    BY <2>0, <2>1 DEF IsOpen
  <2>3. session[s] = NoRow
    BY <1>1, <2>1, <2>2, RowLives DEF RowLife, LiveIps, OpenOf
  <2>4. PICK u \in User, n \in Node, i \in Ip : AuthorizeAdmitted(u, n, i, s)
    BY <1>1, <2>2, <2>3, RowLives DEF RowLife
  <2>5. Swept \in [Session -> Row]
    BY <1>1, SweptType
  <2>6. /\ session'[s] = NewRow(u, i)
        /\ \A x \in Session \ {s} : session'[x] = Swept[x]
    BY <2>4, <2>5 DEF AuthorizeAdmitted
  <2>7. u = w /\ session'[s].ip = i
    <3>1. NewRow(u, i).user = u /\ NewRow(u, i).ip = i
      BY DEF NewRow
    <3> QED BY <2>1, <2>6, <3>1
  <2> DEFINE L == LiveIps(Swept, w)
  <2>8. L \subseteq LiveIps(session, w)
    BY <1>1, SweptRow DEF LiveIps, OpenOf
  <2>9. LiveIps(session', w) \subseteq L \cup {i}
    BY <2>6, <2>7 DEF LiveIps, OpenOf
  <2>10. i \notin L
    BY <2>1, <2>7, <2>8
  <2>11. IsFiniteSet(L)
    <3>1. \A x \in Session : Swept[x].ip \in Ip \cup {None}
      BY <2>5 DEF Row
    <3>2. L \subseteq Ip \cup {None}
      BY <3>1 DEF LiveIps, OpenOf
    <3>3. IsFiniteSet(Ip \cup {None})
      BY LedgerAssumption, FS_AddElement
    <3> QED BY <3>2, <3>3, FS_Subset
  <2>12. ~(Cardinality(L) >= account[w].maxIps)
    BY <2>4, <2>7, <2>10 DEF AuthorizeAdmitted, OverIpLimit
  <2>13. Cardinality(L) \in Nat /\ account[w].maxIps \in Nat
    BY <1>1, <2>11, FS_CardinalityType DEF TypeOK, Account
  <2>14. IsFiniteSet(L \cup {i}) /\ Cardinality(L \cup {i}) = Cardinality(L) + 1
    BY <2>10, <2>11, FS_AddElement
  <2>15. /\ Cardinality(LiveIps(session', w)) <= Cardinality(L \cup {i})
         /\ Cardinality(LiveIps(session', w)) \in Nat
    BY <2>9, <2>14, FS_Subset, FS_CardinalityType
  <2> QED
    <3> HIDE DEF L
    <3> QED BY <2>12, <2>13, <2>14, <2>15
<1>2. TypeOK /\ [Next]_vars =>
         [\A u \in User :
             LiveIps(session', u) \subseteq LiveIps(session, u)
             \/ Cardinality(LiveIps(session', u)) <= account[u].maxIps]_vars
  BY <1>1
<1> QED BY <1>2, TypeCorrect, PTL DEF Spec, IpCeiling
-----------------------------------------------------------------------------
\* Only four of the handlers change who is registered or who has a route where.
LEMMA RouteSteps ==
    ASSUME [Next]_vars
    PROVE  \/ UNCHANGED <<registered, route>>
           \/ \E u \in User, q \in Quota, v \in Validity, m \in IpLimit, N \in SUBSET Node :
                 CreateUser(u, q, v, m, N)
           \/ \E u \in User : DeleteUser(u)
           \/ \E u \in User, n \in Node : AttachNode(u, n) \/ DetachNode(u, n)
<1>1. CASE Authorize
  BY <1>1 DEF Authorize, AuthorizeUnrouted, AuthorizeRefused, AuthorizeIpLimited,
     AuthorizeAdmitted, Deny
<1>2. CASE Report
  BY <1>2 DEF Report, Heartbeat, Close
<1>3. CASE Administer
  BY <1>3 DEF Administer, UpdateUser, ResetUsage, SetNode
<1> QED BY <1>1, <1>2, <1>3 DEF Next, Tick, vars

\* The clock only moves forward.
LEMMA ClockSteps ==
    ASSUME now \in Nat, [Next]_vars
    PROVE  now' \in Nat /\ now' >= now
<1>1. ASSUME Authorize PROVE now' = now
  BY <1>1 DEF Authorize, AuthorizeUnrouted, AuthorizeRefused, AuthorizeIpLimited,
     AuthorizeAdmitted, Deny
<1>2. ASSUME Report PROVE now' = now
  BY <1>2 DEF Report, Heartbeat, Close
<1>3. ASSUME Administer PROVE now' = now
  BY <1>3, Zenon DEF Administer, CreateUser, UpdateUser, ResetUsage, DeleteUser,
     AttachNode, DetachNode, SetNode
<1>4. ASSUME UNCHANGED vars PROVE now' = now
  BY <1>4 DEF vars
<1>5. CASE Tick
  BY <1>5 DEF Tick
<1>6. now \in Nat /\ now >= now /\ now + 1 \in Nat
  OBVIOUS
<1> QED BY <1>1, <1>2, <1>3, <1>4, <1>5, <1>6 DEF Next

\* delete_user leaves no session row and no access key behind, whatever it
\* interleaves with: heartbeat never meets a session without its user.
THEOREM NoOrphans == Spec => []RowsHaveUser
<1>0. NoRow.status = "none" /\ NoRow.user = None
  BY DEF NoRow
<1>1. Init => RowsHaveUser
  BY <1>0 DEF Init, RowsHaveUser
<1>2. TypeOK /\ TypeOK' /\ RowsHaveUser /\ [Next]_vars => RowsHaveUser'
  <2> SUFFICES ASSUME TypeOK, TypeOK', RowsHaveUser, [Next]_vars PROVE RowsHaveUser'
    OBVIOUS
  <2> DEFINE RowOk(s) == IF session[s].status = "none" THEN session[s] = NoRow
                         ELSE /\ session[s].user \in registered
                              /\ session[s].started \in 0..now
  <2>1. now' >= now /\ now \in Nat /\ now' \in Nat
    BY ClockSteps, LedgerAssumption DEF TypeOK
  <2>2. ASSUME NEW s \in Session, NEW u \in User, NEW n \in Node, NEW i \in Ip,
               AuthorizeAdmitted(u, n, i, s)
        PROVE  RowOk(s)'
    <3>1. session'[s] = NewRow(u, i) /\ now' = now /\ u \in registered'
      BY <2>2, SweptType DEF AuthorizeAdmitted, HasRoute
    <3>2. /\ NewRow(u, i).status # "none" /\ NewRow(u, i).user = u
          /\ NewRow(u, i).started = now
      BY DEF NewRow
    <3> QED BY <2>1, <3>1, <3>2
  <2>3. \A u \in registered : u \in registered' \/ DeleteUser(u)
    <3> SUFFICES ASSUME NEW u \in registered, u \notin registered' PROVE DeleteUser(u)
      OBVIOUS
    <3>1. PICK w \in User : DeleteUser(w)
      <4>1. ~ \E w \in User, q \in Quota, v \in Validity, m \in IpLimit, N \in SUBSET Node :
                CreateUser(w, q, v, m, N)
        BY DEF CreateUser
      <4>2. ~ \E w \in User, n \in Node : AttachNode(w, n) \/ DetachNode(w, n)
        BY DEF AttachNode, DetachNode
      <4> QED BY <4>1, <4>2, RouteSteps
    <3>2. w = u
      BY <3>1 DEF DeleteUser
    <3> QED BY <3>1, <3>2
  <2>4. ASSUME NEW s \in Session PROVE RowOk(s)'
    <3>1. CASE session'[s] = NoRow
      BY <1>0, <3>1
    <3>2. CASE session[s] = NoRow /\ session'[s] # NoRow
      BY <2>2, <3>2, RowLives DEF RowLife
    <3>3. CASE session[s] # NoRow /\ session'[s] # NoRow
      <4>1. /\ session'[s].user = session[s].user
            /\ session'[s].started = session[s].started
            /\ session'[s].status # "none" <=> session[s].status # "none"
        BY <3>3, RowLives DEF RowLife
      <4>2. session[s].user \in registered /\ session[s].started \in 0..now
            /\ session[s].status # "none"
        BY <3>3 DEF RowsHaveUser
      <4>3. ~DeleteUser(session[s].user)
        BY <3>3 DEF DeleteUser, RowsWithout
      <4> QED BY <2>1, <2>3, <4>1, <4>2, <4>3
    <3> QED BY <3>1, <3>2, <3>3
  <2>5. ASSUME NEW p \in route' PROVE p[1] \in registered'
    <3>1. CASE p \in route
      <4>1. p[1] \in registered
        BY <3>1 DEF RowsHaveUser
      <4>2. ~DeleteUser(p[1])
        BY <2>5 DEF DeleteUser, RoutesWithout
      <4> QED BY <2>3, <4>1, <4>2
    <3>2. CASE p \notin route
      <4>1. ASSUME NEW u \in User, NEW q \in Quota, NEW v \in Validity,
                   NEW m \in IpLimit, NEW N \in SUBSET Node, CreateUser(u, q, v, m, N)
            PROVE  p[1] \in registered'
        BY <2>5, <3>2, <4>1 DEF CreateUser
      <4>2. ASSUME NEW u \in User, NEW n \in Node, AttachNode(u, n) \/ DetachNode(u, n)
            PROVE  p[1] \in registered'
        BY <2>5, <3>2, <4>2 DEF AttachNode, DetachNode
      <4>3. ASSUME NEW u \in User, DeleteUser(u) PROVE FALSE
        BY <2>5, <3>2, <4>3 DEF DeleteUser, RoutesWithout
      <4> QED BY <2>5, <3>2, <4>1, <4>2, <4>3, RouteSteps
    <3> QED BY <3>1, <3>2
  <2> QED BY <2>4, <2>5 DEF RowsHaveUser
<1> QED BY <1>1, <1>2, TypeCorrect, PTL DEF Spec
-----------------------------------------------------------------------------
\* A row goes only with its user.
LEMMA RowGoes ==
    ASSUME TypeOK, RowsHaveUser, [Next]_vars, NEW s \in Session,
           session[s] # NoRow, session'[s] = NoRow
    PROVE  DeleteUser(session[s].user)
<1>0. NoRow.status = "none" /\ session[s] \in Row /\ session[s].status # "none"
  BY DEF NoRow, TypeOK, RowsHaveUser
<1>1. session' # session
  OBVIOUS
<1>2. ~(session' = Swept)
  BY <1>0, SweptRow
<1>3. CASE Authorize
  <2>1. PICK u \in User, n \in Node, i \in Ip, x \in Session : AuthorizeAdmitted(u, n, i, x)
    BY <1>2, <1>3
       DEF Authorize, AuthorizeUnrouted, AuthorizeRefused, AuthorizeIpLimited, Deny
  <2>2. session'[s] = Swept[s]
    BY <2>1 DEF AuthorizeAdmitted, Swept
  <2> QED BY <1>0, <2>2, SweptRow
<1>4. CASE Report
  <2>1. PICK x \in Session, d \in Delta :
           Heartbeat(x, d) \/ \E r \in CloseReason : Close(x, d, r)
    BY <1>4 DEF Report
  <2>2. x = s
    BY <2>1 DEF Heartbeat, Close, TypeOK
  <2>3. ASSUME Heartbeat(s, d) PROVE session'[s].status # "none"
    BY <1>0, <2>3 DEF Heartbeat, Heard, Row, TypeOK
  <2>4. ASSUME NEW r \in CloseReason, Close(s, d, r) PROVE session'[s].status # "none"
    <3>1. PICK row \in {session[s], Heard(session[s], d)} : session'[s] = Closed(row, r)
      BY <2>4 DEF Close, TypeOK
    <3>2. Closed(row, r).status = "closed"
      BY <1>0 DEF Closed, Heard, Row
    <3> QED BY <3>1, <3>2
  <2> QED BY <1>0, <2>1, <2>2, <2>3, <2>4
<1>5. ASSUME NEW u \in User, DeleteUser(u) PROVE session[s].user = u
  BY <1>5 DEF DeleteUser, RowsWithout
<1>6. CASE Administer
  BY <1>1, <1>5, <1>6 DEF Administer, CreateUser, UpdateUser, ResetUsage,
     AttachNode, DetachNode, SetNode
<1> QED BY <1>1, <1>3, <1>4, <1>6 DEF Next, Tick, vars

\* Only an admission starts the validity of a user who stays.
LEMMA StartKept ==
    ASSUME TypeOK, [Next]_vars, NEW u \in User,
           ~ \E n \in Node, i \in Ip, s \in Session : AuthorizeAdmitted(u, n, i, s),
           ~ \E q \in Quota, v \in Validity, m \in IpLimit, N \in SUBSET Node :
                CreateUser(u, q, v, m, N),
           ~ DeleteUser(u)
    PROVE  account'[u].starts = account[u].starts
<1>0. account \in [User -> Account] /\ account[u] \in Account
  BY DEF TypeOK
<1>1. ASSUME account' = account PROVE account'[u].starts = account[u].starts
  BY <1>1
<1>2. ASSUME NEW w \in User, NEW b, w # u, account' = [account EXCEPT ![w] = b]
      PROVE  account'[u].starts = account[u].starts
  BY <1>0, <1>2
<1>3. CASE Authorize
  BY <1>1, <1>2, <1>3 DEF Authorize, AuthorizeUnrouted, AuthorizeRefused,
     AuthorizeIpLimited, AuthorizeAdmitted, Deny
<1>4. ASSUME NEW d \in Delta, NEW w,
             account' = [account EXCEPT ![w] = Charged(account[w], d)]
      PROVE  account'[u].starts = account[u].starts
  <2>1. Charged(account[u], d).starts = account[u].starts
    BY <1>0 DEF Charged, Account
  <2>2. account'[u] \in {account[u], Charged(account[u], d)}
    BY <1>0, <1>4
  <2> QED BY <2>1, <2>2
<1>5. CASE Report
  BY <1>1, <1>4, <1>5 DEF Report, Heartbeat, Close
<1>6. ASSUME NEW w \in User, NEW b \in BOOLEAN, NEW q \in Quota, NEW v \in Validity,
             NEW m \in IpLimit, NEW e, UpdateUser(w, b, q, v, m, e)
      PROVE  account'[u].starts = account[u].starts
  <2> DEFINE edited == [account[w] EXCEPT !.active = b, !.quota = q, !.validity = v,
                                          !.maxIps = m, !.expires = e]
  <2>1. edited.starts = account[w].starts
    BY <1>0 DEF TypeOK, Account
  <2>2. account' = [account EXCEPT ![w] = edited]
    BY <1>6 DEF UpdateUser
  <2> HIDE DEF edited
  <2> QED BY <1>0, <2>1, <2>2
<1>7. ASSUME NEW w \in User, ResetUsage(w)
      PROVE  account'[u].starts = account[u].starts
  BY <1>0, <1>7 DEF ResetUsage, Account
<1>8. CASE Administer
  <2>1. ASSUME NEW w \in User, NEW q \in Quota, NEW v \in Validity, NEW m \in IpLimit,
               NEW N \in SUBSET Node, CreateUser(w, q, v, m, N)
        PROVE  account'[u].starts = account[u].starts
    <3>1. w # u
      BY <2>1
    <3> QED BY <1>2, <2>1, <3>1 DEF CreateUser
  <2>2. ASSUME NEW w \in User, DeleteUser(w) PROVE account'[u].starts = account[u].starts
    <3>1. w # u
      BY <2>2
    <3> QED BY <1>2, <2>2, <3>1 DEF DeleteUser
  <2> QED BY <1>1, <1>6, <1>7, <1>8, <2>1, <2>2
          DEF Administer, AttachNode, DetachNode, SetNode
<1> QED BY <1>1, <1>3, <1>5, <1>8 DEF Next, Tick, vars

\* Validity is counted from the earliest of a user's connections, whatever is
\* edited, reset, closed or reconnected, until the user is deleted.
THEOREM ValidityRunsOnce == Spec => []FirstConnectionStartsValidity
<1> DEFINE Mine(u) == {s \in Session : session[s].user = u}
           Counted(u) == IF Mine(u) = {} THEN account[u].starts = None
                         ELSE /\ \E s \in Mine(u) : account[u].starts = session[s].started
                              /\ \A s \in Mine(u) : account[u].starts <= session[s].started
<1>0. FirstConnectionStartsValidity <=> \A u \in registered : Counted(u)
  BY DEF FirstConnectionStartsValidity
<1>1. Init => FirstConnectionStartsValidity
  BY DEF Init, FirstConnectionStartsValidity
<1>2. TypeOK /\ TypeOK' /\ RowsHaveUser /\ FirstConnectionStartsValidity /\ [Next]_vars
         => FirstConnectionStartsValidity'
  <2> SUFFICES ASSUME TypeOK, TypeOK', RowsHaveUser, FirstConnectionStartsValidity,
                      [Next]_vars, NEW u \in registered'
               PROVE  Counted(u)'
    BY DEF FirstConnectionStartsValidity
  <2>0. u \in User /\ now \in Nat /\ None \notin User /\ None \notin Nat /\ NoRow.user = None
    BY LedgerAssumption, NoneAssumption DEF TypeOK, NoRow
  <2>1. \A s \in Mine(u) : u \in registered /\ session[s].started \in 0..now
    BY <2>0 DEF RowsHaveUser
  <2>2. ~DeleteUser(u)
    BY DEF DeleteUser
  <2>3. ASSUME NEW s \in Session,
               ~ \E n \in Node, i \in Ip, x \in Session : AuthorizeAdmitted(u, n, i, x)
        PROVE  /\ session'[s].user = u <=> session[s].user = u
               /\ session[s].user = u => session'[s].started = session[s].started
    <3>1. CASE session[s] = NoRow /\ session'[s] # NoRow
      <4>1. PICK w \in User, n \in Node, i \in Ip : AuthorizeAdmitted(w, n, i, s)
        BY <3>1, RowLives DEF RowLife
      <4>2. w # u
        BY <2>3, <4>1
      <4>3. session'[s] = NewRow(w, i)
        BY <4>1, SweptType DEF AuthorizeAdmitted
      <4>4. session'[s].user = w
        <5>1. NewRow(w, i).user = w
          BY DEF NewRow
        <5> QED BY <4>3, <5>1
      <4> QED BY <2>0, <3>1, <4>2, <4>4
    <3>2. CASE session[s] # NoRow /\ session'[s] = NoRow
      <4>1. DeleteUser(session[s].user)
        BY <3>2, RowGoes
      <4> QED BY <2>0, <2>2, <3>2, <4>1
    <3> QED BY <2>0, <3>1, <3>2, RowLives DEF RowLife
  <2>4. CASE \E n \in Node, i \in Ip, s \in Session : AuthorizeAdmitted(u, n, i, s)
    <3>1. PICK n \in Node, i \in Ip, s \in Session : AuthorizeAdmitted(u, n, i, s)
      BY <2>4
    <3>2. /\ u \in registered
          /\ session[s] = NoRow
          /\ session'[s] = NewRow(u, i)
          /\ account'[u] = Started(account[u])
          /\ \A x \in Session \ {s} : session'[x] = Swept[x]
      BY <2>0, <3>1, SweptType DEF AuthorizeAdmitted, HasRoute, TypeOK
    <3>3. session'[s].user = u /\ session'[s].started = now
      <4>1. NewRow(u, i).user = u /\ NewRow(u, i).started = now
        BY DEF NewRow
      <4> QED BY <3>2, <4>1
    <3>4. \A x \in Session \ {s} :
             session'[x].user = session[x].user /\ session'[x].started = session[x].started
      BY <3>2, SweptRow
    <3>5. account'[u].starts = IF account[u].starts # None THEN account[u].starts ELSE now
      BY <2>0, <3>2 DEF Started, TypeOK, Account
    <3>6. session[s].user # u
      BY <2>0, <3>2
    <3>7. CASE Mine(u) = {}
      <4>1. account[u].starts = None
        BY <3>2, <3>7 DEF FirstConnectionStartsValidity
      <4>2. account'[u].starts = now /\ \A x \in Session : session'[x].user = u => x = s
        BY <3>4, <3>5, <3>7, <4>1
      <4> QED BY <2>0, <3>3, <4>2
    <3>8. CASE Mine(u) # {}
      <4>1. PICK x \in Mine(u) : account[u].starts = session[x].started
        BY <3>2, <3>8 DEF FirstConnectionStartsValidity
      <4>2. account[u].starts \in 0..now
        BY <2>1, <4>1
      <4>3. account'[u].starts = account[u].starts
        BY <2>0, <3>5, <4>2
      <4>4. x # s /\ x \in Mine(u)'
        BY <3>4, <3>6, <4>1
      <4>5. account'[u].starts = session'[x].started
        BY <3>4, <4>1, <4>3, <4>4
      <4>6. ASSUME NEW y \in Mine(u)' PROVE account'[u].starts <= session'[y].started
        <5>1. CASE y = s
          BY <2>0, <3>3, <4>2, <4>3, <5>1
        <5>2. CASE y # s
          BY <3>2, <3>4, <4>3, <5>2 DEF FirstConnectionStartsValidity
        <5> QED BY <5>1, <5>2
      <4> QED BY <4>4, <4>5, <4>6
    <3> QED BY <3>7, <3>8
  <2>5. CASE ~ \E n \in Node, i \in Ip, s \in Session : AuthorizeAdmitted(u, n, i, s)
    <3>1. /\ Mine(u)' = Mine(u)
          /\ \A s \in Mine(u) : session'[s].started = session[s].started
      BY <2>3, <2>5
    <3>2. CASE \E q \in Quota, v \in Validity, m \in IpLimit, N \in SUBSET Node :
                  CreateUser(u, q, v, m, N)
      <4>1. Mine(u) = {}
        BY <2>1, <3>2 DEF CreateUser
      <4>2. account'[u].starts = None
        BY <2>0, <3>2 DEF CreateUser, Blank, TypeOK
      <4> QED BY <3>1, <4>1, <4>2
    <3>3. CASE ~ \E q \in Quota, v \in Validity, m \in IpLimit, N \in SUBSET Node :
                    CreateUser(u, q, v, m, N)
      <4>1. account'[u].starts = account[u].starts
        BY <2>0, <2>2, <2>5, <3>3, StartKept
      <4>2. u \in registered
        BY <2>0, <2>2, <3>3, RouteSteps DEF DeleteUser, CreateUser, AttachNode, DetachNode
      <4>3. Counted(u)
        BY <4>2 DEF FirstConnectionStartsValidity
      <4> QED BY <3>1, <4>1, <4>3
    <3> QED BY <3>2, <3>3
  <2> QED BY <2>4, <2>5
<1> QED BY <1>1, <1>2, TypeCorrect, NoOrphans, PTL DEF Spec
-----------------------------------------------------------------------------
\* Starting the validity of an account never ends it at once: a validity is at
\* least one day long, and a day is at least one unit of the clock.
LEMMA StartedAllowed ==
    ASSUME NEW a \in Account, now \in Nat, UserAllowed(a, now)
    PROVE  UserAllowed(Started(a), now)
<1>1. CASE a.starts # None
  BY <1>1 DEF Started
<1>2. CASE a.starts = None
  <2> DEFINE end == IF a.validity # 0 THEN now + Day * a.validity ELSE a.expires
             b == [a EXCEPT !.starts = now, !.expires = end]
  <2>1. Started(a) = b
    BY <1>2 DEF Started
  <2>2. /\ b.active = a.active /\ b.quota = a.quota /\ b.used = a.used
        /\ b.validity = a.validity /\ b.starts = now /\ b.expires = end
    BY DEF Account
  <2>3. a.active /\ ~HasExpired(a, now) /\ ~QuotaSpent(a)
    BY DEF UserAllowed, Verdict
  <2>4. ~HasExpired(b, now)
    <3>1. CASE a.validity = 0
      <4>1. end = a.expires
        BY <3>1
      <4>2. UserExpiry(b) = a.expires /\ UserExpiry(a) = a.expires
        BY <1>2, <2>2, <3>1, <4>1 DEF UserExpiry
      <4> QED BY <2>3, <4>2 DEF HasExpired
    <3>2. CASE a.validity # 0
      <4>1. a.validity \in Nat \ {0} /\ Day \in Nat \ {0}
        BY <3>2, DayAssumption DEF Account
      <4>2. \A m, n \in Nat \ {0} : m * n \in Nat /\ m * n >= 1
        OBVIOUS
      <4>3. Day * a.validity \in Nat /\ Day * a.validity >= 1
        BY <4>1, <4>2
      <4>4. end = now + Day * a.validity
        BY <3>2
      <4> HIDE DEF b, end
      <4>5. end \in Nat /\ end > now
        BY <4>3, <4>4
      <4>6. UserExpiry(b) = end
        BY <2>2, <4>5, NoneAssumption DEF UserExpiry
      <4> QED BY <4>5, <4>6 DEF HasExpired
    <3> QED BY <3>1, <3>2
  <2>5. ~QuotaSpent(b)
    BY <2>2, <2>3 DEF QuotaSpent
  <2>6. b.active
    BY <2>2, <2>3
  <2> HIDE DEF b
  <2>7. Verdict(b, now) = "allowed"
    BY <2>4, <2>5, <2>6 DEF Verdict
  <2> QED BY <2>1, <2>7 DEF UserAllowed
<1> QED BY <1>1, <1>2

\* A session only opens by an admission, on a route that exists at that moment
\* and for a user whom the committed row still allows.
THEOREM AdmissionsJustified == Spec => AdmissionJustified
<1>1. TypeOK /\ [Next]_vars =>
         [\A s \in Session :
             session[s] = NoRow /\ session'[s] # NoRow =>
                 LET u == session'[s].user
                 IN  /\ \E n \in nodeUp : <<u, n>> \in route
                     /\ UserAllowed(account'[u], now)]_vars
  <2> SUFFICES ASSUME TypeOK, [Next]_vars, NEW s \in Session,
                      session[s] = NoRow, session'[s] # NoRow
               PROVE  /\ \E n \in nodeUp : <<session'[s].user, n>> \in route
                      /\ UserAllowed(account'[session'[s].user], now)
    OBVIOUS
  <2>1. PICK u \in User, n \in Node, i \in Ip : AuthorizeAdmitted(u, n, i, s)
    BY RowLives DEF RowLife
  <2>2. session'[s] = NewRow(u, i)
    BY <2>1, SweptType DEF AuthorizeAdmitted
  <2>3. session'[s].user = u
    <3>1. NewRow(u, i).user = u
      BY DEF NewRow
    <3> QED BY <2>2, <3>1
  <2>4. n \in nodeUp /\ <<u, n>> \in route
    BY <2>1 DEF AuthorizeAdmitted, HasRoute
  <2>5. UserAllowed(account'[u], now)
    <3>1. account[u] \in Account /\ now \in Nat /\ UserAllowed(account[u], now)
      BY <2>1, LedgerAssumption DEF AuthorizeAdmitted, TypeOK
    <3>2. account'[u] = Started(account[u])
      BY <2>1 DEF AuthorizeAdmitted, TypeOK
    <3> QED BY <3>1, <3>2, StartedAllowed
  <2> QED BY <2>3, <2>4, <2>5
<1> QED BY <1>1, TypeCorrect, PTL DEF Spec, AdmissionJustified
-----------------------------------------------------------------------------
\* An open row always says when its session was last heard of, so the sweep
\* compares a time with a time.
OpenHeard == \A s \in Session : IsOpen(session[s]) => session[s].seen \in 0..now

LEMMA OpenRowsHeard == Spec => []OpenHeard
<1>0. ~IsOpen(NoRow)
  BY DEF NoRow, IsOpen
<1>1. Init => OpenHeard
  BY <1>0 DEF Init, OpenHeard
<1>2. TypeOK /\ OpenHeard /\ [Next]_vars => OpenHeard'
  <2> SUFFICES ASSUME TypeOK, OpenHeard, [Next]_vars, NEW s \in Session, IsOpen(session'[s])
               PROVE  session'[s].seen \in 0..now'
    BY DEF OpenHeard, IsOpen
  <2>0. now \in Nat /\ now' \in Nat /\ now <= now'
    BY LedgerAssumption, ClockSteps DEF TypeOK
  <2>1. CASE session[s] = NoRow
    <3>1. PICK u \in User, n \in Node, i \in Ip : AuthorizeAdmitted(u, n, i, s)
      BY <1>0, <2>1, RowLives DEF RowLife
    <3>2. session'[s] = NewRow(u, i)
      BY <3>1, SweptType DEF AuthorizeAdmitted
    <3>3. NewRow(u, i).seen = now
      BY DEF NewRow
    <3> QED BY <2>0, <3>2, <3>3
  <2>2. CASE session[s] # NoRow
    BY <1>0, <2>0, <2>2, RowLives DEF RowLife, OpenHeard
  <2> QED BY <2>1, <2>2
<1> QED BY <1>1, <1>2, TypeCorrect, PTL DEF Spec

\* Nobody is turned away with "ip_limit" on account of sessions that went
\* silent: what is counted was heard of within StaleAfter.
THEOREM IpDenialsJustified == Spec => IpDenialJustified
<1> DEFINE Fresh(u) == {s \in OpenOf(session, u) : session[s].seen + StaleAfter >= now}
           FreshIps(u) == {session[s].ip : s \in Fresh(u)}
<1>1. ASSUME TypeOK, OpenHeard, [Next]_vars, denied' # denied, denied'.reason = "ip_limit"
      PROVE  Cardinality(FreshIps(denied'.user)) >= account[denied'.user].maxIps
  <2>1. PICK u \in User, n \in Node, i \in Ip : AuthorizeIpLimited(u, n, i)
    <3>1. CASE Authorize
      <4>1. PICK u \in User, n \in Node :
               \/ AuthorizeUnrouted(u, n)
               \/ AuthorizeRefused(u, n)
               \/ \E i \in Ip : AuthorizeIpLimited(u, n, i)
               \/ \E i \in Ip, s \in Session : AuthorizeAdmitted(u, n, i, s)
        BY <3>1 DEF Authorize
      <4>2. ~AuthorizeUnrouted(u, n)
        BY <1>1 DEF AuthorizeUnrouted, Deny
      <4>3. ~AuthorizeRefused(u, n)
        <5>1. Verdict(account[u], now) # "ip_limit"
          BY VerdictType DEF Refusals
        <5> QED BY <1>1, <5>1 DEF AuthorizeRefused, Deny
      <4>4. \A i \in Ip, s \in Session : ~AuthorizeAdmitted(u, n, i, s)
        BY <1>1 DEF AuthorizeAdmitted
      <4> QED BY <4>1, <4>2, <4>3, <4>4
    <3>2. ~Report
      BY <1>1 DEF Report, Heartbeat, Close
    <3>3. ~Administer
      BY <1>1, Zenon DEF Administer, CreateUser, UpdateUser, ResetUsage, DeleteUser,
         AttachNode, DetachNode, SetNode
    <3> QED BY <1>1, <3>1, <3>2, <3>3 DEF Next, Tick, vars
  <2>2. denied'.user = u /\ Cardinality(LiveIps(Swept, u)) >= account[u].maxIps
    BY <2>1 DEF AuthorizeIpLimited, Deny, OverIpLimit
  <2>3. now \in Nat /\ StaleAfter \in Nat
    BY <1>1, LedgerAssumption DEF TypeOK
  <2>4. LiveIps(Swept, u) \subseteq FreshIps(u)
    <3> SUFFICES ASSUME NEW s \in Session, IsOpen(Swept[s]), Swept[s].user = u
                 PROVE  s \in Fresh(u) /\ Swept[s].ip = session[s].ip
      BY DEF LiveIps, OpenOf
    <3>1. IsOpen(session[s]) /\ session[s].user = u /\ Swept[s].ip = session[s].ip
      BY <1>1, SweptRow
    <3>2. ~IsStale(session[s])
      <4>1. ASSUME IsStale(session[s]) PROVE Swept[s].ended = now
        BY <1>1, <4>1 DEF Swept, TypeOK, Row
      <4> QED BY <2>3, <4>1, NoneAssumption DEF IsOpen
    <3>3. session[s].seen \in Nat
      BY <1>1, <3>1 DEF OpenHeard
    <3>4. session[s].seen + StaleAfter >= now
      BY <2>3, <3>1, <3>2, <3>3 DEF IsStale
    <3> QED BY <3>1, <3>4 DEF OpenOf
  <2>5. IsFiniteSet(FreshIps(u))
    <3>1. FreshIps(u) \subseteq Ip \cup {None}
      BY <1>1 DEF OpenOf, TypeOK, Row
    <3>2. IsFiniteSet(Ip \cup {None})
      BY LedgerAssumption, FS_AddElement
    <3> QED BY <3>1, <3>2, FS_Subset
  <2>6. /\ IsFiniteSet(LiveIps(Swept, u))
        /\ Cardinality(LiveIps(Swept, u)) <= Cardinality(FreshIps(u))
    BY <2>4, <2>5, FS_Subset
  <2>7. /\ Cardinality(LiveIps(Swept, u)) \in Nat
        /\ Cardinality(FreshIps(u)) \in Nat
        /\ account[u].maxIps \in Nat
    BY <1>1, <2>5, <2>6, FS_CardinalityType DEF TypeOK, Account
  <2> HIDE DEF FreshIps
  <2> QED BY <2>2, <2>6, <2>7
<1>2. TypeOK /\ OpenHeard /\ [Next]_vars =>
         [denied' # denied /\ denied'.reason = "ip_limit" =>
             LET u == denied'.user
                 fresh == {s \in OpenOf(session, u) : session[s].seen + StaleAfter >= now}
             IN  Cardinality({session[s].ip : s \in fresh}) >= account[u].maxIps]_vars
  BY <1>1
<1> QED BY <1>2, TypeCorrect, OpenRowsHeard, PTL DEF Spec, IpDenialJustified
-----------------------------------------------------------------------------
(***************************************************************************)
(* The books.  What a step does to the rows and the account of one user:   *)
(* nothing that counts, or it charges one row and the account alike, or it *)
(* opens a row that has carried nothing yet, or it deletes everything.     *)
(***************************************************************************)
Mine(u) == {s \in Session : session[s].user = u}
Bytes == [s \in Session |-> session[s].bytes]
Total(u) == account[u].used + waived[u]

Books(u) == IsFiniteSet(Mine(u)) /\ Total(u) = SumFunctionOnSet(Bytes, Mine(u))

Keeps(u) ==
    /\ \A s \in Session : session'[s].user = u <=> session[s].user = u
    /\ \A s \in Session : session[s].user = u => session'[s].bytes = session[s].bytes
    /\ Total(u)' = Total(u)

Charges(u) ==
    \E s \in Session, d \in Nat :
        /\ \A x \in Session : session'[x].user = session[x].user
        /\ \A x \in Session \ {s} : session'[x].bytes = session[x].bytes
        /\ session[s].user = u /\ session'[s].bytes = session[s].bytes + d
        /\ Total(u)' = Total(u) + d

Opens(u) ==
    \E s \in Session :
        /\ session[s].user # u /\ session'[s].user = u /\ session'[s].bytes = 0
        /\ \A x \in Session \ {s} :
              session'[x].user = session[x].user /\ session'[x].bytes = session[x].bytes
        /\ Total(u)' = Total(u)

Wipes(u) == (\A s \in Session : session'[s].user # u) /\ Total(u)' = 0

LEMMA SweptBytes ==
    ASSUME TypeOK, NEW s \in Session
    PROVE  Swept[s].user = session[s].user /\ Swept[s].bytes = session[s].bytes
BY DEF TypeOK, Swept, Row

LEMMA BooksAuthorize ==
    ASSUME TypeOK, NEW u \in User, Authorize
    PROVE  Keeps(u) \/ Opens(u)
<1>1. ASSUME session' = Swept, UNCHANGED <<account, waived>> PROVE Keeps(u)
  BY <1>1, SweptBytes DEF Keeps, Total
<1>2. ASSUME NEW w \in User, NEW n \in Node, NEW i \in Ip, NEW s \in Session,
             AuthorizeAdmitted(w, n, i, s)
      PROVE  Keeps(u) \/ Opens(u)
  <2>1. Started(account[w]).used = account[w].used
    BY DEF TypeOK, Account, Started
  <2>2. Total(u)' = Total(u)
    BY <1>2, <2>1 DEF AuthorizeAdmitted, Total, TypeOK
  <2>3. /\ session'[s].user = w /\ session'[s].bytes = 0 /\ session[s].user = None
        /\ None # u
        /\ \A x \in Session \ {s} :
              session'[x].user = session[x].user /\ session'[x].bytes = session[x].bytes
    <3>1. session[s] = NoRow /\ session' = [Swept EXCEPT ![s] = NewRow(w, i)]
      BY <1>2 DEF AuthorizeAdmitted
    <3>2. session'[s] = NewRow(w, i) /\ \A x \in Session \ {s} : session'[x] = Swept[x]
      BY <3>1, SweptType
    <3>3. NewRow(w, i).user = w /\ NewRow(w, i).bytes = 0 /\ NoRow.user = None /\ None # u
      BY LedgerAssumption DEF NewRow, NoRow
    <3>4. \A x \in Session : Swept[x].user = session[x].user /\ Swept[x].bytes = session[x].bytes
      BY SweptBytes
    <3> QED BY <3>1, <3>2, <3>3, <3>4
  <2> QED BY <2>2, <2>3 DEF Keeps, Opens
<1> QED BY <1>1, <1>2 DEF Authorize, AuthorizeUnrouted, AuthorizeRefused, AuthorizeIpLimited, Deny

LEMMA BooksReport ==
    ASSUME TypeOK, NEW u \in User, Report
    PROVE  Keeps(u) \/ Charges(u)
<1>1. PICK s \in Session, d \in Delta :
         Heartbeat(s, d) \/ \E r \in CloseReason : Close(s, d, r)
  BY DEF Report
<1> DEFINE w == session[s].user
<1>2. d \in Nat /\ session[s] \in Row /\ account \in [User -> Account] /\ waived' = waived
      /\ session \in [Session -> Row] /\ waived \in [User -> Nat]
  BY <1>1, LedgerAssumption DEF TypeOK, Heartbeat, Close
<1>3. /\ Heard(session[s], d).user = w /\ Heard(session[s], d).bytes = session[s].bytes + d
      /\ Heard(session[s], d) \in Row
  <2>1. \A row \in Row : \A b, t :
           /\ [row EXCEPT !.bytes = b, !.seen = t].user = row.user
           /\ [row EXCEPT !.bytes = b, !.seen = t].bytes = b
    BY DEF Row
  <2>2. now \in Nat
    BY LedgerAssumption DEF TypeOK
  <2>3. d \in Nat /\ session[s] \in Row
    BY <1>2
  <2>4. Heard(session[s], d) = [session[s] EXCEPT !.bytes = session[s].bytes + d, !.seen = now]
    BY DEF Heard
  <2> QED BY <2>1, <2>2, <2>3, <2>4, HeardType
<1>4. \A row \in Row, r \in Reason :
         /\ Closed(row, r).user = row.user /\ Closed(row, r).bytes = row.bytes
         /\ [row EXCEPT !.status = "blocked", !.reason = r].user = row.user
         /\ [row EXCEPT !.status = "blocked", !.reason = r].bytes = row.bytes
  BY DEF Closed, Row
<1>5. ASSUME w \in User, account' = [account EXCEPT ![w] = Charged(account[w], d)],
             NEW row, session' = [session EXCEPT ![s] = row],
             row.user = w, row.bytes = session[s].bytes + d
      PROVE  Keeps(u) \/ Charges(u)
  <2>1. /\ session'[s].user = w /\ session'[s].bytes = session[s].bytes + d
        /\ \A x \in Session \ {s} : session'[x] = session[x]
    BY <1>2, <1>5
  <2>2. Charged(account[w], d).used = account[w].used + d
    BY <1>2, <1>5 DEF Charged, Account
  <2>3. account[u].used \in Nat /\ waived[u] \in Nat
    BY <1>2 DEF Account
  <2>4. CASE w = u
    <3>1. Total(u)' = Total(u) + d
      BY <1>2, <1>5, <2>2, <2>3, <2>4 DEF Total
    <3> QED BY <1>2, <2>1, <2>4, <3>1 DEF Charges
  <2>5. CASE w # u
    <3>1. Total(u)' = Total(u)
      BY <1>2, <1>5, <2>5 DEF Total
    <3> QED BY <2>1, <2>5, <3>1 DEF Keeps
  <2> QED BY <2>4, <2>5
<1>6. CASE Heartbeat(s, d)
  <2> DEFINE a == Charged(account[w], d)
             blocked == [Heard(session[s], d) EXCEPT !.status = "blocked", !.reason = Verdict(a, now)]
  <2>1. w \in User /\ account' = [account EXCEPT ![w] = a]
    BY <1>6 DEF Heartbeat, TypeOK
  <2>2. CASE UserAllowed(a, now)
    BY <1>3, <1>5, <1>6, <2>1, <2>2 DEF Heartbeat
  <2>3. CASE ~UserAllowed(a, now)
    <3>1. Verdict(a, now) \in Reason
      BY <2>3, VerdictType DEF UserAllowed, Reason
    <3>2. blocked.user = w /\ blocked.bytes = session[s].bytes + d
      BY <1>3, <1>4, <3>1
    <3>3. session' = [session EXCEPT ![s] = blocked]
      BY <1>6, <2>3 DEF Heartbeat
    <3> HIDE DEF blocked, a
    <3> QED BY <1>5, <2>1, <3>2, <3>3 DEF a
  <2> QED BY <2>2, <2>3
<1>7. ASSUME NEW r \in CloseReason, Close(s, d, r) PROVE Keeps(u) \/ Charges(u)
  <2>0. r \in Reason
    BY DEF Reason
  <2>1. CASE w \in registered
    <3>1. /\ w \in User /\ account' = [account EXCEPT ![w] = Charged(account[w], d)]
          /\ session' = [session EXCEPT ![s] = Closed(Heard(session[s], d), r)]
      BY <1>7, <2>1 DEF Close, TypeOK
    <3> QED BY <1>3, <1>4, <1>5, <2>0, <3>1
  <2>2. CASE w \notin registered
    <3>1. account' = account /\ session' = [session EXCEPT ![s] = Closed(session[s], r)]
      BY <1>7, <2>2 DEF Close
    <3>2. \A x \in Session : session'[x].user = session[x].user /\ session'[x].bytes = session[x].bytes
      BY <1>2, <1>4, <2>0, <3>1
    <3> QED BY <1>2, <3>1, <3>2 DEF Keeps, Total
  <2> QED BY <2>1, <2>2
<1> QED BY <1>1, <1>6, <1>7

LEMMA BooksAdminister ==
    ASSUME TypeOK, RowsHaveUser, NEW u \in User, Books(u), Administer
    PROVE  Keeps(u) \/ Wipes(u)
<1>0. /\ account \in [User -> Account] /\ waived \in [User -> Nat] /\ session \in [Session -> Row]
      /\ account[u].used \in Nat /\ waived[u] \in Nat
  BY DEF TypeOK, Account
<1>1. ASSUME session' = session, Total(u)' = Total(u) PROVE Keeps(u)
  BY <1>1 DEF Keeps
<1>2. ASSUME NEW w \in User, NEW q \in Quota, NEW v \in Validity, NEW m \in IpLimit,
             NEW N \in SUBSET Node, CreateUser(w, q, v, m, N)
      PROVE  Keeps(u)
  <2>1. [Blank EXCEPT !.quota = q, !.validity = v, !.maxIps = m].used = 0
    BY DEF Blank
  <2>2. CASE w = u
    <3>1. Mine(u) = {}
      <4>1. NoRow.user = None /\ None # u /\ u \notin registered
        BY <1>2, <2>2, LedgerAssumption DEF CreateUser, NoRow
      <4>2. ASSUME NEW s \in Session PROVE session[s].user # u
        BY <4>1 DEF RowsHaveUser
      <4> QED BY <4>2 DEF Mine
    <3>2. account[u].used + waived[u] = 0
      BY <3>1, SumEmpty DEF Books, Total
    <3>3. account[u].used = 0 /\ waived[u] = 0
      BY <1>0, <3>2
    <3> QED BY <1>0, <1>1, <1>2, <2>1, <2>2, <3>3 DEF CreateUser, Total
  <2>3. CASE w # u
    BY <1>0, <1>1, <1>2, <2>3 DEF CreateUser, Total
  <2> QED BY <2>2, <2>3
<1>3. ASSUME NEW w \in User, NEW b \in BOOLEAN, NEW q \in Quota, NEW v \in Validity,
             NEW m \in IpLimit, NEW e \in Expiry \cup {account[w].expires},
             UpdateUser(w, b, q, v, m, e)
      PROVE  Keeps(u)
  <2> DEFINE edited == [account[w] EXCEPT !.active = b, !.quota = q, !.validity = v,
                                          !.maxIps = m, !.expires = e]
  <2>1. edited.used = account[w].used
    BY <1>0 DEF Account
  <2>2. account' = [account EXCEPT ![w] = edited] /\ waived' = waived /\ session' = session
    BY <1>3 DEF UpdateUser
  <2> HIDE DEF edited
  <2> QED BY <1>0, <1>1, <2>1, <2>2 DEF Total
<1>4. ASSUME NEW w \in User, ResetUsage(w) PROVE Keeps(u)
  <2> DEFINE a == [account[w] EXCEPT !.used = 0]
  <2>1. a.used = 0 /\ account' = [account EXCEPT ![w] = a]
    BY <1>0, <1>4 DEF ResetUsage, Account
  <2>2. waived' = [waived EXCEPT ![w] = waived[w] + account[w].used] /\ session' = session
    BY <1>4 DEF ResetUsage
  <2> HIDE DEF a
  <2>3. Total(u)' = Total(u)
    BY <1>0, <2>1, <2>2 DEF Total
  <2> QED BY <1>1, <2>2, <2>3
<1>5. ASSUME NEW w \in User, DeleteUser(w) PROVE Keeps(u) \/ Wipes(u)
  <2>1. /\ account' = [account EXCEPT ![w] = Blank] /\ waived' = [waived EXCEPT ![w] = 0]
        /\ \A s \in Session : session'[s] = IF session[s].user = w THEN NoRow ELSE session[s]
        /\ Blank.used = 0 /\ NoRow.user = None /\ None # u
    BY <1>5, LedgerAssumption DEF DeleteUser, RowsWithout, Blank, NoRow
  <2>2. CASE w = u
    BY <1>0, <2>1, <2>2 DEF Wipes, Total
  <2>3. CASE w # u
    BY <1>0, <2>1, <2>3 DEF Keeps, Total
  <2> QED BY <2>2, <2>3
<1>6. ASSUME UNCHANGED <<account, waived, session>> PROVE Keeps(u)
  BY <1>1, <1>6 DEF Total
<1> QED BY <1>2, <1>3, <1>4, <1>5, <1>6 DEF Administer, AttachNode, DetachNode, SetNode

LEMMA BooksBalance ==
    ASSUME TypeOK, TypeOK', NEW u \in User, Books(u),
           Keeps(u) \/ Charges(u) \/ Opens(u) \/ Wipes(u)
    PROVE  Books(u)'
<1>0. /\ \A s \in Session : /\ Bytes[s] = session[s].bytes /\ Bytes[s] \in Nat
                            /\ Bytes'[s] = session'[s].bytes /\ Bytes'[s] \in Nat
      /\ IsFiniteSet(Mine(u)) /\ \A s \in Mine(u) : s \in Session
      /\ Total(u) = SumFunctionOnSet(Bytes, Mine(u))
  BY DEF TypeOK, Row, Bytes, Books, Mine
<1> DEFINE f == Bytes
           h == Bytes'
           S == Mine(u)
           T == Mine(u)'
<1>1. SUFFICES IsFiniteSet(T) /\ Total(u)' = SumFunctionOnSet(h, T)
  BY DEF Books
<1>2. CASE Keeps(u)
  <2>1. T = S /\ \A s \in S : f[s] = h[s]
    BY <1>0, <1>2 DEF Keeps, Mine
  <2>2. Total(u)' = Total(u)
    BY <1>2 DEF Keeps
  <2> HIDE DEF f, h, S, T
  <2> QED BY <1>0, <2>1, <2>2, SumSame DEF f, S
<1>3. CASE Charges(u)
  <2>1. PICK s \in Session, d \in Nat :
           /\ \A x \in Session : session'[x].user = session[x].user
           /\ \A x \in Session \ {s} : session'[x].bytes = session[x].bytes
           /\ session[s].user = u /\ session'[s].bytes = session[s].bytes + d
           /\ Total(u)' = Total(u) + d
    BY <1>3 DEF Charges
  <2>2. /\ T = S /\ s \in S /\ h[s] = f[s] + d /\ \A x \in S \ {s} : h[x] = f[x]
        /\ \A x \in S : f[x] \in Nat
    BY <1>0, <2>1 DEF Mine
  <2>3. IsFiniteSet(S) /\ Total(u) = SumFunctionOnSet(f, S)
    BY <1>0
  <2> HIDE DEF f, h, S, T
  <2>4. SumFunctionOnSet(h, S) = SumFunctionOnSet(f, S) + d
    BY <2>2, <2>3, SumGrows
  <2> QED BY <2>1, <2>2, <2>3, <2>4
<1>4. CASE Opens(u)
  <2>1. PICK s \in Session :
           /\ session[s].user # u /\ session'[s].user = u /\ session'[s].bytes = 0
           /\ \A x \in Session \ {s} :
                 session'[x].user = session[x].user /\ session'[x].bytes = session[x].bytes
           /\ Total(u)' = Total(u)
    BY <1>4 DEF Opens
  <2>2. /\ T = S \cup {s} /\ s \notin S /\ h[s] = 0 /\ \A x \in S : h[x] = f[x]
        /\ \A x \in S : f[x] \in Nat
    BY <1>0, <2>1 DEF Mine
  <2>3. IsFiniteSet(S) /\ Total(u) = SumFunctionOnSet(f, S)
    BY <1>0
  <2> HIDE DEF f, h, S, T
  <2>4. SumFunctionOnSet(h, S \cup {s}) = SumFunctionOnSet(f, S)
    BY <2>2, <2>3, SumOfMore
  <2>5. IsFiniteSet(S \cup {s})
    BY <2>3, FS_AddElement
  <2> QED BY <2>1, <2>2, <2>3, <2>4, <2>5
<1>5. CASE Wipes(u)
  <2>1. T = {} /\ Total(u)' = 0
    BY <1>5 DEF Wipes, Mine
  <2> HIDE DEF h, T
  <2> QED BY <2>1, SumEmpty, FS_EmptySet
<1> QED BY <1>2, <1>3, <1>4, <1>5

\* What is charged to a user is what its sessions carried, however reports, late
\* closes, resets, sweeps and deletions follow one another.
THEOREM UsageIsAccounted == Spec => []UsageAccounted
<1>1. Init => \A u \in User : Books(u)
  <2> SUFFICES ASSUME Init, NEW u \in User PROVE Books(u)
    OBVIOUS
  <2>1. Mine(u) = {} /\ Total(u) = 0
    <3>1. NoRow.user = None /\ None # u /\ Blank.used = 0
      BY LedgerAssumption DEF NoRow, Blank
    <3> QED BY <3>1 DEF Init, Mine, Total
  <2> QED BY <2>1, SumEmpty, FS_EmptySet DEF Books
<1>2. TypeOK /\ TypeOK' /\ RowsHaveUser /\ (\A u \in User : Books(u)) /\ [Next]_vars
         => (\A u \in User : Books(u))'
  <2> SUFFICES ASSUME TypeOK, TypeOK', RowsHaveUser, [Next]_vars, NEW u \in User, Books(u)
               PROVE  Books(u)'
    OBVIOUS
  <2>1. ASSUME UNCHANGED <<account, waived, session>> PROVE Keeps(u)
    BY <2>1 DEF Keeps, Total
  <2>2. Keeps(u) \/ Charges(u) \/ Opens(u) \/ Wipes(u)
    BY <2>1, BooksAuthorize, BooksReport, BooksAdminister DEF Next, Tick, vars
  <2> QED BY <2>2, BooksBalance
<1>3. TypeOK /\ (\A u \in User : Books(u)) => UsageAccounted
  BY DEF TypeOK, Books, Total, Bytes, Mine, UsageAccounted
<1> QED BY <1>1, <1>2, <1>3, TypeCorrect, NoOrphans, PTL DEF Spec
-----------------------------------------------------------------------------
(***************************************************************************)
(* The tables implement SessionRows.  Each handler is one step of it: an   *)
(* admission, a refusal, a report, a deletion, the passing of time, or an  *)
(* edit, which is any step that leaves sessions and time alone.            *)
(***************************************************************************)
View == [s \in Kept |-> Face(session[s], now)]
Limits == [u \in User |-> account[u].maxIps]

LEMMA SameCardinality == \A S : Rows!Cardinality(S) = Cardinality(S)
BY DEF Rows!Cardinality, Cardinality

LEMMA FaceFacts ==
    ASSUME NEW r, NEW t
    PROVE  /\ Face(r, t).user = r.user /\ Face(r, t).ip = r.ip
           /\ Face(r, t).bytes = r.bytes /\ Face(r, t).idle = IdleFor(r, t)
           /\ Face(r, t).state = "open" <=> r.ended = None
           /\ Face(r, t).state = "over" <=> r.ended # None
BY DEF Face

\* Two sessions that agree on what SessionRows knows of them look the same.
LEMMA FaceIs ==
    ASSUME NEW r, NEW t, NEW u, NEW i, NEW n, NEW b,
           r.user = u, r.ip = i, IdleFor(r, t) = n, r.bytes = b
    PROVE  /\ r.ended = None => 
                Face(r, t) = [user |-> u, ip |-> i, state |-> "open", idle |-> n, bytes |-> b]
           /\ r.ended # None => 
                Face(r, t) = [user |-> u, ip |-> i, state |-> "over", idle |-> n, bytes |-> b]
BY DEF Face

LEMMA OverFace ==
    ASSUME NEW u, NEW i, NEW state, NEW n, NEW b
    PROVE  Rows!Over([user |-> u, ip |-> i, state |-> state, idle |-> n, bytes |-> b])
              = [user |-> u, ip |-> i, state |-> "over", idle |-> 0, bytes |-> b]
<1> DEFINE r == [user |-> u, ip |-> i, state |-> state, idle |-> n, bytes |-> b]
           q == [r EXCEPT !.state = "over"]
<1>1. q = [user |-> u, ip |-> i, state |-> "over", idle |-> n, bytes |-> b]
  OBVIOUS
<1>2. Rows!Over(r) = [q EXCEPT !.idle = 0]
  BY Zenon DEF Rows!Over
<1> HIDE DEF q
<1>3. [q EXCEPT !.idle = 0] = [user |-> u, ip |-> i, state |-> "over", idle |-> 0, bytes |-> b]
  BY <1>1
<1> QED BY <1>2, <1>3

LEMMA ReportedFace ==
    ASSUME NEW u, NEW i, NEW state, NEW n, NEW b, NEW d, NEW to
    PROVE  Rows!Reported([user |-> u, ip |-> i, state |-> state, idle |-> n, bytes |-> b], d, to)
              = [user |-> u, ip |-> i, state |-> to, idle |-> 0, bytes |-> b + d]
<1> DEFINE r == [user |-> u, ip |-> i, state |-> state, idle |-> n, bytes |-> b]
           p == [r EXCEPT !.bytes = b + d]
           q == [p EXCEPT !.idle = 0]
<1>1. p = [user |-> u, ip |-> i, state |-> state, idle |-> n, bytes |-> b + d]
  OBVIOUS
<1>2. Rows!Reported(r, d, to) = [q EXCEPT !.state = to]
  <2>1. r.bytes = b
    OBVIOUS
  <2>2. Rows!Reported(r, d, to) = [r EXCEPT !.bytes = r.bytes + d, !.idle = 0, !.state = to]
    BY Zenon DEF Rows!Reported
  <2> HIDE DEF r
  <2> QED BY <2>1, <2>2, Zenon
<1> HIDE DEF p
<1>3. q = [user |-> u, ip |-> i, state |-> state, idle |-> 0, bytes |-> b + d]
  BY <1>1
<1> HIDE DEF q
<1>4. [q EXCEPT !.state = to] = [user |-> u, ip |-> i, state |-> to, idle |-> 0, bytes |-> b + d]
  BY <1>3
<1> QED BY <1>2, <1>4

LEMMA SilentFaces ==
    ASSUME TypeOK, OpenHeard, NEW s \in Kept
    PROVE  Rows!Silent(View[s]) <=> IsStale(session[s])
<1>0. View[s] = Face(session[s], now) /\ s \in Session /\ session[s].status # "none"
  BY DEF View, Kept
<1>1. CASE session[s].ended # None
  BY <1>0, <1>1, FaceFacts DEF Rows!Silent, Rows!IsOpen, IsStale, IsOpen
<1>2. CASE session[s].ended = None
  <2>1. IsOpen(session[s])
    BY <1>0, <1>2 DEF IsOpen
  <2>2. session[s].seen \in 0..now /\ now \in Nat /\ StaleAfter \in Nat
    BY <1>0, <2>1, LedgerAssumption DEF OpenHeard, TypeOK
  <2>3. IdleFor(session[s], now) > StaleAfter <=> session[s].seen + StaleAfter < now
    BY <1>2, <2>2 DEF IdleFor
  <2> QED BY <1>0, <1>2, <2>1, <2>3, FaceFacts DEF Rows!Silent, Rows!IsOpen, IsStale
<1> QED BY <1>1, <1>2

\* The sweep of the tables is the sweep of SessionRows.
LEMMA SweptFaces ==
    ASSUME TypeOK, OpenHeard
    PROVE  Rows!Swept = [s \in Kept |-> Face(Swept[s], now)]
<1>1. ASSUME NEW s \in Kept
      PROVE  (IF Rows!Silent(View[s]) THEN Rows!Over(View[s]) ELSE View[s]) = Face(Swept[s], now)
  <2>0. View[s] = Face(session[s], now) /\ s \in Session /\ session[s] \in Row
    BY DEF View, Kept, TypeOK
  <2>1. CASE ~IsStale(session[s])
    BY <2>0, <2>1, SilentFaces DEF Swept
  <2>2. CASE IsStale(session[s])
    <3>1. now # None
      BY NoneAssumption, LedgerAssumption DEF TypeOK
    <3>2. /\ Swept[s].user = session[s].user /\ Swept[s].ip = session[s].ip
          /\ Swept[s].bytes = session[s].bytes /\ Swept[s].ended = now
      BY <2>0, <2>2 DEF Swept, Row
    <3>3. IdleFor(Swept[s], now) = 0
      BY <3>1, <3>2 DEF IdleFor
    <3>4. Face(Swept[s], now) = [user |-> session[s].user, ip |-> session[s].ip, state |-> "over",
                                 idle |-> 0, bytes |-> session[s].bytes]
      BY <3>1, <3>2, <3>3, FaceIs
    <3>5. Rows!Over(View[s]) = [user |-> session[s].user, ip |-> session[s].ip, state |-> "over",
                                idle |-> 0, bytes |-> session[s].bytes]
      BY <2>0, OverFace DEF Face
    <3> QED BY <2>2, <3>4, <3>5, SilentFaces
  <2> QED BY <2>1, <2>2
<1>2. Rows!Swept = [s \in Kept |-> IF Rows!Silent(View[s]) THEN Rows!Over(View[s]) ELSE View[s]]
  BY DEF Rows!Swept, View
<1> QED BY <1>1, <1>2

\* What a step does to the sessions as SessionRows sees them.
LEMMA SweepRefuses ==
    ASSUME TypeOK, OpenHeard, session' = Swept, UNCHANGED <<now, account>>
    PROVE  Rows!Refuse
<1>1. Kept' = Kept
  BY SweptRow DEF Kept
<1>2. View' = [s \in Kept |-> Face(Swept[s], now)]
  BY <1>1 DEF View
<1> QED BY <1>2, SweptFaces DEF Rows!Refuse, View

LEMMA SweptLive ==
    ASSUME TypeOK, OpenHeard, NEW u \in User
    PROVE  /\ Rows!Ips(u) = LiveIps(Swept, u)
           /\ IsFiniteSet(LiveIps(Swept, u)) /\ Cardinality(LiveIps(Swept, u)) \in Nat
<1>1. Swept \in [Session -> Row]
  BY SweptType
<1>2. {x \in Kept : Rows!IsOpen(Rows!Swept[x]) /\ Rows!Swept[x].user = u} = OpenOf(Swept, u)
  <2>1. ASSUME NEW x \in Kept
        PROVE  /\ Rows!IsOpen(Rows!Swept[x]) <=> Swept[x].ended = None
               /\ Rows!Swept[x].user = Swept[x].user
    BY SweptFaces, FaceFacts DEF Rows!IsOpen
  <2>2. \A x \in Session : x \in Kept <=> Swept[x].status # "none"
    BY SweptRow DEF Kept
  <2> QED BY <2>1, <2>2 DEF OpenOf, IsOpen, Kept
<1>3. \A x \in OpenOf(Swept, u) : Rows!Swept[x].ip = Swept[x].ip
  <2>1. \A x \in Kept : Rows!Swept[x].ip = Swept[x].ip
    BY SweptFaces, FaceFacts
  <2> QED BY <1>2, <2>1
<1>4. Rows!Ips(u) = {Rows!Swept[x].ip : x \in OpenOf(Swept, u)}
  BY <1>2 DEF Rows!Ips, View
<1>5. LiveIps(Swept, u) = {Swept[x].ip : x \in OpenOf(Swept, u)}
  BY DEF LiveIps
<1>6. IsFiniteSet(LiveIps(Swept, u))
  <2>1. LiveIps(Swept, u) \subseteq Ip \cup {None}
    BY <1>1 DEF LiveIps, OpenOf, Row
  <2>2. IsFiniteSet(Ip \cup {None})
    BY LedgerAssumption, FS_AddElement
  <2> QED BY <2>1, <2>2, FS_Subset
<1> QED BY <1>3, <1>4, <1>5, <1>6, FS_CardinalityType

LEMMA AdmissionAdmits ==
    ASSUME TypeOK, OpenHeard, NEW u \in User, NEW n \in Node, NEW i \in Ip, NEW s \in Session,
           AuthorizeAdmitted(u, n, i, s)
    PROVE  Rows!Admit(s, u, i)
<1>0. /\ now' = now /\ session[s] = NoRow /\ ~OverIpLimit(u, i)
      /\ session' = [Swept EXCEPT ![s] = NewRow(u, i)]
      /\ account' = [account EXCEPT ![u] = Started(account[u])]
  BY DEF AuthorizeAdmitted
<1>9. now \in Nat /\ NoRow.status = "none"
  BY LedgerAssumption DEF NoRow, TypeOK
<1>1. s \notin Kept
  BY <1>0, <1>9 DEF Kept
<1>2. i \in Rows!Ips(u) \/ Rows!Cardinality(Rows!Ips(u)) < account[u].maxIps
  <2>1. account[u].maxIps \in Nat
    BY DEF TypeOK, Account
  <2> QED BY <1>0, <2>1, SweptLive, SameCardinality DEF OverIpLimit
<1>3. Limits' = Limits
  <2>1. \A w \in User : account[w] \in Account /\ account'[w] = IF w = u THEN Started(account[u]) ELSE account[w]
    BY <1>0 DEF TypeOK
  <2>2. Started(account[u]).maxIps = account[u].maxIps
    BY <2>1 DEF Started, Account
  <2> QED BY <2>1, <2>2 DEF Limits
<1>4. \A x \in Session : session'[x] = IF x = s THEN NewRow(u, i) ELSE Swept[x]
  BY <1>0 DEF Swept
<1>5. Kept' = Kept \cup {s}
  <2>1. NewRow(u, i).status # "none"
    BY DEF NewRow
  <2>2. \A x \in Session : Swept[x].status # "none" <=> session[x].status # "none"
    BY SweptRow
  <2> QED BY <1>4, <2>1, <2>2 DEF Kept
<1>6. Face(NewRow(u, i), now) = [user |-> u, ip |-> i, state |-> "open", idle |-> 0, bytes |-> 0]
  <2>1. /\ NewRow(u, i).user = u /\ NewRow(u, i).ip = i /\ NewRow(u, i).bytes = 0
        /\ NewRow(u, i).ended = None /\ NewRow(u, i).seen = now
    BY DEF NewRow
  <2>2. IdleFor(NewRow(u, i), now) = 0
    BY <1>9, <2>1, LedgerAssumption DEF IdleFor
  <2> QED BY <2>1, <2>2, FaceIs
<1>7. View' = [x \in Kept \cup {s} |->
                 IF x = s THEN [user |-> u, ip |-> i, state |-> "open", idle |-> 0, bytes |-> 0]
                 ELSE Rows!Swept[x]]
  <2>1. \A x \in Kept : Rows!Swept[x] = Face(Swept[x], now)
    BY SweptFaces
  <2>2. \A x \in Kept \cup {s} :
           Face(session'[x], now) =
              IF x = s THEN [user |-> u, ip |-> i, state |-> "open", idle |-> 0, bytes |-> 0]
              ELSE Rows!Swept[x]
    BY <1>1, <1>4, <1>6, <2>1 DEF Kept
  <2>3. View' = [x \in Kept \cup {s} |-> Face(session'[x], now)]
    BY <1>0, <1>5 DEF View
  <2> QED BY <2>2, <2>3
<1>8. DOMAIN View = Kept /\ Limits[u] = account[u].maxIps
  BY DEF View, Limits
<1> QED BY <1>1, <1>2, <1>3, <1>7, <1>8 DEF Rows!Admit, View, Limits

\* A call that changes one open session only, and charges it d bytes.
LEMMA ReportReports ==
    ASSUME TypeOK, OpenHeard, NEW s \in Session, NEW d \in Nat, NEW to, NEW r,
           IsOpen(session[s]), now' = now, Limits' = Limits,
           session' = [session EXCEPT ![s] = r],
           r.user = session[s].user, r.ip = session[s].ip, r.bytes = session[s].bytes + d,
           r.status # "none",
           \/ to = "open" /\ r.ended = None /\ r.seen = now
           \/ to = "over" /\ r.ended # None
    PROVE  Rows!Report(s, d, to)
<1>0. /\ now \in Nat /\ session[s].status # "none" /\ session[s].ended = None
      /\ \A x \in Session : session'[x] = IF x = s THEN r ELSE session[x]
  BY LedgerAssumption DEF TypeOK, IsOpen
<1>1. Kept' = Kept /\ s \in Kept
  BY <1>0 DEF Kept
<1>2. View[s] = Face(session[s], now) /\ DOMAIN View = Kept /\ \A x \in Kept : x \in Session
  BY <1>1 DEF View, Kept
<1>3. Rows!IsOpen(View[s])
  BY <1>0, <1>2, FaceFacts DEF Rows!IsOpen
<1>4. Face(r, now) = Rows!Reported(View[s], d, to)
  <2>1. IdleFor(r, now) = 0
    BY <1>0, LedgerAssumption DEF IdleFor
  <2>2. Face(r, now) = [user |-> session[s].user, ip |-> session[s].ip, state |-> to,
                        idle |-> 0, bytes |-> session[s].bytes + d]
    BY <2>1, FaceIs
  <2>3. View[s] = [user |-> session[s].user, ip |-> session[s].ip, state |-> "open",
                   idle |-> IdleFor(session[s], now), bytes |-> session[s].bytes]
    BY <1>0, <1>2, FaceIs
  <2> QED BY <2>2, <2>3, ReportedFace
<1>5. View' = [View EXCEPT ![s] = Rows!Reported(View[s], d, to)]
  <2>1. View' = [x \in Kept |-> Face(session'[x], now)]
    BY <1>1 DEF View
  <2>2. \A x \in Kept : Face(session'[x], now) = IF x = s THEN Rows!Reported(View[s], d, to) ELSE View[x]
    BY <1>0, <1>2, <1>4 DEF View
  <2>3. View = [x \in Kept |-> View[x]]
    BY DEF View
  <2> HIDE DEF View
  <2> QED BY <1>1, <2>1, <2>2, <2>3
<1> QED BY <1>1, <1>2, <1>3, <1>5 DEF Rows!Report, View, Limits

LEMMA LimitsKept ==
    ASSUME TypeOK, NEW u, NEW a, account' = [account EXCEPT ![u] = a],
           u \in User => a.maxIps = account[u].maxIps
    PROVE  Limits' = Limits
<1>1. \A w \in User : account'[w] = IF w = u THEN a ELSE account[w]
  BY DEF TypeOK
<1> QED BY <1>1 DEF Limits

LEMMA HeartbeatReports ==
    ASSUME TypeOK, OpenHeard, NEW s \in Session, NEW d \in Delta, Heartbeat(s, d)
    PROVE  Rows!Report(s, d, "open")
<1> DEFINE a == Charged(account[session[s].user], d)
           h == Heard(session[s], d)
           r == IF UserAllowed(a, now) THEN h
                ELSE [h EXCEPT !.status = "blocked", !.reason = Verdict(a, now)]
<1>1. /\ IsOpen(session[s]) /\ now' = now /\ session' = [session EXCEPT ![s] = r]
      /\ account' = [account EXCEPT ![session[s].user] = a] /\ session[s].user \in User
  BY DEF Heartbeat, TypeOK
<1>2. d \in Nat /\ session[s] \in Row /\ account[session[s].user] \in Account
  BY <1>1, LedgerAssumption DEF TypeOK
<1>3. a.maxIps = account[session[s].user].maxIps
  BY <1>2 DEF Charged, Account
<1>4. Limits' = Limits
  <2> HIDE DEF a
  <2> QED BY <1>1, <1>3, LimitsKept
<1>5. /\ h.user = session[s].user /\ h.ip = session[s].ip /\ h.bytes = session[s].bytes + d
      /\ h.status = session[s].status /\ h.ended = session[s].ended /\ h.seen = now
  BY <1>2 DEF Heard, Row
<1>8. h \in Row
  BY <1>2, LedgerAssumption, HeardType DEF TypeOK
<1>6. /\ r.user = h.user /\ r.ip = h.ip /\ r.bytes = h.bytes
      /\ r.status \in {h.status, "blocked"} /\ r.ended = h.ended /\ r.seen = h.seen
  <2> HIDE DEF h, a
  <2> QED BY <1>8 DEF Row
<1>7. session[s].status # "none" /\ session[s].ended = None
  BY <1>1 DEF IsOpen
<1> HIDE DEF r, h, a
<1> QED BY <1>1, <1>2, <1>4, <1>5, <1>6, <1>7, ReportReports

LEMMA CloseReports ==
    ASSUME TypeOK, OpenHeard, NEW s \in Session, NEW d \in Delta, NEW z \in CloseReason,
           Close(s, d, z)
    PROVE  \E n \in Delta \cup {0} : Rows!Report(s, n, "over")
<1>0. /\ IsOpen(session[s]) /\ now' = now /\ d \in Nat /\ session[s] \in Row
      /\ now # None /\ now \in Nat
  BY NoneAssumption, LedgerAssumption DEF Close, TypeOK
<1>1. ASSUME NEW h \in Row, NEW n \in Delta \cup {0}, h.user = session[s].user, h.ip = session[s].ip,
             h.bytes = session[s].bytes + n, Limits' = Limits,
             session' = [session EXCEPT ![s] = Closed(h, z)]
      PROVE  Rows!Report(s, n, "over")
  <2>1. /\ Closed(h, z).user = h.user /\ Closed(h, z).ip = h.ip /\ Closed(h, z).bytes = h.bytes
        /\ Closed(h, z).status = "closed" /\ Closed(h, z).ended = now
    BY DEF Closed, Row
  <2>2. n \in Nat
    BY LedgerAssumption
  <2> QED BY <1>0, <1>1, <2>1, <2>2, ReportReports
<1>2. CASE session[s].user \in registered
  <2> DEFINE u == session[s].user
             h == Heard(session[s], d)
             a == Charged(account[u], d)
  <2>1. /\ session' = [session EXCEPT ![s] = Closed(h, z)]
        /\ account' = [account EXCEPT ![u] = a] /\ u \in User
    BY <1>2 DEF Close, TypeOK
  <2>2. h \in Row /\ h.user = session[s].user /\ h.ip = session[s].ip /\ h.bytes = session[s].bytes + d
    BY <1>0, HeardType DEF Heard, Row
  <2>3. a.maxIps = account[u].maxIps
    BY <2>1 DEF TypeOK, Charged, Account
  <2>4. Limits' = Limits
    <3> HIDE DEF a
    <3> QED BY <2>1, <2>3, LimitsKept
  <2> HIDE DEF h
  <2> QED BY <1>1, <2>1, <2>2, <2>4
<1>3. CASE session[s].user \notin registered
  <2>1. session' = [session EXCEPT ![s] = Closed(session[s], z)] /\ Limits' = Limits
    BY <1>3 DEF Close, TypeOK, Limits
  <2>2. session[s].bytes = session[s].bytes + 0
    BY <1>0 DEF Row
  <2> QED BY <1>0, <1>1, <2>1, <2>2
<1> QED BY <1>2, <1>3

LEMMA DeletionDeletes ==
    ASSUME TypeOK, TypeOK', NEW u \in User, DeleteUser(u)
    PROVE  Rows!Delete(u)
<1>0. now' = now /\ \A s \in Session : session'[s] = IF session[s].user = u THEN NoRow ELSE session[s]
  BY DEF DeleteUser, RowsWithout
<1>1. Kept' = {s \in Kept : session[s].user # u}
  <2>1. NoRow.status = "none"
    BY DEF NoRow
  <2> QED BY <1>0, <2>1 DEF Kept
<1>2. {x \in DOMAIN View : View[x].user # u} = Kept'
  BY <1>1, FaceFacts DEF View
<1>3. View' = [s \in Kept' |-> View[s]]
  BY <1>0, <1>1 DEF View, Kept
<1>4. Limits' \in [User -> Nat]
  BY DEF Limits, TypeOK, Account
<1> QED BY <1>2, <1>3, <1>4 DEF Rows!Delete, View, Limits

LEMMA TicksPass ==
    ASSUME TypeOK, OpenHeard, Tick
    PROVE  Rows!Pass
<1>0. now' = now + 1 /\ UNCHANGED <<session, account>> /\ now \in Nat /\ StaleAfter \in Nat
  BY LedgerAssumption DEF Tick, TypeOK
<1>1. ASSUME NEW s \in Kept PROVE Face(session[s], now + 1) = Rows!Older(View[s])
  <2>0. View[s] = Face(session[s], now) /\ s \in Session /\ session[s].status # "none"
    BY DEF View, Kept
  <2>1. CASE session[s].ended # None
    <3>1. IdleFor(session[s], now) = IdleFor(session[s], now + 1)
      BY <2>1 DEF IdleFor
    <3>2. Face(session[s], now) = Face(session[s], now + 1)
      BY <3>1 DEF Face
    <3>3. ~Rows!IsOpen(View[s])
      BY <2>0, <2>1, FaceFacts DEF Rows!IsOpen
    <3> QED BY <2>0, <3>2, <3>3 DEF Rows!Older
  <2>2. CASE session[s].ended = None
    <3>1. session[s].seen \in 0..now
      BY <2>0, <2>2 DEF OpenHeard, IsOpen
    <3>2. IdleFor(session[s], now + 1) =
             IF IdleFor(session[s], now) <= StaleAfter THEN IdleFor(session[s], now) + 1
             ELSE IdleFor(session[s], now)
      BY <1>0, <2>2, <3>1 DEF IdleFor
    <3>3. /\ View[s].idle = IdleFor(session[s], now) /\ Rows!IsOpen(View[s])
          /\ View[s] = [user |-> session[s].user, ip |-> session[s].ip, state |-> "open",
                        idle |-> IdleFor(session[s], now), bytes |-> session[s].bytes]
          /\ Face(session[s], now + 1) =
                [user |-> session[s].user, ip |-> session[s].ip, state |-> "open",
                 idle |-> IdleFor(session[s], now + 1), bytes |-> session[s].bytes]
      BY <2>0, <2>2, FaceFacts, FaceIs DEF Rows!IsOpen
    <3>4. [View[s] EXCEPT !.idle = View[s].idle + 1] =
             [user |-> session[s].user, ip |-> session[s].ip, state |-> "open",
              idle |-> IdleFor(session[s], now) + 1, bytes |-> session[s].bytes]
      BY <3>3
    <3>5. CASE IdleFor(session[s], now) <= StaleAfter
      BY <3>2, <3>3, <3>4, <3>5 DEF Rows!Older
    <3>6. CASE ~(IdleFor(session[s], now) <= StaleAfter)
      BY <3>2, <3>3, <3>6 DEF Rows!Older
    <3> QED BY <3>5, <3>6
  <2> QED BY <2>1, <2>2
<1>2. View' = [s \in Kept |-> Face(session[s], now + 1)] /\ DOMAIN View = Kept /\ Limits' = Limits
  BY <1>0 DEF View, Kept, Limits
<1>3. View' = [s \in DOMAIN View |-> Rows!Older(View[s])]
  BY <1>1, <1>2
<1> QED BY <1>2, <1>3 DEF Rows!Pass, View, Limits

LEMMA OtherStepsEdit ==
    ASSUME TypeOK', UNCHANGED <<session, now>>
    PROVE  Rows!Edit
<1>1. Limits' \in [User -> Nat]
  BY DEF Limits, TypeOK, Account
<1>2. View' = View
  BY DEF View, Kept
<1> QED BY <1>1, <1>2 DEF Rows!Edit, View, Limits

LEMMA RowsStep == TypeOK /\ TypeOK' /\ OpenHeard /\ [Next]_vars => Rows!Next
<1> SUFFICES ASSUME TypeOK, TypeOK', OpenHeard, [Next]_vars PROVE Rows!Next
  OBVIOUS
<1>1. CASE Authorize
  <2>1. PICK u \in User, n \in Node :
           \/ AuthorizeUnrouted(u, n)
           \/ AuthorizeRefused(u, n)
           \/ \E i \in Ip : AuthorizeIpLimited(u, n, i)
           \/ \E i \in Ip, s \in Session : AuthorizeAdmitted(u, n, i, s)
    BY <1>1 DEF Authorize
  <2>2. ASSUME NEW reason, Deny(u, reason) PROVE Rows!Next
    <3>1. session' = Swept /\ UNCHANGED <<now, account>>
      BY <2>2 DEF Deny
    <3> QED BY <3>1, SweepRefuses DEF Rows!Next
  <2>3. ASSUME NEW i \in Ip, NEW s \in Session, AuthorizeAdmitted(u, n, i, s) PROVE Rows!Next
    BY <2>3, AdmissionAdmits DEF Rows!Next
  <2> QED BY <2>1, <2>2, <2>3 DEF AuthorizeUnrouted, AuthorizeRefused, AuthorizeIpLimited
<1>2. CASE Report
  <2>1. PICK s \in Session, d \in Delta : Heartbeat(s, d) \/ \E r \in CloseReason : Close(s, d, r)
    BY <1>2 DEF Report
  <2>2. CASE Heartbeat(s, d)
    BY <2>2, HeartbeatReports DEF Rows!Next
  <2>3. ASSUME NEW r \in CloseReason, Close(s, d, r) PROVE Rows!Next
    <3>1. PICK n \in Delta \cup {0} : Rows!Report(s, n, "over")
      BY <2>3, CloseReports
    <3> QED BY <3>1 DEF Rows!Next
  <2> QED BY <2>1, <2>2, <2>3
<1>3. ASSUME NEW u \in User, DeleteUser(u) PROVE Rows!Next
  BY <1>3, DeletionDeletes DEF Rows!Next
<1>4. CASE Tick
  BY <1>4, TicksPass DEF Rows!Next
<1>5. ASSUME UNCHANGED <<session, now>> PROVE Rows!Next
  BY <1>5, OtherStepsEdit DEF Rows!Next
<1>6. CASE Administer
  BY <1>3, <1>5, <1>6 DEF Administer, CreateUser, UpdateUser, ResetUsage, AttachNode,
     DetachNode, SetNode
<1>7. CASE UNCHANGED vars
  BY <1>5, <1>7 DEF vars
<1> QED BY <1>1, <1>2, <1>4, <1>6, <1>7 DEF Next

\* The handlers, in whatever order calls reach them, keep the promise of
\* SessionRows: a session ends when it is closed, when its user is deleted, or by
\* the first call to authorize after it has been silent for too long.
THEOREM ImplementsRows == Spec => RowsPromised
<1>1. Init => Rows!Init
  <2> SUFFICES ASSUME Init PROVE Rows!Init
    OBVIOUS
  <2>1. Kept = {}
    BY DEF Init, Kept, NoRow
  <2>2. Limits \in [User -> Nat]
    BY DEF Init, Limits, Blank
  <2> QED BY <2>1, <2>2 DEF Rows!Init, Limits
<1>2. TypeOK /\ TypeOK' /\ OpenHeard /\ [Next]_vars => [Rows!Next]_Rows!vars
  BY RowsStep
<1> QED BY <1>1, <1>2, TypeCorrect, OpenRowsHeard, PTL DEF Spec, RowsPromised, Rows!Spec
=============================================================================
