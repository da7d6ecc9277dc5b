------------------------- MODULE TransactionsProofs -------------------------
(***************************************************************************)
(* Proofs about Transactions, for every number of requests, connection     *)
(* sessions and administrators' sessions and every reported traffic.       *)
(***************************************************************************)
EXTENDS Transactions, FiniteSetTheorems, TLAPS

Kind == Gateway \cup Administrative \cup {"none"}
Plans == [Statement -> SUBSET Row]
Sight == [used : [Column -> Nat], version : Nat, reported : [Column -> Nat]]

\* Three sets of rows are the statements of a request.
LEMMA ThreeStatements ==
    ASSUME NEW A \in SUBSET Row, NEW B \in SUBSET Row, NEW C \in SUBSET Row
    PROVE  /\ <<A, B, C>> \in Plans
           /\ <<A, B, C>>[1] = A /\ <<A, B, C>>[2] = B /\ <<A, B, C>>[3] = C
<1>1. ASSUME NEW i \in Statement PROVE <<A, B, C>>[i] \in SUBSET Row
  <2>1. i = 1 \/ i = 2 \/ i = 3
    BY DEF Statement
  <2> QED BY <2>1
<1>2. <<A, B, C>> = [i \in Statement |-> <<A, B, C>>[i]]
  BY DEF Statement
<1> QED BY <1>1, <1>2 DEF Plans

LEMMA IdleType ==
    /\ Idle \in Request
    /\ Idle.kind = "none" /\ Idle.stage = "idle" /\ Idle.who = None
    /\ Idle.todo = NoRows /\ NoRows \in Plans
    /\ \A i \in Statement : NoRows[i] = {}
    /\ Idle.seen \in Sight
<1>1. NoRows \in Plans /\ NoRows[1] = {} /\ NoRows[2] = {} /\ NoRows[3] = {}
  BY ThreeStatements DEF NoRows
<1>2. \A i \in Statement : NoRows[i] = {}
  BY <1>1 DEF Statement
<1>3. Idle.seen \in Sight
  BY DEF Idle, Sight
<1>4. /\ Idle.kind = "none" /\ Idle.stage = "idle" /\ Idle.who = None
      /\ Idle.todo = NoRows
  BY DEF Idle
<1>5. Idle \in Request
  <2>1. [used |-> [k \in Column |-> 0], version |-> 0, reported |-> [k \in Column |-> 0]] \in Sight
    BY DEF Sight
  <2> QED BY <1>1, <2>1 DEF Idle, Request, Plans, Sight
<1> QED BY <1>1, <1>2, <1>3, <1>4, <1>5

LEMMA RequestFields ==
    ASSUME NEW q \in Request
    PROVE  /\ q.kind \in Kind /\ q.stage \in {"idle", "auth", "run", "returned"}
           /\ q.who \in Conn \cup Login \cup {None} /\ q.todo \in Plans
           /\ q.seen \in Sight
BY DEF Request, Kind, Plans, Sight

LEMMA RequestChange ==
    ASSUME NEW q \in Request, NEW k \in Kind,
           NEW g \in {"idle", "auth", "run", "returned"},
           NEW w \in Conn \cup Login \cup {None}, NEW s \in Plans, NEW v \in Sight
    PROVE  /\ [q EXCEPT !.kind = k, !.stage = g, !.who = w, !.todo = s] \in Request
           /\ [q EXCEPT !.stage = g, !.who = w, !.todo = s, !.seen = v] \in Request
           /\ [q EXCEPT !.stage = g, !.todo = s] \in Request
           /\ [q EXCEPT !.todo = s] \in Request
           /\ \A u \in [Column -> Nat] : [q EXCEPT !.todo = s, !.seen.used = u] \in Request
<1>1. /\ [q EXCEPT !.kind = k, !.stage = g, !.who = w, !.todo = s] \in Request
      /\ [q EXCEPT !.stage = g, !.who = w, !.todo = s, !.seen = v] \in Request
      /\ [q EXCEPT !.stage = g, !.todo = s] \in Request
      /\ [q EXCEPT !.todo = s] \in Request
  BY DEF Request, Kind, Plans, Sight
<1>2. ASSUME NEW u \in [Column -> Nat] PROVE [q EXCEPT !.todo = s, !.seen.used = u] \in Request
  <2>1. [q.seen EXCEPT !.used = u] \in Sight
    BY DEF Request, Sight
  <2> QED BY <2>1 DEF Request, Plans, Sight
<1> QED BY <1>1, <1>2
-----------------------------------------------------------------------------
(***************************************************************************)
(* What the steps of a request t do to the tables of requests and locks.   *)
(* The other requests are left as they are, but for the locks they gain or *)
(* lose to nobody.                                                         *)
(***************************************************************************)
Stays(s) ==
    /\ tx'[s] = tx[s]
    /\ \A r \in Row : lock'[r] = s <=> lock[r] = s

OthersStay(t) == \A s \in Tx \ {t} : Stays(s)

LEMMA EndEffect ==
    ASSUME TypeOK, NEW t \in Tx, End(t)
    PROVE  /\ tx' \in [Tx -> Request] /\ lock' \in [Row -> Tx \cup {None}]
           /\ loop' \in Tx \cup {None} /\ loop' = IF loop = t THEN None ELSE loop
           /\ tx'[t] = Idle
           /\ \A r \in Row : lock'[r] = IF lock[r] = t THEN None ELSE lock[r]
           /\ \A r \in Row : lock'[r] # t
           /\ OthersStay(t)
           /\ counted' = IF lock["user"] = t THEN {} ELSE counted
<1>1. t # None
  BY NoneAssumption
<1>2. \A r \in Row : lock'[r] = IF lock[r] = t THEN None ELSE lock[r]
  BY DEF End, Released
<1>3. tx' \in [Tx -> Request] /\ tx'[t] = Idle /\ \A s \in Tx \ {t} : tx'[s] = tx[s]
  BY IdleType DEF End, TypeOK
<1>4. lock' \in [Row -> Tx \cup {None}]
  BY DEF End, Released, TypeOK
<1>5. \A s \in Tx \ {t} : s # None
  BY NoneAssumption
<1>6. counted' = IF lock["user"] = t THEN {} ELSE counted
  BY DEF End, Forget
<1> QED BY <1>1, <1>2, <1>3, <1>4, <1>5, <1>6 DEF End, OthersStay, Stays, TypeOK

LEMMA StartEffect ==
    ASSUME TypeOK, NEW t \in Tx, NEW k \in Kind, NEW w \in Conn \cup Login \cup {None},
           NEW g \in {"auth", "run"}, NEW s \in Plans, Start(t, k, w, g, s)
    PROVE  /\ tx' \in [Tx -> Request] /\ UNCHANGED <<rows, lock, loop, counted>> /\ loop = None
           /\ asked' \in 0..MaxRequests
           /\ tx[t].stage = "idle"
           /\ tx'[t].kind = k /\ tx'[t].who = w /\ tx'[t].stage = g /\ tx'[t].todo = s
           /\ OthersStay(t)
<1> DEFINE q == [Idle EXCEPT !.kind = k, !.stage = g, !.who = w, !.todo = s]
<1>1. q \in Request
  BY IdleType, RequestChange
<1>2. q.kind = k /\ q.who = w /\ q.stage = g /\ q.todo = s
  BY DEF Idle
<1>3. tx' = [tx EXCEPT ![t] = q]
  BY DEF Start
<1> HIDE DEF q
<1>4. tx' \in [Tx -> Request] /\ tx'[t] = q /\ \A x \in Tx \ {t} : tx'[x] = tx[x]
  BY <1>1, <1>3 DEF TypeOK
<1>5. asked' \in 0..MaxRequests
  BY BoundAssumption DEF Start, TypeOK
<1>6. loop = None /\ tx[t].stage = "idle" /\ UNCHANGED <<rows, lock, loop, counted>>
  BY DEF Start, Scheduled
<1> QED BY <1>2, <1>4, <1>5, <1>6 DEF OthersStay, Stays

LEMMA PlanType ==
    ASSUME TypeOK, NEW t \in Tx, tx[t].who \in Login
    PROVE  Plan(t) \in Plans
<1> DEFINE a == tx[t].who
           expired == {b \in Login : login[b] = "expired"}
<1>1. {a} \in SUBSET Row /\ {"user"} \in SUBSET Row /\ {} \in SUBSET Row
      /\ {c \in Conn : Exists(c)} \in SUBSET Row
      /\ expired \in SUBSET Row /\ ({a} \ expired) \in SUBSET Row
      /\ ({a} \cap {b \in Login : Exists(b)}) \in SUBSET Row
  BY DEF Row
<1>2. CASE tx[t].kind = "rotate"
  BY <1>1, <1>2, ThreeStatements DEF Plan
<1>3. CASE tx[t].kind = "reset"
  BY <1>1, <1>3, ThreeStatements DEF Plan
<1>4. CASE tx[t].kind = "delete"
  BY <1>1, <1>4, ThreeStatements DEF Plan
<1>5. CASE tx[t].kind = "logout"
  BY <1>1, <1>5, ThreeStatements DEF Plan
<1>6. CASE tx[t].kind \notin {"rotate", "reset", "delete", "logout"}
  <2>1. Plan(t) = <<expired, {a} \ expired, {}>>
    BY <1>6 DEF Plan
  <2> QED BY <1>1, <2>1, ThreeStatements
<1> QED BY <1>2, <1>3, <1>4, <1>5, <1>6

LEMMA SeenType ==
    ASSUME TypeOK, NEW t \in Tx
    PROVE  /\ Seen(t) \in Sight
           /\ tx[t].kind = "rotate" => Seen(t).version = version
           /\ tx[t].kind = "reset" => Seen(t).used = used /\ Seen(t).reported = reported
<1>1. /\ [Idle.seen EXCEPT !.version = version] \in Sight
      /\ [Idle.seen EXCEPT !.version = version].version = version
      /\ [Idle.seen EXCEPT !.used = used, !.reported = reported] \in Sight
      /\ [Idle.seen EXCEPT !.used = used, !.reported = reported].used = used
      /\ [Idle.seen EXCEPT !.used = used, !.reported = reported].reported = reported
  BY IdleType DEF TypeOK, Sight
<1>2. tx[t].kind = "rotate" \/ tx[t].kind = "reset" \/ tx[t].kind \notin {"rotate", "reset"}
  OBVIOUS
<1> QED BY <1>1, <1>2, IdleType DEF Seen

\* The body of an administrator's request starts, unless the user is gone.
Begins(t) == BodyRuns(t) /\ ~(tx[t].kind \in {"rotate", "reset", "delete"} /\ ~there)

LEMMA BodyEffect ==
    ASSUME TypeOK, NEW t \in Tx, tx[t].who \in Login, Begins(t)
    PROVE  /\ tx' \in [Tx -> Request] /\ UNCHANGED <<rows, lock, asked, counted>> /\ loop = None
           /\ tx[t].stage = "auth"
           /\ loop' = IF tx[t].kind \in Async THEN t ELSE None
           /\ tx'[t].kind = tx[t].kind /\ tx'[t].stage = "run"
           /\ tx'[t].who = IF Expunged(t) THEN None ELSE tx[t].who
           /\ tx'[t].todo = Plan(t) /\ tx'[t].seen = Seen(t)
           /\ OthersStay(t)
<1> DEFINE w == IF Expunged(t) THEN None ELSE tx[t].who
           q == [tx[t] EXCEPT !.stage = "run", !.who = w, !.todo = Plan(t), !.seen = Seen(t)]
<1>1. tx[t] \in Request /\ w \in Conn \cup Login \cup {None}
  BY DEF TypeOK
<1>2. q \in Request
  <2>1. Plan(t) \in Plans /\ Seen(t) \in Sight /\ tx[t].kind \in Kind
    BY <1>1, PlanType, SeenType, RequestFields
  <2> HIDE DEF w
  <2> QED BY <1>1, <2>1, RequestChange
<1>3. q.kind = tx[t].kind /\ q.stage = "run" /\ q.who = w /\ q.todo = Plan(t) /\ q.seen = Seen(t)
  <2> HIDE DEF w
  <2> QED BY <1>1 DEF Request
<1>4. tx' = [tx EXCEPT ![t] = q] /\ loop' = IF tx[t].kind \in Async THEN t ELSE None
  BY DEF Begins, BodyRuns
<1> HIDE DEF q
<1>5. tx' \in [Tx -> Request] /\ tx'[t] = q /\ \A x \in Tx \ {t} : tx'[x] = tx[x]
  BY <1>2, <1>4 DEF TypeOK
<1>6. UNCHANGED <<rows, lock, asked, counted>> /\ loop = None /\ tx[t].stage = "auth"
  BY DEF Begins, BodyRuns, Scheduled
<1> QED BY <1>3, <1>4, <1>5, <1>6 DEF OthersStay, Stays

LEMMA RestType ==
    ASSUME TypeOK, NEW t \in Tx, NEW r \in Row
    PROVE  /\ Rest(t, r) \in Plans
           /\ IF r = "user" /\ tx[t].kind = "delete"
              THEN Rest(t, r)[1] = {} /\ Rest(t, r)[2] = {} /\ Rest(t, r)[3] = Cascade(t)
              ELSE \A i \in Statement : Rest(t, r)[i] = tx[t].todo[i] \ {r}
<1>1. Cascade(t) \in SUBSET Row
  BY DEF Cascade, Row
<1>2. tx[t].todo \in Plans
  BY RequestFields DEF TypeOK
<1>3. CASE r = "user" /\ tx[t].kind = "delete"
  BY <1>1, <1>3, ThreeStatements DEF Rest
<1>4. CASE ~(r = "user" /\ tx[t].kind = "delete")
  BY <1>2, <1>4 DEF Rest, Plans
<1> QED BY <1>3, <1>4

\* A lock is taken by a handler that returns at once, or goes on.
LEMMA LockEffect ==
    ASSUME TypeOK, NEW t \in Tx, NEW r \in Row, Lock(t, r)
    PROVE  /\ tx' \in [Tx -> Request] /\ lock' \in [Row -> Tx \cup {None}]
           /\ UNCHANGED <<rows, asked, loop>>
           /\ tx[t].stage = "run" /\ r \in Front(t) /\ Exists(r)
           /\ lock[r] = None /\ lock'[r] = t
           /\ \A x \in Row \ {r} : lock'[x] = lock[x]
           /\ tx'[t].kind = tx[t].kind /\ tx'[t].who = tx[t].who
           /\ counted' = IF ReadsSessions(t, r) THEN Counted(t) ELSE counted
           /\ IF Returns(t, r)
              THEN tx'[t].stage = "returned" /\ tx'[t].todo = NoRows
              ELSE /\ tx'[t].stage = "run" /\ tx'[t].todo = Rest(t, r)
                   /\ tx'[t].seen.used = IF ReadsUser(t, r) THEN used ELSE tx[t].seen.used
                   /\ tx'[t].seen.version = tx[t].seen.version
                   /\ tx'[t].seen.reported = tx[t].seen.reported
           /\ OthersStay(t)
<1>1. tx[t] \in Request /\ used \in [Column -> Nat] /\ NoRows \in Plans
  BY IdleType DEF TypeOK
<1>2. tx[t].seen.used \in [Column -> Nat] /\ tx[t].seen \in Sight
  BY <1>1, RequestFields DEF Sight
<1> DEFINE u == IF ReadsUser(t, r) THEN used ELSE tx[t].seen.used
           q == IF Returns(t, r)
                THEN [tx[t] EXCEPT !.stage = "returned", !.todo = NoRows]
                ELSE [tx[t] EXCEPT !.todo = Rest(t, r), !.seen.used = u]
<1>3. q \in Request
  <2>1. u \in [Column -> Nat]
    BY <1>1, <1>2
  <2> HIDE DEF u
  <2>2. [tx[t] EXCEPT !.stage = "returned", !.todo = NoRows] \in Request
    BY <1>1, RequestFields, RequestChange
  <2>3. [tx[t] EXCEPT !.todo = Rest(t, r), !.seen.used = u] \in Request
    BY <1>1, <2>1, RestType, RequestFields, RequestChange
  <2> QED BY <2>2, <2>3
<1>4. /\ q.kind = tx[t].kind /\ q.who = tx[t].who
      /\ IF Returns(t, r)
         THEN q.stage = "returned" /\ q.todo = NoRows
         ELSE /\ q.stage = tx[t].stage /\ q.todo = Rest(t, r) /\ q.seen.used = u
              /\ q.seen.version = tx[t].seen.version
              /\ q.seen.reported = tx[t].seen.reported
  <2> HIDE DEF u
  <2> QED BY <1>1, <1>2 DEF Request, Sight
<1>5. tx' = [tx EXCEPT ![t] = q]
  BY DEF Lock
<1> HIDE DEF q
<1>6. tx' \in [Tx -> Request] /\ tx'[t] = q /\ \A x \in Tx \ {t} : tx'[x] = tx[x]
  BY <1>3, <1>5 DEF TypeOK
<1>7. /\ lock' \in [Row -> Tx \cup {None}] /\ lock'[r] = t /\ lock[r] = None
      /\ \A x \in Row \ {r} : lock'[x] = lock[x]
  BY DEF Lock, Granted, TypeOK
<1>8. \A s \in Tx : s # None
  BY NoneAssumption
<1>9. \A s \in Tx \ {t} : Stays(s)
  BY <1>6, <1>7, <1>8 DEF Stays
<1> QED BY <1>4, <1>6, <1>7, <1>9 DEF OthersStay, Lock, Granted

\* A row that is gone ends the request, or the request goes on without it.
Skips(t, r) == Miss(t, r) /\ ~(MustFind(t, r) \/ Returns(t, r))

LEMMA SkipEffect ==
    ASSUME TypeOK, NEW t \in Tx, NEW r \in Row, Skips(t, r)
    PROVE  /\ tx' \in [Tx -> Request] /\ UNCHANGED <<rows, asked, loop, lock, counted>>
           /\ tx[t].stage = "run" /\ r \in Front(t) /\ lock[r] = None /\ ~Exists(r)
           /\ ~MustFind(t, r) /\ ~Returns(t, r)
           /\ tx'[t].kind = tx[t].kind /\ tx'[t].who = tx[t].who /\ tx'[t].stage = "run"
           /\ tx'[t].todo = Rest(t, r) /\ tx'[t].seen = tx[t].seen
           /\ OthersStay(t)
<1>1. tx[t] \in Request
  BY DEF TypeOK
<1> DEFINE q == [tx[t] EXCEPT !.todo = Rest(t, r)]
<1>2. q \in Request
  BY <1>1, RestType, RequestFields, RequestChange
<1>3. /\ q.kind = tx[t].kind /\ q.who = tx[t].who /\ q.stage = tx[t].stage
      /\ q.todo = Rest(t, r) /\ q.seen = tx[t].seen
  BY <1>1 DEF Request
<1>4. tx' = [tx EXCEPT ![t] = q] /\ UNCHANGED <<lock, loop, counted>>
  BY DEF Skips, Miss
<1> HIDE DEF q
<1>5. tx' \in [Tx -> Request] /\ tx'[t] = q /\ \A x \in Tx \ {t} : tx'[x] = tx[x]
  BY <1>2, <1>4 DEF TypeOK
<1>6. /\ UNCHANGED <<rows, asked>> /\ tx[t].stage = "run" /\ r \in Front(t)
      /\ lock[r] = None /\ ~Exists(r) /\ ~MustFind(t, r) /\ ~Returns(t, r)
  BY DEF Skips, Miss, Granted
<1> QED BY <1>3, <1>4, <1>5, <1>6 DEF OthersStay, Stays

(***************************************************************************)
(* Every step is one of these: a request begins, reads what it will        *)
(* change, locks a row, passes over one, gives up, or commits; or a row    *)
(* changes by itself.                                                      *)
(***************************************************************************)
Arrives(t) ==
    \/ Authorize(t)
    \/ \E c \in Conn : Heartbeat(t, c) \/ Close(t, c)
    \/ \E a \in Login, k \in Administrative : Admitted(t, a, k)

GivesUp(t) == End(t) /\ UNCHANGED <<rows, asked>>

Elsewhere ==
    /\ UNCHANGED <<lock, tx, asked, loop, counted>>
    /\ \/ \E a \in Login : LoginCreated(a) \/ LoginExpires(a)
       \/ \E c \in Conn : GoesQuiet(c)
       \/ UNCHANGED rows

LEMMA StepForms ==
    ASSUME [Next]_vars
    PROVE  \/ \E t \in Tx : \/ Arrives(t) \/ Begins(t) \/ GivesUp(t) \/ Commit(t)
                            \/ \E r \in Row : Lock(t, r) \/ Skips(t, r)
           \/ Elsewhere
<1>1. ASSUME NEW t \in Tx, Step(t)
      PROVE  \/ Begins(t) \/ GivesUp(t) \/ Commit(t)
             \/ \E r \in Row : Lock(t, r) \/ Skips(t, r)
  <2>1. BodyRuns(t) => Begins(t) \/ GivesUp(t)
    BY DEF BodyRuns, Begins, GivesUp
  <2>2. \A r \in Row : Miss(t, r) => Skips(t, r) \/ GivesUp(t)
    BY DEF Miss, Skips, GivesUp
  <2>3. Finalise(t) \/ DeadlockAbort(t) => GivesUp(t)
    BY DEF Finalise, DeadlockAbort, GivesUp
  <2> QED BY <1>1, <2>1, <2>2, <2>3 DEF Step
<1>2. ASSUME NEW t \in Tx,
             \/ Authorize(t)
             \/ \E c \in Conn : Heartbeat(t, c) \/ Close(t, c)
             \/ \E a \in Login, k \in Administrative : Admitted(t, a, k)
      PROVE  Arrives(t)
  BY <1>2 DEF Arrives
<1>3. ASSUME \/ \E a \in Login : LoginCreated(a) \/ LoginExpires(a)
             \/ \E c \in Conn : GoesQuiet(c)
             \/ UNCHANGED vars
      PROVE  Elsewhere
  BY <1>3 DEF Elsewhere, LoginCreated, LoginExpires, GoesQuiet, vars, rows
<1> QED BY <1>1, <1>2, <1>3 DEF Next
-----------------------------------------------------------------------------
\* How a request begins, by kind.
Ends == {"heartbeat", "close"}

LEMMA ExistsFacts ==
    /\ Exists("user") <=> there
    /\ \A c \in Conn : Exists(c) <=> conn[c] \in {"open", "quiet", "ended"}
    /\ \A a \in Login : Exists(a) <=> login[a] \in {"live", "expired"}
    /\ Exists("user")' <=> there'
    /\ \A c \in Conn : Exists(c)' <=> conn'[c] \in {"open", "quiet", "ended"}
    /\ \A a \in Login : Exists(a)' <=> login'[a] \in {"live", "expired"}
BY RowAssumption DEF Exists

LEMMA ArriveEffect ==
    ASSUME TypeOK, NEW t \in Tx, Arrives(t)
    PROVE  /\ tx' \in [Tx -> Request] /\ UNCHANGED <<rows, lock, loop, counted>> /\ loop = None
           /\ asked' \in 0..MaxRequests
           /\ tx[t].stage = "idle"
           /\ \/ /\ tx'[t].kind = "authorize" /\ tx'[t].stage = "run" /\ tx'[t].who = None
                 /\ tx'[t].todo[1] = {c \in Conn : conn[c] = "quiet"}
                 /\ tx'[t].todo[2] = {"user"} /\ tx'[t].todo[3] = {}
              \/ /\ tx'[t].kind \in Ends /\ tx'[t].stage = "run"
                 /\ tx'[t].who \in Conn /\ Exists(tx'[t].who)
                 /\ tx'[t].todo[1] = {tx'[t].who}
                 /\ tx'[t].todo[2] = {"user"} /\ tx'[t].todo[3] = {}
              \/ /\ tx'[t].kind \in Administrative /\ tx'[t].stage = "auth"
                 /\ tx'[t].who \in Login /\ \A i \in Statement : tx'[t].todo[i] = {}
           /\ OthersStay(t)
<1>0. /\ {"user"} \in SUBSET Row /\ {} \in SUBSET Row /\ {c \in Conn : conn[c] = "quiet"} \in SUBSET Row
      /\ \A c \in Conn : {c} \in SUBSET Row
  BY DEF Row
<1>1. CASE Authorize(t)
  <2> DEFINE s == <<{c \in Conn : conn[c] = "quiet"}, {"user"}, {}>>
  <2>1. s \in Plans /\ s[1] = {c \in Conn : conn[c] = "quiet"} /\ s[2] = {"user"} /\ s[3] = {}
    BY <1>0, ThreeStatements
  <2>2. Start(t, "authorize", None, "run", s)
    BY <1>1 DEF Authorize
  <2> HIDE DEF s
  <2>3. "authorize" \in Kind
    BY DEF Kind, Gateway
  <2> QED BY <2>1, <2>2, <2>3, StartEffect
<1>2. ASSUME NEW c \in Conn, Heartbeat(t, c) \/ Close(t, c)
      PROVE  \E k \in Ends : Exists(c) /\ Start(t, k, c, "run", Rows(c))
  <2>1. CASE Heartbeat(t, c)
    <3>1. Exists(c)
      BY <2>1, ExistsFacts DEF Heartbeat, Unended
    <3> QED BY <2>1, <3>1 DEF Heartbeat, Ends
  <2>2. CASE Close(t, c)
    BY <2>2 DEF Close, Ends
  <2> QED BY <1>2, <2>1, <2>2
<1>3. ASSUME NEW c \in Conn, NEW k \in Ends, Exists(c), Start(t, k, c, "run", Rows(c))
      PROVE  /\ tx' \in [Tx -> Request] /\ UNCHANGED <<rows, lock, loop, counted>> /\ loop = None
             /\ asked' \in 0..MaxRequests
             /\ tx[t].stage = "idle"
             /\ tx'[t].kind \in Ends /\ tx'[t].stage = "run"
             /\ tx'[t].who \in Conn /\ Exists(tx'[t].who)
             /\ tx'[t].todo[1] = {tx'[t].who}
             /\ tx'[t].todo[2] = {"user"} /\ tx'[t].todo[3] = {}
             /\ OthersStay(t)
  <2>1. Rows(c) \in Plans /\ Rows(c)[1] = {c} /\ Rows(c)[2] = {"user"} /\ Rows(c)[3] = {}
    BY <1>0, ThreeStatements DEF Rows
  <2>2. k \in Kind
    BY DEF Ends, Kind, Gateway
  <2> QED BY <1>3, <2>1, <2>2, StartEffect
<1>4. ASSUME NEW a \in Login, NEW k \in Administrative, Admitted(t, a, k)
      PROVE  /\ tx' \in [Tx -> Request] /\ UNCHANGED <<rows, lock, loop, counted>> /\ loop = None
             /\ asked' \in 0..MaxRequests
             /\ tx[t].stage = "idle"
             /\ tx'[t].kind \in Administrative /\ tx'[t].stage = "auth"
             /\ tx'[t].who \in Login /\ \A i \in Statement : tx'[t].todo[i] = {}
             /\ OthersStay(t)
  <2>1. k \in Kind /\ NoRows \in Plans
    BY IdleType DEF Kind
  <2>2. Start(t, k, a, "auth", NoRows)
    BY <1>4 DEF Admitted
  <2> QED BY <2>1, <2>2, StartEffect, IdleType
<1> QED BY <1>1, <1>2, <1>3, <1>4 DEF Arrives

\* Only an administrator's request waits for its body to run.
Admins == \A t \in Tx : tx[t].stage = "auth" => tx[t].kind \in Administrative /\ tx[t].who \in Login

\* What a commit does to the rows is well typed.
LEMMA CommitType ==
    ASSUME TypeOK, NEW t \in Tx, Commit(t)
    PROVE  /\ there' \in BOOLEAN
           /\ used' \in [Column -> Nat] /\ version' \in Nat
           /\ conn' \in [Conn -> {"none", "open", "quiet", "ended", "gone"}]
           /\ login' \in [Login -> {"none", "live", "expired", "gone"}]
           /\ reported' \in [Column -> Nat] /\ forgiven' \in [Column -> Nat]
<1>0. tx[t] \in Request /\ tx[t].seen \in Sight
  BY RequestFields DEF TypeOK
<1>1. ASSUME NEW b \in Report, Charge(t, b)
      PROVE  /\ used' \in [Column -> Nat] /\ reported' \in [Column -> Nat]
             /\ UNCHANGED <<there, version, login, forgiven>>
  <2>1. b \in [Column -> Nat] /\ tx[t].seen.used \in [Column -> Nat]
    BY <1>0, ReportAssumption DEF Sight
  <2> QED BY <1>1, <2>1 DEF Charge, TypeOK
<1>2. CASE AuthorizeCommits(t)
  <2> DEFINE swept == [c \in Conn |-> IF Sweeps(t, c) THEN "ended" ELSE conn[c]]
  <2>1. swept \in [Conn -> {"none", "open", "quiet", "ended", "gone"}]
    BY DEF TypeOK
  <2>2. conn' \in [Conn -> {"none", "open", "quiet", "ended", "gone"}]
    <3>1. conn' = swept \/ \E c \in Conn : conn' = [swept EXCEPT ![c] = "open"]
      BY <1>2 DEF AuthorizeCommits
    <3> HIDE DEF swept
    <3> QED BY <2>1, <3>1
  <2> QED BY <1>2, <2>2 DEF AuthorizeCommits, TypeOK
<1>3. CASE HeartbeatCommits(t)
  BY <1>1, <1>3 DEF HeartbeatCommits, TypeOK
<1>4. CASE CloseCommits(t)
  BY <1>1, <1>4 DEF CloseCommits, TypeOK
<1>5. CASE RotateCommits(t)
  BY <1>0, <1>5 DEF RotateCommits, TypeOK, Sight
<1>6. CASE ResetCommits(t)
  BY <1>6 DEF ResetCommits, TypeOK
<1>7. CASE DeleteCommits(t)
  BY <1>7 DEF DeleteCommits, TypeOK
<1>8. CASE LoginsDeleted(t)
  BY <1>8 DEF LoginsDeleted, TypeOK
<1> QED BY <1>2, <1>3, <1>4, <1>5, <1>6, <1>7, <1>8 DEF Commit

LEMMA ElsewhereEffect ==
    ASSUME TypeOK, Elsewhere
    PROVE  /\ UNCHANGED <<there, used, version, reported, forgiven, lock, tx, asked, loop, counted>>
           /\ conn' \in [Conn -> {"none", "open", "quiet", "ended", "gone"}]
           /\ login' \in [Login -> {"none", "live", "expired", "gone"}]
           /\ \A c \in Conn : conn'[c] = conn[c] \/ (conn[c] = "open" /\ conn'[c] = "quiet")
           /\ \A a \in Login : login[a] \in {"live", "expired"} => login'[a] \in {"live", "expired"}
<1>1. ASSUME NEW a \in Login, LoginCreated(a) \/ LoginExpires(a)
      PROVE  /\ UNCHANGED <<there, used, version, reported, forgiven, conn>>
             /\ login' \in [Login -> {"none", "live", "expired", "gone"}]
             /\ \A b \in Login : login[b] \in {"live", "expired"} => login'[b] \in {"live", "expired"}
  BY <1>1 DEF LoginCreated, LoginExpires, TypeOK
<1>2. ASSUME NEW c \in Conn, GoesQuiet(c)
      PROVE  /\ UNCHANGED <<there, used, version, reported, forgiven, login>>
             /\ conn' \in [Conn -> {"none", "open", "quiet", "ended", "gone"}]
             /\ \A d \in Conn : conn'[d] = conn[d] \/ (conn[d] = "open" /\ conn'[d] = "quiet")
  BY <1>2 DEF GoesQuiet, TypeOK
<1> QED BY <1>1, <1>2 DEF Elsewhere, rows, TypeOK

\* Every statement, commit and rollback keeps the tables well typed; a row of
\* connection_sessions is never in a status outside those of the model.
LEMMA TypeStep ==
    ASSUME TypeOK, Admins, [Next]_vars
    PROVE  TypeOK' /\ Admins'
<1>1. ASSUME NEW t \in Tx, Arrives(t) PROVE TypeOK' /\ Admins'
  BY <1>1, ArriveEffect DEF TypeOK, Admins, OthersStay, Stays, rows
<1>2. ASSUME NEW t \in Tx, Begins(t) PROVE TypeOK' /\ Admins'
  <2>1. tx[t].who \in Login
    BY <1>2 DEF Begins, BodyRuns, Scheduled, Admins
  <2>2. loop' \in Tx \cup {None}
    BY <1>2, <2>1, BodyEffect
  <2> QED BY <1>2, <2>1, <2>2, BodyEffect DEF TypeOK, Admins, OthersStay, Stays, rows
<1>3. ASSUME NEW t \in Tx, End(t) PROVE Admins'
  BY <1>3, EndEffect, IdleType DEF Admins, OthersStay, Stays
<1>4. ASSUME NEW t \in Tx, GivesUp(t) PROVE TypeOK'
  BY <1>4, EndEffect DEF GivesUp, TypeOK, rows
<1>5. ASSUME NEW t \in Tx, Commit(t) PROVE TypeOK'
  <2>1. End(t) /\ asked' = asked
    BY <1>5 DEF Commit
  <2> QED BY <1>5, <2>1, EndEffect, CommitType DEF TypeOK
<1>6. ASSUME NEW t \in Tx, NEW r \in Row, Lock(t, r) PROVE TypeOK' /\ Admins'
  BY <1>6, LockEffect DEF TypeOK, Admins, OthersStay, Stays, rows, Counted
<1>7. ASSUME NEW t \in Tx, NEW r \in Row, Skips(t, r) PROVE TypeOK' /\ Admins'
  BY <1>7, SkipEffect DEF TypeOK, Admins, OthersStay, Stays, rows
<1>8. CASE Elsewhere
  BY <1>8, ElsewhereEffect DEF TypeOK, Admins
<1> QED BY <1>1, <1>2, <1>3, <1>4, <1>5, <1>6, <1>7, <1>8, StepForms DEF GivesUp, Commit

LEMMA TypeInit == Init => TypeOK /\ Admins
BY IdleType, BoundAssumption DEF Init, TypeOK, Admins

THEOREM TypeCorrect == Spec => []TypeOK
<1>1. Init => TypeOK /\ Admins
  BY TypeInit
<1>2. TypeOK /\ Admins /\ [Next]_vars => (TypeOK /\ Admins)'
  BY TypeStep
<1> QED BY <1>1, <1>2, PTL DEF Spec
-----------------------------------------------------------------------------
(***************************************************************************)
(* Which rows a request may hold and wait for, by kind.                    *)
(***************************************************************************)
HoldsNothing(t) == \A r \in Row : lock[r] # t
HoldsOnly(t, S) == \A r \in Row : lock[r] = t => r \in S

\* The session first, then its user.
GatewayShape(t) ==
    tx[t].kind \in Ends /\ tx[t].stage = "run" =>
        /\ tx[t].who \in Conn
        /\ tx[t].todo[1] \subseteq {tx[t].who}
        /\ tx[t].todo[2] \subseteq {"user"} /\ tx[t].todo[3] = {}
        /\ HoldsOnly(t, {tx[t].who, "user"})
        /\ tx[t].todo[1] # {} => HoldsNothing(t)

\* Sessions in any order, then the user.
SweepShape(t) ==
    tx[t].kind = "authorize" /\ tx[t].stage = "run" =>
        /\ tx[t].who = None
        /\ tx[t].todo[1] \subseteq Conn
        /\ tx[t].todo[2] \subseteq {"user"} /\ tx[t].todo[3] = {}
        /\ HoldsOnly(t, Conn \cup {"user"})
        /\ lock["user"] = t => tx[t].todo[1] = {}

\* The administrator's session, then the user.
WriterShape(t) ==
    tx[t].kind \in {"rotate", "reset"} /\ tx[t].stage = "run" =>
        /\ tx[t].who \in Login
        /\ tx[t].todo[1] \subseteq {tx[t].who}
        /\ tx[t].todo[2] \subseteq {"user"} /\ tx[t].todo[3] = {}
        /\ HoldsOnly(t, {tx[t].who, "user"})
        /\ tx[t].todo[1] # {} => HoldsNothing(t)

\* The administrator's session, the sessions it has read, the user, and the
\* sessions that go with the user.
DeleteShape(t) ==
    tx[t].kind = "delete" /\ tx[t].stage = "run" =>
        /\ tx[t].who \in Login
        /\ tx[t].todo[1] \subseteq {tx[t].who} /\ tx[t].todo[2] \subseteq Conn
        /\ \/ tx[t].todo[3] \subseteq {"user"}
           \/ tx[t].todo[1] = {} /\ tx[t].todo[2] = {} /\ tx[t].todo[3] \subseteq Conn
        /\ HoldsOnly(t, Conn \cup {tx[t].who, "user"})
        /\ tx[t].todo[1] # {} => HoldsNothing(t)
        /\ lock["user"] = t =>
              tx[t].todo[1] = {} /\ tx[t].todo[2] = {} /\ tx[t].todo[3] \subseteq Conn

LogoutShape(t) ==
    tx[t].kind = "logout" /\ tx[t].stage = "run" =>
        /\ tx[t].who = None
        /\ \E a \in Login : tx[t].todo[1] \subseteq {a}
        /\ tx[t].todo[2] = {} /\ tx[t].todo[3] = {}
        /\ HoldsOnly(t, Login)
        /\ tx[t].todo[1] # {} => HoldsNothing(t)

CleanShape(t) ==
    tx[t].kind = "clean" /\ tx[t].stage = "run" =>
        /\ tx[t].who \in Login \cup {None}
        /\ tx[t].todo[1] \subseteq Login /\ tx[t].todo[2] \subseteq Login
        /\ tx[t].todo[3] = {}
        /\ HoldsOnly(t, Login)

Shape(t) ==
    /\ GatewayShape(t) /\ SweepShape(t) /\ WriterShape(t)
    /\ DeleteShape(t) /\ LogoutShape(t) /\ CleanShape(t)

\* Locks belong to requests that run or have returned, nobody waits for what it
\* holds, and the event loop waits in the one async body that runs.
Locking ==
    /\ \A t \in Tx : \A r \in Row : lock[r] = t =>
          tx[t].stage \in {"run", "returned"} /\ \A i \in Statement : r \notin tx[t].todo[i]
    /\ \A t \in Tx : tx[t].stage # "run" => \A i \in Statement : tx[t].todo[i] = {}
    /\ \A t \in Tx : loop = t <=> tx[t].stage = "run" /\ tx[t].kind \in Async
    /\ \A t \in Tx : tx[t].stage = "run" => tx[t].kind # "none"

ShapeInv == Locking /\ \A t \in Tx : Shape(t)

LEMMA RowFacts ==
    /\ "user" \in Row /\ "user" \notin Conn /\ "user" \notin Login
    /\ \A c \in Conn : c \in Row /\ c \notin Login
    /\ \A a \in Login : a \in Row /\ a \notin Conn
BY RowAssumption DEF Row

LEMMA FrontFacts ==
    ASSUME NEW t \in Tx, NEW r \in Front(t)
    PROVE  \/ r \in tx[t].todo[1]
           \/ tx[t].todo[1] = {} /\ r \in tx[t].todo[2]
           \/ tx[t].todo[1] = {} /\ tx[t].todo[2] = {} /\ r \in tx[t].todo[3]
<1>1. PICK i \in Statement : r \in tx[t].todo[i] /\ \A j \in Statement : j < i => tx[t].todo[j] = {}
  BY DEF Front
<1>2. i = 1 \/ i = 2 \/ i = 3
  BY DEF Statement
<1>3. 1 \in Statement /\ 2 \in Statement /\ 1 < 2 /\ 1 < 3 /\ 2 < 3
  BY DEF Statement
<1> QED BY <1>1, <1>2, <1>3

LEMMA ThreeIndices == Statement = {1, 2, 3}
BY DEF Statement

\* What another request does leaves the shape of a request as it is.
LEMMA StayingShape ==
    ASSUME NEW t \in Tx, Shape(t), Stays(t)
    PROVE  Shape(t)'
<1>1. "user" \in Row
  BY DEF Row
<1> QED BY <1>1 DEF Shape, GatewayShape, SweepShape, WriterShape, DeleteShape,
           LogoutShape, CleanShape, HoldsOnly, HoldsNothing, Stays

\* The shape of a request that begins.
LEMMA FirstShape ==
    ASSUME TypeOK, Admins, ShapeInv, NEW t \in Tx, Arrives(t) \/ Begins(t)
    PROVE  Shape(t)'
<1>1. CASE Arrives(t)
  <2>1. \A r \in Row : lock'[r] # t
    BY <1>1, ArriveEffect DEF ShapeInv, Locking
  <2>2. tx'[t].stage = "run" => tx'[t].kind \in {"authorize"} \cup Ends
    BY <1>1, ArriveEffect
  <2> QED BY <1>1, <2>1, <2>2, ArriveEffect, RowFacts
      DEF Shape, GatewayShape, SweepShape, WriterShape, DeleteShape,
          LogoutShape, CleanShape, HoldsOnly, HoldsNothing, Ends
<1>2. CASE Begins(t)
  <2>1. tx[t].stage = "auth" /\ tx[t].who \in Login /\ tx[t].kind \in Administrative
    BY <1>2 DEF Begins, BodyRuns, Scheduled, Admins
  <2>2. \A r \in Row : lock'[r] # t
    BY <1>2, <2>1, BodyEffect DEF ShapeInv, Locking
  <2>3. /\ tx'[t].kind = tx[t].kind /\ tx'[t].todo = Plan(t)
        /\ tx'[t].who = IF Expunged(t) THEN None ELSE tx[t].who
    BY <1>2, <2>1, BodyEffect
  <2> DEFINE a == tx[t].who
             expired == {b \in Login : login[b] = "expired"}
  <2>4. CASE tx[t].kind = "rotate"
    <3>1. Plan(t) = <<{a}, {"user"}, {}>> /\ ~Expunged(t)
      BY <2>4 DEF Plan, Expunged
    <3> QED BY <2>1, <2>2, <2>3, <2>4, <3>1
        DEF Shape, GatewayShape, SweepShape, WriterShape, DeleteShape,
          LogoutShape, CleanShape, HoldsOnly, HoldsNothing, Ends
  <2>5. CASE tx[t].kind = "reset"
    <3>1. PICK U \in SUBSET {"user"} : Plan(t) = <<{a}, U, {}>>
      BY <2>5 DEF Plan
    <3>2. ~Expunged(t)
      BY <2>5 DEF Expunged
    <3> QED BY <2>1, <2>2, <2>3, <2>5, <3>1, <3>2
        DEF Shape, GatewayShape, SweepShape, WriterShape, DeleteShape,
          LogoutShape, CleanShape, HoldsOnly, HoldsNothing, Ends
  <2>6. CASE tx[t].kind = "delete"
    <3>1. Plan(t) = <<{a}, {c \in Conn : Exists(c)}, {"user"}>> /\ ~Expunged(t)
      BY <2>6 DEF Plan, Expunged
    <3>2. "user" \in Row
      BY DEF Row
    <3> QED BY <2>1, <2>2, <2>3, <2>6, <3>1, <3>2
        DEF Shape, GatewayShape, SweepShape, WriterShape, DeleteShape,
          LogoutShape, CleanShape, HoldsOnly, HoldsNothing, Ends
  <2>7. CASE tx[t].kind = "logout"
    <3>1. Plan(t) = <<{a} \cap {b \in Login : Exists(b)}, {}, {}>> /\ Expunged(t)
      BY <2>7 DEF Plan, Expunged
    <3> QED BY <2>1, <2>2, <2>3, <2>7, <3>1
        DEF Shape, GatewayShape, SweepShape, WriterShape, DeleteShape,
          LogoutShape, CleanShape, HoldsOnly, HoldsNothing, Ends
  <2>8. CASE tx[t].kind = "clean"
    <3>1. Plan(t) = <<expired, {a} \ expired, {}>>
      BY <2>8 DEF Plan
    <3> QED BY <2>1, <2>2, <2>3, <2>8, <3>1
        DEF Shape, GatewayShape, SweepShape, WriterShape, DeleteShape,
          LogoutShape, CleanShape, HoldsOnly, HoldsNothing, Ends
  <2> QED BY <2>1, <2>4, <2>5, <2>6, <2>7, <2>8 DEF Administrative, OwnUpdate
<1> QED BY <1>1, <1>2

\* One row further: r is locked, or passed over.
Advances(t, r) ==
    /\ tx[t].stage = "run" /\ r \in Front(t)
    /\ tx'[t].kind = tx[t].kind /\ tx'[t].who = tx[t].who /\ tx'[t].stage = "run"
    /\ tx'[t].todo = Rest(t, r)
    /\ \A x \in Row \ {r} : lock'[x] = t <=> lock[x] = t

LEMMA AdvancingShape ==
    ASSUME TypeOK, ShapeInv, NEW t \in Tx, NEW r \in Row, Advances(t, r)
    PROVE  Shape(t)'
<1> DEFINE A == tx[t].todo[1]
           B == tx[t].todo[2]
           C == tx[t].todo[3]
           A1 == tx'[t].todo[1]
           B1 == tx'[t].todo[2]
           C1 == tx'[t].todo[3]
<1>1. r \in A \/ (A = {} /\ r \in B) \/ (A = {} /\ B = {} /\ r \in C)
  BY FrontFacts DEF Advances
<1>2. CASE r = "user" /\ tx[t].kind = "delete"
  <2>1. A1 = {} /\ B1 = {} /\ C1 = Cascade(t)
    BY <1>2, RestType DEF Advances
  <2>2. Cascade(t) \subseteq Conn
    BY DEF Cascade
  <2>3. DeleteShape(t)
    BY DEF ShapeInv, Shape
  <2>4. /\ tx'[t].kind = "delete" /\ tx'[t].who = tx[t].who /\ tx[t].who \in Login
        /\ HoldsOnly(t, Conn \cup {tx[t].who, "user"})
    BY <1>2, <2>3 DEF Advances, DeleteShape
  <2>5. HoldsOnly(t, Conn \cup {tx[t].who, "user"})'
    BY <1>2, <2>4 DEF Advances, HoldsOnly
  <2>6. DeleteShape(t)'
    BY <2>1, <2>2, <2>4, <2>5 DEF DeleteShape
  <2> QED BY <2>4, <2>6 DEF Shape, GatewayShape, SweepShape, WriterShape,
             LogoutShape, CleanShape, Ends
<1>3. CASE ~(r = "user" /\ tx[t].kind = "delete")
  <2>1. A1 = A \ {r} /\ B1 = B \ {r} /\ C1 = C \ {r}
    BY <1>3, RestType, ThreeIndices DEF Advances
  <2>2. \A x \in Row : lock'[x] = t => lock[x] = t \/ x = r
    BY DEF Advances
  <2>3. tx[t].stage = "run" /\ tx'[t].kind = tx[t].kind /\ tx'[t].who = tx[t].who
    BY DEF Advances
  <2> HIDE DEF A, B, C, A1, B1, C1
  <2>4. GatewayShape(t)'
    BY <1>1, <2>1, <2>2, <2>3 DEF ShapeInv, Shape, GatewayShape, HoldsOnly, HoldsNothing, A, B, C, A1, B1, C1
  <2>5. SweepShape(t)'
    <3> SUFFICES ASSUME tx[t].kind = "authorize"
                 PROVE  /\ tx[t].who = None /\ A1 \subseteq Conn /\ B1 \subseteq {"user"} /\ C1 = {}
                        /\ HoldsOnly(t, Conn \cup {"user"})'
                        /\ lock'["user"] = t => A1 = {}
      BY <2>3 DEF SweepShape, A1, B1, C1
    <3>1. tx[t].who = None /\ A \subseteq Conn /\ B \subseteq {"user"} /\ C = {}
          /\ HoldsOnly(t, Conn \cup {"user"}) /\ (lock["user"] = t => A = {})
      BY <2>3 DEF ShapeInv, Shape, SweepShape, A, B, C
    <3>2. r \in Conn \cup {"user"}
      BY <1>1, <3>1
    <3>3. HoldsOnly(t, Conn \cup {"user"})'
      BY <2>2, <3>1, <3>2 DEF HoldsOnly
    <3>4. lock'["user"] = t => A1 = {}
      BY <1>1, <2>1, <2>2, <3>1, RowFacts
    <3> QED BY <2>1, <3>1, <3>3, <3>4
  <2>6. WriterShape(t)'
    BY <1>1, <2>1, <2>2, <2>3 DEF ShapeInv, Shape, WriterShape, HoldsOnly, HoldsNothing, A, B, C, A1, B1, C1
  <2>7. DeleteShape(t)'
    <3> DEFINE S == Conn \cup {tx[t].who, "user"}
    <3> SUFFICES ASSUME tx[t].kind = "delete"
                 PROVE  /\ tx[t].who \in Login
                        /\ A1 \subseteq {tx[t].who} /\ B1 \subseteq Conn
                        /\ C1 \subseteq {"user"} \/ (A1 = {} /\ B1 = {} /\ C1 \subseteq Conn)
                        /\ HoldsOnly(t, S)'
                        /\ A1 # {} => HoldsNothing(t)'
                        /\ lock'["user"] = t => A1 = {} /\ B1 = {} /\ C1 \subseteq Conn
      BY <2>3 DEF DeleteShape, A1, B1, C1
    <3>1. /\ tx[t].who \in Login /\ A \subseteq {tx[t].who} /\ B \subseteq Conn
          /\ C \subseteq {"user"} \/ (A = {} /\ B = {} /\ C \subseteq Conn)
          /\ HoldsOnly(t, S)
          /\ lock["user"] = t => A = {} /\ B = {} /\ C \subseteq Conn
      BY <2>3 DEF ShapeInv, Shape, DeleteShape, A, B, C
    <3>2. r # "user" /\ "user" \in Row
      BY <1>3 DEF Row
    <3>3. r \in S
      BY <1>1, <3>1
    <3>4. HoldsOnly(t, S)'
      <4>1. S' = S
        BY <2>3
      <4> HIDE DEF S
      <4> QED BY <2>2, <3>1, <3>3, <4>1 DEF HoldsOnly
    <3>5. A1 = {}
      BY <1>1, <2>1, <3>1
    <3>6. lock'["user"] = t => lock["user"] = t
      BY <2>2, <3>2
    <3> QED BY <2>1, <3>1, <3>4, <3>5, <3>6
  <2>8. LogoutShape(t)'
    <3> SUFFICES ASSUME tx[t].kind = "logout"
                 PROVE  /\ tx[t].who = None
                        /\ \E a \in Login : A1 \subseteq {a}
                        /\ B1 = {} /\ C1 = {}
                        /\ HoldsOnly(t, Login)'
                        /\ A1 # {} => HoldsNothing(t)'
      BY <2>3 DEF LogoutShape, A1, B1, C1
    <3>1. tx[t].who = None /\ B = {} /\ C = {} /\ HoldsOnly(t, Login)
      BY <2>3 DEF ShapeInv, Shape, LogoutShape, A, B, C
    <3>2. PICK a \in Login : A \subseteq {a}
      BY <2>3 DEF ShapeInv, Shape, LogoutShape, A
    <3>3. r = a /\ A1 = {}
      BY <1>1, <2>1, <3>1, <3>2
    <3>4. HoldsOnly(t, Login)'
      BY <2>2, <3>1, <3>3 DEF HoldsOnly
    <3> QED BY <2>1, <3>1, <3>3, <3>4
  <2>9. CleanShape(t)'
    BY <1>1, <2>1, <2>2, <2>3 DEF ShapeInv, Shape, CleanShape, HoldsOnly, HoldsNothing, A, B, C, A1, B1, C1
  <2> QED BY <2>4, <2>5, <2>6, <2>7, <2>8, <2>9 DEF Shape
<1> QED BY <1>2, <1>3

\* The requests other than t keep their shape and their locks.
LEMMA OthersShape ==
    ASSUME ShapeInv, NEW t \in Tx, OthersStay(t), NEW s \in Tx \ {t}
    PROVE  /\ Shape(s)'
           /\ \A r \in Row : lock'[r] = s =>
                 tx'[s].stage \in {"run", "returned"} /\ \A i \in Statement : r \notin tx'[s].todo[i]
           /\ tx'[s].stage # "run" => \A i \in Statement : tx'[s].todo[i] = {}
           /\ loop = s <=> tx'[s].stage = "run" /\ tx'[s].kind \in Async
           /\ tx'[s].stage = "run" => tx'[s].kind # "none"
<1>1. Shape(s) /\ Stays(s)
  BY DEF ShapeInv, OthersStay
<1> QED BY <1>1, StayingShape DEF ShapeInv, Locking, Stays

LEMMA ShapeStep ==
    ASSUME TypeOK, Admins, ShapeInv, [Next]_vars
    PROVE  ShapeInv'
<1> DEFINE Own(t) == /\ Shape(t)'
                     /\ \A r \in Row : lock'[r] = t =>
                           tx'[t].stage \in {"run", "returned"} /\ \A i \in Statement : r \notin tx'[t].todo[i]
                     /\ tx'[t].stage # "run" => \A i \in Statement : tx'[t].todo[i] = {}
                     /\ loop' = t <=> tx'[t].stage = "run" /\ tx'[t].kind \in Async
                     /\ tx'[t].stage = "run" => tx'[t].kind # "none"
<1>1. ASSUME NEW t \in Tx, OthersStay(t), Own(t), \A s \in Tx \ {t} : loop' = s <=> loop = s
      PROVE  ShapeInv'
  <2>1. \A s \in Tx \ {t} : Own(s)
    BY <1>1, OthersShape
  <2>2. \A s \in Tx : Own(s)
    BY <1>1, <2>1
  <2> QED BY <2>2 DEF ShapeInv, Locking
<1>2. ASSUME NEW t \in Tx, Arrives(t) PROVE ShapeInv'
  <2>1. Shape(t)'
    BY <1>2, FirstShape
  <2>2. \A r \in Row : lock'[r] # t
    BY <1>2, ArriveEffect DEF ShapeInv, Locking
  <2>3. loop' = loop /\ loop' # t
    BY <1>2, ArriveEffect, NoneAssumption
  <2>4. /\ tx'[t].stage # "run" => \A i \in Statement : tx'[t].todo[i] = {}
        /\ tx'[t].stage = "run" => tx'[t].kind \in {"authorize"} \cup Ends
    BY <1>2, ArriveEffect
  <2>5. OthersStay(t)
    BY <1>2, ArriveEffect
  <2>6. tx'[t].stage = "run" => tx'[t].kind \notin Async /\ tx'[t].kind # "none"
    BY <2>4 DEF Ends, Async
  <2> QED BY <1>1, <2>1, <2>2, <2>3, <2>4, <2>5, <2>6
<1>3. ASSUME NEW t \in Tx, Begins(t) PROVE ShapeInv'
  <2>0. tx[t].stage = "auth" /\ tx[t].who \in Login /\ tx[t].kind \in Administrative
    BY <1>3 DEF Begins, BodyRuns, Scheduled, Admins
  <2>1. Shape(t)'
    BY <1>3, FirstShape
  <2>2. \A r \in Row : lock'[r] # t
    BY <1>3, <2>0, BodyEffect DEF ShapeInv, Locking
  <2>3. /\ loop' = IF tx[t].kind \in Async THEN t ELSE None
        /\ tx'[t].stage = "run" /\ tx'[t].kind = tx[t].kind /\ OthersStay(t) /\ loop = None
    BY <1>3, <2>0, BodyEffect
  <2>4. tx[t].kind # "none"
    BY <2>0 DEF Administrative, OwnUpdate
  <2>5. \A s \in Tx : s # None
    BY NoneAssumption
  <2> QED BY <1>1, <2>1, <2>2, <2>3, <2>4, <2>5
<1>4. ASSUME NEW t \in Tx, End(t) PROVE ShapeInv'
  <2>1. tx'[t].stage = "idle" /\ \A i \in Statement : tx'[t].todo[i] = {}
    BY <1>4, EndEffect, IdleType
  <2>2. Shape(t)'
    BY <2>1 DEF Shape, GatewayShape, SweepShape, WriterShape, DeleteShape, LogoutShape, CleanShape
  <2>3. (\A r \in Row : lock'[r] # t) /\ loop' = (IF loop = t THEN None ELSE loop) /\ OthersStay(t)
    BY <1>4, EndEffect
  <2>4. \A s \in Tx : s # None
    BY NoneAssumption
  <2> QED BY <1>1, <2>1, <2>2, <2>3, <2>4
<1>5. ASSUME NEW t \in Tx, NEW r \in Row, Advances(t, r), OthersStay(t), loop' = loop
      PROVE  ShapeInv'
  <2>1. Shape(t)'
    BY <1>5, AdvancingShape
  <2>2. tx[t].stage = "run" /\ tx'[t].stage = "run" /\ tx'[t].kind = tx[t].kind
    BY <1>5 DEF Advances
  <2>3. ASSUME NEW x \in Row, lock'[x] = t, NEW i \in Statement
        PROVE  x \notin tx'[t].todo[i]
    <3>1. CASE r = "user" /\ tx[t].kind = "delete"
      <4>1. tx'[t].todo = Rest(t, r)
        BY <1>5 DEF Advances
      <4>2. tx'[t].todo[i] \subseteq Cascade(t)
        BY <3>1, <4>1, RestType, ThreeIndices
      <4>3. x = r \/ x \notin Cascade(t)
        BY <1>5, <2>3 DEF Advances, Cascade
      <4>4. r \notin Cascade(t)
        BY <3>1, RowAssumption DEF Cascade
      <4> QED BY <4>2, <4>3, <4>4
    <3>2. CASE ~(r = "user" /\ tx[t].kind = "delete")
      <4>1. tx'[t].todo[i] = tx[t].todo[i] \ {r}
        BY <1>5, <3>2, RestType DEF Advances
      <4>2. x # r => x \notin tx[t].todo[i]
        BY <1>5, <2>3 DEF Advances, ShapeInv, Locking
      <4> QED BY <4>1, <4>2
    <3> QED BY <3>1, <3>2
  <2>4. loop = t <=> tx[t].kind \in Async
    BY <2>2 DEF ShapeInv, Locking
  <2>5. tx[t].kind # "none"
    BY <2>2 DEF ShapeInv, Locking
  <2> QED BY <1>1, <1>5, <2>1, <2>2, <2>3, <2>4, <2>5
<1>6. ASSUME NEW t \in Tx, NEW r \in Row, Skips(t, r) PROVE ShapeInv'
  <2>1. Advances(t, r) /\ OthersStay(t) /\ loop' = loop
    BY <1>6, SkipEffect DEF Advances
  <2> QED BY <1>5, <2>1
<1>7. ASSUME NEW t \in Tx, NEW r \in Row, Lock(t, r) PROVE ShapeInv'
  <2>1. CASE ~Returns(t, r)
    <3>1. Advances(t, r) /\ OthersStay(t) /\ loop' = loop
      BY <1>7, <2>1, LockEffect DEF Advances
    <3> QED BY <1>5, <3>1
  <2>2. CASE Returns(t, r)
    <3>1. /\ tx'[t].stage = "returned" /\ tx'[t].todo = NoRows
          /\ OthersStay(t) /\ loop' = loop /\ tx[t].stage = "run"
      BY <1>7, <2>2, LockEffect
    <3>2. \A i \in Statement : tx'[t].todo[i] = {}
      BY <3>1, IdleType
    <3>3. tx[t].kind \notin Async
      BY <2>2 DEF Returns, Async
    <3>4. loop # t
      BY <3>1, <3>3 DEF ShapeInv, Locking
    <3>5. Shape(t)'
      BY <3>1 DEF Shape, GatewayShape, SweepShape, WriterShape, DeleteShape, LogoutShape, CleanShape
    <3> QED BY <1>1, <3>1, <3>2, <3>4, <3>5
  <2> QED BY <2>1, <2>2
<1>8. CASE Elsewhere
  <2>1. UNCHANGED <<tx, lock, loop>>
    BY <1>8 DEF Elsewhere
  <2> QED BY <2>1 DEF ShapeInv, Locking, Shape, GatewayShape, SweepShape, WriterShape,
             DeleteShape, LogoutShape, CleanShape, HoldsOnly, HoldsNothing
<1> QED BY <1>2, <1>3, <1>4, <1>6, <1>7, <1>8, StepForms DEF GivesUp, Commit

LEMMA ShapeFirst == Init => ShapeInv
<1> SUFFICES ASSUME Init PROVE ShapeInv
  OBVIOUS
<1>1. /\ \A t \in Tx : tx[t].stage = "idle" /\ \A i \in Statement : tx[t].todo[i] = {}
      /\ \A t \in Tx, r \in Row : lock[r] # t
      /\ \A t \in Tx : loop # t
  BY IdleType, NoneAssumption DEF Init
<1> QED BY <1>1 DEF ShapeInv, Locking, Shape, GatewayShape, SweepShape, WriterShape,
           DeleteShape, LogoutShape, CleanShape

LEMMA RequestsInShape == Spec => [](TypeOK /\ Admins /\ ShapeInv)
<1>1. Init => TypeOK /\ Admins /\ ShapeInv
  BY TypeInit, ShapeFirst
<1>2. TypeOK /\ Admins /\ ShapeInv /\ [Next]_vars => (TypeOK /\ Admins /\ ShapeInv)'
  BY TypeStep, ShapeStep
<1> QED BY <1>1, <1>2, PTL DEF Spec
-----------------------------------------------------------------------------
(***************************************************************************)
(* What a request has locked or is going to lock: the rows it may write    *)
(* when it commits.                                                        *)
(***************************************************************************)
Claims(t, r) == lock[r] = t \/ \E i \in Statement : r \in tx[t].todo[i]

\* A request that runs has a claim on every row it is going to write, and the
\* session of a heartbeat or a close has not ended since it was locked.
Secure(t) ==
    tx[t].stage = "run" =>
        /\ tx[t].kind \in Ends =>
              /\ Claims(t, tx[t].who) /\ Claims(t, "user")
              /\ lock[tx[t].who] = t => Unended(tx[t].who)
        /\ tx[t].kind = "authorize" => ~there \/ Claims(t, "user")
        /\ tx[t].kind \in {"rotate", "reset", "delete"} => Claims(t, tx[t].who)
        /\ tx[t].kind = "rotate" => Claims(t, "user")
        /\ tx[t].kind = "reset" /\ (\E k \in Column : tx[t].seen.used[k] # 0) =>
              Claims(t, "user")
        /\ tx[t].kind = "clean" /\ tx[t].who \in Login => Claims(t, tx[t].who)

\* A delete misses no session: before it holds the user, whatever another
\* request has a claim on is its own to delete or deleted already, or not yet
\* read by anyone; from then on no session is added, and the sessions added
\* just before are nobody else's.
Sees(t) ==
    tx[t].kind = "delete" /\ tx[t].stage = "run" =>
        IF lock["user"] = t
        THEN /\ \A c \in Conn : Exists(c) => Claims(t, c)
             /\ \A s \in Tx \ {t} : \A c \in tx[t].todo[3] : ~Claims(s, c)
        ELSE /\ tx[t].todo[3] \subseteq {"user"}
             /\ ~there \/ Claims(t, "user")
             /\ \A s \in Tx \ {t} : \A c \in Conn :
                   Claims(s, c) => Claims(t, c) \/ conn[c] = "gone"

\* Locked rows exist, and only sessions that were inserted are claimed.
Present ==
    /\ \A t \in Tx : \A r \in Row : lock[r] = t => Exists(r)
    /\ \A t \in Tx : \A c \in Conn : Claims(t, c) => conn[c] # "none"

OwnInv == UserOutlivesSessions /\ Present /\ \A t \in Tx : Secure(t) /\ Sees(t)

LEMMA StayingClaims ==
    ASSUME NEW s \in Tx, Stays(s), NEW r \in Row
    PROVE  Claims(s, r)' <=> Claims(s, r)
BY DEF Claims, Stays

LEMMA EndingClaims ==
    ASSUME TypeOK, NEW t \in Tx, End(t), NEW r \in Row
    PROVE  ~Claims(t, r)'
BY EndEffect, IdleType DEF Claims

\* How the claims of t change when it locks r or passes over it.
LEMMA AdvancingClaims ==
    ASSUME TypeOK, NEW t \in Tx, NEW r \in Row, Advances(t, r),
           ~(r = "user" /\ tx[t].kind = "delete"), NEW x \in Row
    PROVE  /\ x # r => (Claims(t, x)' <=> Claims(t, x))
           /\ Claims(t, r)' <=> lock'[r] = t
           /\ Claims(t, r)
<1>1. \A i \in Statement : tx'[t].todo[i] = tx[t].todo[i] \ {r}
  BY RestType DEF Advances
<1>2. \E i \in Statement : r \in tx[t].todo[i]
  BY DEF Advances, Front
<1>3. x # r => (lock'[x] = t <=> lock[x] = t)
  BY DEF Advances
<1> QED BY <1>1, <1>2, <1>3 DEF Claims

\* A delete that reaches the user is over with its other statements.
LEMMA CascadingClaims ==
    ASSUME TypeOK, ShapeInv, NEW t \in Tx, Advances(t, "user"), tx[t].kind = "delete"
    PROVE  /\ tx[t].todo[1] = {} /\ tx[t].todo[2] = {} /\ tx[t].todo[3] = {"user"}
           /\ lock["user"] # t
           /\ tx'[t].todo[1] = {} /\ tx'[t].todo[2] = {} /\ tx'[t].todo[3] = Cascade(t)
           /\ \A x \in Row \ {"user"} : Claims(t, x) <=> lock[x] = t
           /\ \A x \in Row \ {"user"} : Claims(t, x)' <=> lock[x] = t \/ x \in Cascade(t)
<1>1. DeleteShape(t) /\ tx[t].stage = "run" /\ "user" \in Front(t)
  BY DEF ShapeInv, Shape, Advances
<1>2. tx[t].todo[1] \subseteq Login /\ tx[t].todo[2] \subseteq Conn
  BY <1>1 DEF DeleteShape
<1>3. tx[t].todo[1] = {} /\ tx[t].todo[2] = {} /\ "user" \in tx[t].todo[3]
  BY <1>1, <1>2, FrontFacts, RowFacts
<1>4. tx[t].todo[3] = {"user"}
  BY <1>1, <1>3, RowFacts DEF DeleteShape
<1>5. lock["user"] # t
  BY <1>3, RowFacts, ThreeIndices DEF ShapeInv, Locking
<1>6. tx'[t].todo[1] = {} /\ tx'[t].todo[2] = {} /\ tx'[t].todo[3] = Cascade(t)
  BY RestType, RowFacts DEF Advances
<1>7. \A x \in Row \ {"user"} : lock'[x] = t <=> lock[x] = t
  BY DEF Advances
<1> QED BY <1>3, <1>4, <1>5, <1>6, <1>7, ThreeIndices DEF Claims

\* A row that must be there is never passed over, and a heartbeat or a close
\* finds the user of the session that it holds.
LEMMA SkippedRow ==
    ASSUME TypeOK, ShapeInv, OwnInv, NEW t \in Tx, NEW r \in Row, Skips(t, r)
    PROVE  /\ tx[t].kind \notin Ends
           /\ tx[t].kind \in {"rotate", "reset", "delete", "clean"} => r # tx[t].who
           /\ tx[t].kind \in {"rotate", "reset"} => r # "user"
<1>1. tx[t].stage = "run" /\ r \in Front(t) /\ ~Exists(r) /\ ~MustFind(t, r) /\ ~Returns(t, r)
  BY SkipEffect
<1>2. /\ tx[t].kind \in {"rotate", "reset", "delete", "clean"} => r # tx[t].who
      /\ tx[t].kind \in {"rotate", "reset"} => r # "user"
  BY <1>1 DEF MustFind, OwnUpdate
<1>3. ASSUME tx[t].kind \in Ends PROVE FALSE
  <2> DEFINE c == tx[t].who
  <2>1. /\ c \in Conn /\ tx[t].todo[1] \subseteq {c} /\ tx[t].todo[2] \subseteq {"user"}
        /\ tx[t].todo[3] = {}
    BY <1>1, <1>3 DEF ShapeInv, Shape, GatewayShape
  <2>2. r # c
    <3>1. ASSUME r = c PROVE Returns(t, r)
      <4>1. ~Unended(c)
        BY <1>1, <2>1, <3>1, ExistsFacts DEF Unended
      <4> QED BY <1>3, <2>1, <3>1, <4>1 DEF Returns, Ends
    <3> QED BY <1>1, <3>1
  <2>3. r = "user" /\ tx[t].todo[1] = {}
    BY <1>1, <2>1, <2>2, FrontFacts
  <2>4. Claims(t, c)
    BY <1>1, <1>3 DEF OwnInv, Secure
  <2>5. lock[c] = t
    BY <2>1, <2>3, <2>4, RowFacts, ThreeIndices DEF Claims
  <2>6. Exists(c)
    BY <2>1, <2>5, RowFacts DEF OwnInv, Present
  <2>7. there
    BY <2>1, <2>6 DEF OwnInv, UserOutlivesSessions
  <2> QED BY <1>1, <2>3, <2>7, ExistsFacts
<1> QED BY <1>2, <1>3

(***************************************************************************)
(* A commit writes what its request has locked, and an authorize may       *)
(* insert a session of the user that it has locked.                        *)
(***************************************************************************)
LEMMA ReadyHolds ==
    ASSUME TypeOK, ShapeInv, OwnInv, NEW t \in Tx, Ready(t)
    PROVE  /\ \A r \in Row : Claims(t, r) <=> lock[r] = t
           /\ tx[t].kind \in Ends =>
                 /\ tx[t].who \in Conn /\ lock[tx[t].who] = t /\ Unended(tx[t].who)
                 /\ lock["user"] = t
           /\ tx[t].kind = "authorize" => ~there \/ lock["user"] = t
           /\ tx[t].kind = "rotate" => lock["user"] = t
           /\ tx[t].kind = "reset" /\ (\E k \in Column : tx[t].seen.used[k] # 0) =>
                 lock["user"] = t
           /\ tx[t].kind = "delete" => /\ ~there \/ lock["user"] = t
                                       /\ \A c \in Conn : Exists(c) => lock[c] = t
<1>1. tx[t].stage = "run" /\ \A i \in Statement : tx[t].todo[i] = {}
  BY DEF Ready
<1>2. \A r \in Row : Claims(t, r) <=> lock[r] = t
  BY <1>1 DEF Claims
<1>3. Secure(t) /\ Sees(t) /\ GatewayShape(t)
  BY DEF OwnInv, ShapeInv, Shape
<1>4. tx[t].kind \in Ends =>
         /\ tx[t].who \in Conn /\ lock[tx[t].who] = t /\ Unended(tx[t].who)
         /\ lock["user"] = t
  BY <1>1, <1>2, <1>3, RowFacts DEF Secure, GatewayShape
<1>5. /\ tx[t].kind = "authorize" => ~there \/ lock["user"] = t
      /\ tx[t].kind = "rotate" => lock["user"] = t
      /\ tx[t].kind = "reset" /\ (\E k \in Column : tx[t].seen.used[k] # 0) =>
            lock["user"] = t
  BY <1>1, <1>2, <1>3, RowFacts DEF Secure
<1>6. tx[t].kind = "delete" => /\ ~there \/ lock["user"] = t
                               /\ \A c \in Conn : Exists(c) => lock[c] = t
  <2> SUFFICES ASSUME tx[t].kind = "delete"
               PROVE  /\ ~there \/ lock["user"] = t
                      /\ \A c \in Conn : Exists(c) => lock[c] = t
    OBVIOUS
  <2>1. CASE lock["user"] = t
    BY <1>1, <1>2, <1>3, <2>1, RowFacts DEF Sees
  <2>2. CASE lock["user"] # t
    <3>1. ~there
      BY <1>1, <1>2, <1>3, <2>2, RowFacts DEF Sees
    <3>2. \A c \in Conn : ~Exists(c)
      BY <3>1 DEF OwnInv, UserOutlivesSessions
    <3> QED BY <3>1, <3>2
  <2> QED BY <2>1, <2>2
<1> QED BY <1>2, <1>4, <1>5, <1>6

LEMMA CommitRows ==
    ASSUME TypeOK, ShapeInv, OwnInv, NEW t \in Tx, Commit(t)
    PROVE  /\ there' = IF tx[t].kind = "delete" THEN FALSE ELSE there
           /\ \A c \in Conn : \/ conn'[c] = conn[c]
                              \/ lock[c] = t /\ Unended(c) /\ conn'[c] \in {"open", "ended"}
                              \/ /\ conn[c] = "none" /\ conn'[c] = "open" /\ there
                                 /\ lock["user"] = t /\ tx[t].kind = "authorize"
                              \/ lock[c] = t /\ conn'[c] = "gone" /\ tx[t].kind = "delete"
           /\ \A a \in Login : \/ login'[a] = login[a]
                               \/ lock[a] = t /\ login'[a] = "gone" /\ a # tx[t].who
           /\ tx[t].kind = "delete" => \A c \in Conn : ~Exists(c)'
<1>0. Ready(t) /\ tx[t].stage = "run"
  BY DEF Commit, Ready
<1>1. CASE tx[t].kind = "authorize"
  <2>1. AuthorizeCommits(t)
    BY <1>1 DEF Commit
  <2> DEFINE swept == [c \in Conn |-> IF Sweeps(t, c) THEN "ended" ELSE conn[c]]
  <2>2. \A c \in Conn : swept[c] = conn[c]
                        \/ (lock[c] = t /\ Unended(c) /\ swept[c] = "ended")
    BY DEF Unended, Sweeps
  <2>3. swept \in [Conn -> {"none", "open", "quiet", "ended", "gone"}]
    BY DEF TypeOK
  <2>4. \/ conn' = swept
        \/ \E c \in Conn : there /\ conn[c] = "none" /\ conn' = [swept EXCEPT ![c] = "open"]
    BY <2>1 DEF AuthorizeCommits
  <2> HIDE DEF swept
  <2>5. \A c \in Conn : \/ conn'[c] = conn[c]
                        \/ lock[c] = t /\ Unended(c) /\ conn'[c] \in {"open", "ended"}
                        \/ conn[c] = "none" /\ conn'[c] = "open" /\ there
    BY <2>2, <2>3, <2>4
  <2>6. there => lock["user"] = t
    BY <1>0, <1>1, ReadyHolds
  <2> QED BY <1>1, <2>1, <2>5, <2>6 DEF AuthorizeCommits
<1>2. CASE tx[t].kind \in Ends
  <2>1. HeartbeatCommits(t) \/ CloseCommits(t)
    BY <1>2 DEF Commit, Ends
  <2>2. tx[t].who \in Conn /\ lock[tx[t].who] = t /\ Unended(tx[t].who)
    BY <1>0, <1>2, ReadyHolds
  <2>3. UNCHANGED <<there, login>>
    BY <2>1 DEF HeartbeatCommits, CloseCommits, Charge
  <2>4. \A c \in Conn : \/ conn'[c] = conn[c]
                        \/ lock[c] = t /\ Unended(c) /\ conn'[c] \in {"open", "ended"}
    BY <2>1, <2>2 DEF HeartbeatCommits, CloseCommits, TypeOK
  <2> QED BY <1>2, <2>3, <2>4 DEF Ends
<1>3. CASE tx[t].kind \in {"rotate", "reset"}
  <2>1. RotateCommits(t) \/ ResetCommits(t)
    BY <1>3 DEF Commit
  <2>2. UNCHANGED <<there, conn, login>>
    BY <2>1 DEF RotateCommits, ResetCommits
  <2> QED BY <1>3, <2>2
<1>4. CASE tx[t].kind = "delete"
  <2>1. DeleteCommits(t)
    BY <1>4 DEF Commit
  <2>2. \A c \in Conn : conn'[c] = IF lock[c] = t THEN "gone" ELSE conn[c]
    BY <2>1 DEF DeleteCommits
  <2>3. \A c \in Conn : Exists(c) => lock[c] = t
    BY <1>0, <1>4, ReadyHolds
  <2>4. \A c \in Conn : ~Exists(c)'
    BY <2>2, <2>3, ExistsFacts
  <2> QED BY <1>4, <2>1, <2>2, <2>4 DEF DeleteCommits
<1>5. CASE tx[t].kind \notin {"authorize", "rotate", "reset", "delete"} \cup Ends
  <2>1. LoginsDeleted(t)
    BY <1>5 DEF Commit, Ends
  <2> QED BY <1>5, <2>1 DEF LoginsDeleted
<1> QED BY <1>1, <1>2, <1>3, <1>4, <1>5

\* What has to be the same for a request that does not move.
LEMMA StayingSecure ==
    ASSUME NEW s \in Tx, Secure(s), Shape(s), Stays(s), there' => there,
           \A c \in Conn : lock[c] = s /\ Unended(c) => Unended(c)'
    PROVE  Secure(s)'
<1>1. /\ tx'[s] = tx[s] /\ \A r \in Row : lock'[r] = s <=> lock[r] = s
      /\ \A r \in Row : Claims(s, r)' <=> Claims(s, r)
  BY StayingClaims DEF Stays
<1> SUFFICES ASSUME tx[s].stage = "run" PROVE Secure(s)'
  BY <1>1 DEF Secure
<1> DEFINE w == tx[s].who
<1>2. w' = w
  BY <1>1
<1>3. /\ tx[s].kind \in Ends => w \in Row /\ w \in Conn
      /\ tx[s].kind \in {"rotate", "reset", "delete"} \/ w \in Login => w \in Row
  BY RowFacts DEF Shape, GatewayShape, WriterShape, DeleteShape
<1>4. tx[s].kind \in Ends => Claims(s, w)' /\ Claims(s, "user")' /\ (lock'[w] = s => Unended(w)')
  BY <1>1, <1>3, RowFacts DEF Secure
<1>5. tx[s].kind = "authorize" => ~there' \/ Claims(s, "user")'
  BY <1>1, RowFacts DEF Secure
<1>6. w \in Row => (Claims(s, w)' <=> Claims(s, w))
  BY <1>1, <1>2
<1>7. /\ tx[s].kind \in {"rotate", "reset", "delete"} => Claims(s, w)'
      /\ tx[s].kind = "rotate" => Claims(s, "user")'
      /\ tx[s].kind = "reset" /\ (\E k \in Column : tx[s].seen.used[k] # 0) => Claims(s, "user")'
      /\ tx[s].kind = "clean" /\ w \in Login => Claims(s, w)'
  BY <1>1, <1>3, <1>6, RowFacts DEF Secure
<1> QED BY <1>1, <1>2, <1>4, <1>5, <1>7 DEF Secure

LEMMA StayingSees ==
    ASSUME NEW s \in Tx, Sees(s), DeleteShape(s), Stays(s), there' => there,
           \A x \in Tx \ {s} : \A c \in Conn : Claims(x, c)' => Claims(x, c),
           lock["user"] = s => \A c \in Conn : Exists(c)' => Exists(c),
           \A c \in Conn : conn[c] = "gone" => conn'[c] = "gone"
    PROVE  Sees(s)'
<1>1. /\ tx'[s] = tx[s] /\ (lock'["user"] = s <=> lock["user"] = s)
      /\ Claims(s, "user")' <=> Claims(s, "user")
      /\ \A c \in Conn : Claims(s, c)' <=> Claims(s, c)
  BY StayingClaims, RowFacts DEF Stays
<1> SUFFICES ASSUME tx[s].kind = "delete", tx[s].stage = "run" PROVE Sees(s)'
  BY <1>1 DEF Sees
<1>2. CASE lock["user"] = s
  <2>1. tx[s].todo[3] \subseteq Conn
    BY <1>2 DEF DeleteShape
  <2>2. \A c \in Conn : Exists(c)' => Claims(s, c)'
    BY <1>1, <1>2 DEF Sees
  <2>3. \A x \in Tx \ {s} : \A c \in tx[s].todo[3] : ~Claims(x, c)'
    BY <1>2, <2>1 DEF Sees
  <2> QED BY <1>1, <1>2, <2>2, <2>3 DEF Sees
<1>3. CASE lock["user"] # s
  <2>1. \A x \in Tx \ {s} : \A c \in Conn : Claims(x, c)' => Claims(s, c)' \/ conn'[c] = "gone"
    BY <1>1, <1>3 DEF Sees
  <2>2. tx[s].todo[3] \subseteq {"user"} /\ (~there' \/ Claims(s, "user")')
    BY <1>1, <1>3 DEF Sees
  <2> QED BY <1>1, <1>3, <2>1, <2>2 DEF Sees
<1> QED BY <1>2, <1>3

\* At most one delete runs: the event loop is in it.
LEMMA OneDelete ==
    ASSUME ShapeInv, NEW s \in Tx, tx[s].kind = "delete", tx[s].stage = "run"
    PROVE  loop = s
BY DEF ShapeInv, Locking, Async

LEMMA ArriveOwn ==
    ASSUME TypeOK, Admins, ShapeInv, OwnInv, NEW t \in Tx, Arrives(t)
    PROVE  OwnInv'
<1>1. /\ UNCHANGED <<rows, lock, loop, counted>> /\ loop = None /\ tx[t].stage = "idle" /\ OthersStay(t)
  BY ArriveEffect
<1>2. \A r \in Row : lock'[r] # t
  BY <1>1 DEF ShapeInv, Locking
<1>3. UNCHANGED <<there, conn, login, lock>>
  BY <1>1 DEF rows
<1>4. /\ \A c \in Conn : Exists(c)' <=> Exists(c)
      /\ \A r \in Row : Exists(r)' <=> Exists(r)
  BY <1>3 DEF Exists
<1>5. \A s \in Tx : loop # s
  BY <1>1, NoneAssumption
<1>6. ASSUME NEW s \in Tx \ {t} PROVE Secure(s)' /\ Sees(s)'
  <2>1. Stays(s) /\ Secure(s) /\ Shape(s)
    BY <1>1 DEF OthersStay, OwnInv, ShapeInv
  <2>2. Secure(s)'
    BY <1>3, <2>1, StayingSecure DEF Unended
  <2>3. ~(tx'[s].kind = "delete" /\ tx'[s].stage = "run")
    BY <1>5, <2>1, OneDelete DEF Stays
  <2> QED BY <2>2, <2>3 DEF Sees
<1>7. Secure(t)'
  <2>1. CASE tx'[t].kind = "authorize" /\ tx'[t].todo[2] = {"user"}
    <3>1. Claims(t, "user")'
      BY <2>1, ThreeIndices DEF Claims
    <3> QED BY <2>1, <3>1 DEF Secure, Ends
  <2>2. CASE /\ tx'[t].kind \in Ends /\ tx'[t].who \in Conn
             /\ tx'[t].todo[1] = {tx'[t].who} /\ tx'[t].todo[2] = {"user"}
    <3>1. Claims(t, "user")' /\ Claims(t, tx[t].who)'
      BY <2>2, ThreeIndices DEF Claims
    <3>2. lock'[tx'[t].who] # t
      BY <1>2, <2>2, RowFacts
    <3>3. tx'[t].kind \notin {"authorize", "rotate", "reset", "delete", "clean"}
      BY <2>2 DEF Ends
    <3> QED BY <3>1, <3>2, <3>3 DEF Secure
  <2>3. CASE tx'[t].stage = "auth"
    BY <2>3 DEF Secure
  <2> QED BY <2>1, <2>2, <2>3, ArriveEffect
<1>8. Sees(t)'
  <2>1. ~(tx'[t].kind = "delete" /\ tx'[t].stage = "run")
    BY ArriveEffect DEF Ends
  <2> QED BY <2>1 DEF Sees
<1>9. Present'
  <2>1. ASSUME NEW s \in Tx, NEW r \in Row, lock'[r] = s PROVE Exists(r)'
    BY <1>3, <1>4, <2>1 DEF OwnInv, Present
  <2>2. ASSUME NEW s \in Tx \ {t}, NEW c \in Conn, Claims(s, c)' PROVE conn'[c] # "none"
    <3>1. Claims(s, c)
      BY <1>1, <2>2, StayingClaims, RowFacts DEF OthersStay
    <3> QED BY <1>3, <3>1 DEF OwnInv, Present
  <2>3. ASSUME NEW c \in Conn, Claims(t, c)' PROVE conn'[c] # "none"
    <3>1. PICK i \in Statement : c \in tx'[t].todo[i]
      BY <1>2, <2>3, RowFacts DEF Claims
    <3>2. i = 1 \/ i = 2 \/ i = 3
      BY ThreeIndices
    <3>3. conn[c] = "quiet" \/ Exists(c)
      BY <3>1, <3>2, ArriveEffect, RowFacts
    <3> QED BY <1>3, <3>3, ExistsFacts
  <2> QED BY <2>1, <2>2, <2>3 DEF Present
<1>10. UserOutlivesSessions'
  BY <1>3, <1>4 DEF OwnInv, UserOutlivesSessions
<1> QED BY <1>6, <1>7, <1>8, <1>9, <1>10 DEF OwnInv

LEMMA BeginOwn ==
    ASSUME TypeOK, Admins, ShapeInv, OwnInv, NEW t \in Tx, Begins(t)
    PROVE  OwnInv'
<1>0. tx[t].stage = "auth" /\ tx[t].who \in Login /\ tx[t].kind \in Administrative
  BY DEF Begins, BodyRuns, Scheduled, Admins
<1>1. /\ UNCHANGED <<rows, lock>> /\ loop = None /\ OthersStay(t)
      /\ tx'[t].kind = tx[t].kind /\ tx'[t].stage = "run" /\ tx'[t].todo = Plan(t)
      /\ tx'[t].who = IF Expunged(t) THEN None ELSE tx[t].who
      /\ tx'[t].seen = Seen(t)
  BY <1>0, BodyEffect
<1>2. \A r \in Row : lock'[r] # t
  BY <1>0, <1>1 DEF ShapeInv, Locking
<1>3. UNCHANGED <<there, used, conn, login, lock>>
  BY <1>1 DEF rows
<1>4. \A r \in Row : Exists(r)' <=> Exists(r)
  BY <1>3 DEF Exists
<1>5. \A s \in Tx : loop # s
  BY <1>1, NoneAssumption
<1>6. ASSUME NEW s \in Tx \ {t} PROVE Secure(s)' /\ Sees(s)'
  <2>1. Stays(s) /\ Secure(s) /\ Shape(s)
    BY <1>1 DEF OthersStay, OwnInv, ShapeInv
  <2>2. Secure(s)'
    BY <1>3, <2>1, StayingSecure DEF Unended
  <2>3. ~(tx'[s].kind = "delete" /\ tx'[s].stage = "run")
    BY <1>5, <2>1, OneDelete DEF Stays
  <2> QED BY <2>2, <2>3 DEF Sees
<1>a. PICK a \in Login : tx[t].who = a
  BY <1>0
<1> DEFINE expired == {b \in Login : login[b] = "expired"}
<1>7. \A x, i : i \in Statement /\ x \in Plan(t)[i] => Claims(t, x)'
  BY <1>1 DEF Claims
<1>8. Secure(t)'
  <2>1. CASE tx[t].kind = "rotate"
    <3>1. Plan(t) = <<{a}, {"user"}, {}>> /\ ~Expunged(t)
      BY <1>a, <2>1 DEF Plan, Expunged
    <3>2. Claims(t, a)' /\ Claims(t, "user")'
      BY <1>7, <3>1, ThreeIndices
    <3> QED BY <1>1, <1>a, <2>1, <3>1, <3>2 DEF Secure, Ends
  <2>2. CASE tx[t].kind = "reset"
    <3>1. PICK U : /\ Plan(t) = <<{a}, U, {}>>
                   /\ U = IF \E k \in Column : used[k] # 0 THEN {"user"} ELSE {}
      BY <1>a, <2>2 DEF Plan
    <3>2. ~Expunged(t)
      BY <2>2 DEF Expunged
    <3>3. Claims(t, a)' /\ ((\E k \in Column : used[k] # 0) => Claims(t, "user")')
      BY <1>7, <3>1, ThreeIndices
    <3>4. tx'[t].seen.used = used
      BY <1>1, <2>2, SeenType
    <3> QED BY <1>1, <1>a, <2>2, <3>2, <3>3, <3>4 DEF Secure, Ends
  <2>3. CASE tx[t].kind = "delete"
    <3>1. Plan(t)[1] = {a} /\ ~Expunged(t)
      BY <1>a, <2>3 DEF Plan, Expunged
    <3>2. Claims(t, a)'
      BY <1>7, <3>1, ThreeIndices
    <3> QED BY <1>1, <1>a, <2>3, <3>1, <3>2 DEF Secure, Ends
  <2>4. CASE tx[t].kind = "logout"
    BY <1>1, <1>a, <2>4 DEF Secure, Ends
  <2>5. CASE tx[t].kind = "clean"
    <3>1. Plan(t)[1] = expired /\ Plan(t)[2] = {a} \ expired
      BY <1>a, <2>5 DEF Plan
    <3>2. Claims(t, a)'
      BY <1>0, <1>7, <3>1, ThreeIndices
    <3>3. tx'[t].who \in Login => tx'[t].who = a
      <4>1. None \notin Login
        BY NoneAssumption
      <4> QED BY <1>1, <1>a, <4>1
    <3> QED BY <1>1, <1>a, <2>5, <3>2, <3>3 DEF Secure, Ends
  <2> QED BY <1>0, <2>1, <2>2, <2>3, <2>4, <2>5 DEF Administrative, OwnUpdate
<1>9. ASSUME tx[t].kind = "delete"
      PROVE  /\ tx'[t].todo[1] = {a} /\ tx'[t].todo[2] = {c \in Conn : Exists(c)}
             /\ tx'[t].todo[3] = {"user"}
  BY <1>1, <1>9, <1>a DEF Plan
<1>10. Sees(t)'
  <2> SUFFICES ASSUME tx[t].kind = "delete" PROVE Sees(t)'
    BY <1>1 DEF Sees
  <2>1. lock'["user"] # t /\ Claims(t, "user")'
    BY <1>2, <1>9, RowFacts, ThreeIndices DEF Claims
  <2>2. ASSUME NEW s \in Tx \ {t}, NEW c \in Conn, Claims(s, c)'
        PROVE  Claims(t, c)' \/ conn'[c] = "gone"
    <3>1. Claims(s, c)
      BY <1>1, <2>2, StayingClaims, RowFacts DEF OthersStay
    <3>2. conn[c] # "none"
      BY <3>1 DEF OwnInv, Present
    <3>3. Exists(c) \/ conn[c] = "gone"
      BY <3>2, ExistsFacts DEF TypeOK
    <3>4. Exists(c) => Claims(t, c)'
      BY <1>9, ThreeIndices DEF Claims
    <3> QED BY <1>3, <3>3, <3>4
  <2> QED BY <1>9, <2>1, <2>2 DEF Sees
<1>11. Present'
  <2>1. ASSUME NEW s \in Tx, NEW r \in Row, lock'[r] = s PROVE Exists(r)'
    BY <1>3, <1>4, <2>1 DEF OwnInv, Present
  <2>2. ASSUME NEW s \in Tx \ {t}, NEW c \in Conn, Claims(s, c)' PROVE conn'[c] # "none"
    <3>1. Claims(s, c)
      BY <1>1, <2>2, StayingClaims, RowFacts DEF OthersStay
    <3> QED BY <1>3, <3>1 DEF OwnInv, Present
  <2>3. ASSUME NEW c \in Conn, Claims(t, c)' PROVE conn'[c] # "none"
    <3>1. PICK i \in Statement : c \in Plan(t)[i]
      BY <1>1, <1>2, <2>3, RowFacts DEF Claims
    <3>2. i = 1 \/ i = 2 \/ i = 3
      BY ThreeIndices
    <3>3. c # "user" /\ c \notin Login
      BY RowFacts
    <3>4. tx[t].kind = "delete"
      <4>1. CASE tx[t].kind = "rotate"
        BY <1>0, <3>1, <3>2, <3>3, <4>1 DEF Plan
      <4>2. CASE tx[t].kind = "reset"
        BY <1>0, <3>1, <3>2, <3>3, <4>2 DEF Plan
      <4>3. CASE tx[t].kind = "logout"
        BY <1>0, <3>1, <3>2, <3>3, <4>3 DEF Plan
      <4>4. CASE tx[t].kind = "clean"
        BY <1>0, <3>1, <3>2, <3>3, <4>4 DEF Plan
      <4> QED BY <1>0, <4>1, <4>2, <4>3, <4>4 DEF Administrative, OwnUpdate
    <3>5. Exists(c)
      BY <1>0, <1>1, <1>9, <1>a, <3>1, <3>2, <3>3, <3>4
    <3> QED BY <1>3, <3>5, ExistsFacts
  <2> QED BY <2>1, <2>2, <2>3 DEF Present
<1>12. UserOutlivesSessions'
  BY <1>3, <1>4, RowFacts DEF OwnInv, UserOutlivesSessions
<1> QED BY <1>6, <1>8, <1>10, <1>11, <1>12 DEF OwnInv

LEMMA GivesUpOwn ==
    ASSUME TypeOK, ShapeInv, OwnInv, NEW t \in Tx, GivesUp(t)
    PROVE  OwnInv'
<1>1. /\ tx'[t] = Idle /\ OthersStay(t) /\ \A r \in Row : lock'[r] # t
      /\ UNCHANGED <<there, conn, login>>
  BY EndEffect DEF GivesUp, rows
<1>2. \A r \in Row : Exists(r)' <=> Exists(r)
  BY <1>1 DEF Exists
<1>3. \A r \in Row : ~Claims(t, r)'
  BY EndingClaims DEF GivesUp
<1>4. \A s \in Tx, c \in Conn : Claims(s, c)' => Claims(s, c)
  BY <1>1, <1>3, StayingClaims, RowFacts DEF OthersStay
<1>5. ASSUME NEW s \in Tx \ {t} PROVE Secure(s)' /\ Sees(s)'
  <2>1. Stays(s) /\ Secure(s) /\ Sees(s) /\ Shape(s) /\ DeleteShape(s)
    BY <1>1 DEF OthersStay, OwnInv, ShapeInv, Shape
  <2>2. Secure(s)'
    BY <1>1, <2>1, StayingSecure DEF Unended
  <2> QED BY <1>1, <1>2, <1>4, <2>1, <2>2, StayingSees, RowFacts
<1>6. Secure(t)' /\ Sees(t)'
  BY <1>1, IdleType DEF Secure, Sees
<1>7. Present'
  <2>1. \A s \in Tx, r \in Row : lock'[r] = s => lock[r] = s
    BY <1>1 DEF OthersStay, Stays
  <2> QED BY <1>1, <1>2, <1>4, <2>1 DEF OwnInv, Present
<1>8. UserOutlivesSessions'
  BY <1>1, <1>2, RowFacts DEF OwnInv, UserOutlivesSessions
<1> QED BY <1>5, <1>6, <1>7, <1>8 DEF OwnInv

LEMMA CommitOwn ==
    ASSUME TypeOK, ShapeInv, OwnInv, NEW t \in Tx, Commit(t)
    PROVE  OwnInv'
<1>0. End(t) /\ Ready(t)
  BY DEF Commit
<1>1. tx'[t] = Idle /\ OthersStay(t) /\ \A r \in Row : lock'[r] # t
  BY <1>0, EndEffect
<1>2. there' => there
  BY CommitRows
<1>3. \A r \in Row : ~Claims(t, r)'
  BY <1>0, EndingClaims
<1>4. \A s \in Tx, c \in Conn : Claims(s, c)' => Claims(s, c)
  BY <1>1, <1>3, StayingClaims, RowFacts DEF OthersStay
<1>5. ASSUME NEW s \in Tx \ {t} PROVE Secure(s)' /\ Sees(s)'
  <2>1. Stays(s) /\ Secure(s) /\ Sees(s) /\ Shape(s) /\ DeleteShape(s)
    BY <1>1 DEF OthersStay, OwnInv, ShapeInv, Shape
  <2>2. ASSUME NEW c \in Conn, lock[c] = s, Unended(c) PROVE Unended(c)'
    <3>1. lock[c] # t /\ conn[c] # "none"
      BY <2>2 DEF Unended
    <3>2. conn'[c] = conn[c]
      BY <3>1, CommitRows
    <3> QED BY <2>2, <3>2 DEF Unended
  <2>3. Secure(s)'
    BY <1>2, <2>1, <2>2, StayingSecure
  <2>4. ASSUME lock["user"] = s, NEW c \in Conn, Exists(c)' PROVE Exists(c)
    <3>1. lock["user"] # t /\ conn'[c] # "gone"
      BY <2>4, ExistsFacts
    <3>2. conn'[c] = conn[c] \/ Unended(c)
      BY <3>1, CommitRows
    <3> QED BY <2>4, <3>2, ExistsFacts DEF Unended
  <2>5. \A c \in Conn : conn[c] = "gone" => conn'[c] = "gone"
    BY CommitRows DEF Unended
  <2> QED BY <1>2, <1>4, <2>1, <2>3, <2>4, <2>5, StayingSees
<1>6. Secure(t)' /\ Sees(t)'
  BY <1>1, IdleType DEF Secure, Sees
<1>7. Present'
  <2>1. ASSUME NEW s \in Tx, NEW r \in Row, lock'[r] = s PROVE Exists(r)'
    <3>1. s # t /\ lock[r] = s
      BY <1>1, <2>1 DEF OthersStay, Stays
    <3>2. Exists(r)
      BY <3>1 DEF OwnInv, Present
    <3>3. CASE r = "user"
      <4>1. there
        BY <3>2, <3>3, ExistsFacts
      <4>2. tx[t].kind # "delete"
        BY <1>0, <3>1, <3>3, <4>1, ReadyHolds
      <4> QED BY <3>3, <4>1, <4>2, CommitRows, ExistsFacts
    <3>4. CASE r \in Conn
      <4>1. conn'[r] = conn[r]
        BY <3>1, <3>2, <3>4, CommitRows, ExistsFacts
      <4> QED BY <3>2, <3>4, <4>1, ExistsFacts
    <3>5. CASE r \in Login
      <4>1. login'[r] = login[r]
        BY <3>1, <3>5, CommitRows
      <4> QED BY <3>2, <3>5, <4>1, ExistsFacts
    <3> QED BY <3>3, <3>4, <3>5 DEF Row
  <2>2. ASSUME NEW s \in Tx, NEW c \in Conn, Claims(s, c)' PROVE conn'[c] # "none"
    <3>1. conn[c] # "none"
      BY <1>4, <2>2 DEF OwnInv, Present
    <3> QED BY <3>1, CommitRows
  <2> QED BY <2>1, <2>2 DEF Present
<1>8. UserOutlivesSessions'
  <2> SUFFICES ASSUME NEW c \in Conn, Exists(c)' PROVE there'
    BY DEF UserOutlivesSessions
  <2>1. tx[t].kind # "delete" /\ there' = there
    BY CommitRows
  <2>2. Exists(c) \/ there
    BY <2>1, CommitRows, ExistsFacts DEF Unended
  <2> QED BY <2>1, <2>2 DEF OwnInv, UserOutlivesSessions
<1> QED BY <1>5, <1>6, <1>7, <1>8 DEF OwnInv

\* A step of t that writes nothing and claims nothing new but what a delete
\* finds when it reaches the user.
LEMMA AdvanceOwn ==
    ASSUME TypeOK, ShapeInv, OwnInv, NEW t \in Tx, UNCHANGED <<there, conn, login>>,
           OthersStay(t), Secure(t)', Sees(t)',
           \A r \in Row : lock'[r] = t => Exists(r),
           \A c \in Conn : Claims(t, c)' => Claims(t, c) \/ (tx[t].kind = "delete" /\ tx[t].stage = "run" /\ Exists(c))
    PROVE  OwnInv'
<1>1. \A r \in Row : Exists(r)' <=> Exists(r)
  BY DEF Exists
<1>2. \A s \in Tx \ {t}, c \in Conn : Claims(s, c)' <=> Claims(s, c)
  BY StayingClaims, RowFacts DEF OthersStay
<1>3. ASSUME NEW s \in Tx \ {t} PROVE Secure(s)' /\ Sees(s)'
  <2>1. Stays(s) /\ Secure(s) /\ Sees(s) /\ Shape(s) /\ DeleteShape(s)
    BY DEF OthersStay, OwnInv, ShapeInv, Shape
  <2>2. Secure(s)'
    BY <2>1, StayingSecure DEF Unended
  <2>3. CASE tx[s].kind = "delete" /\ tx[s].stage = "run"
    <3>1. loop = s
      BY <2>3, OneDelete
    <3>2. ~(tx[t].kind = "delete" /\ tx[t].stage = "run")
      BY <3>1, OneDelete
    <3>3. \A x \in Tx \ {s} : \A c \in Conn : Claims(x, c)' => Claims(x, c)
      BY <1>2, <3>2
    <3> QED BY <1>1, <2>1, <2>2, <3>3, StayingSees, RowFacts
  <2>4. CASE ~(tx[s].kind = "delete" /\ tx[s].stage = "run")
    BY <2>1, <2>2, <2>4 DEF Sees, Stays
  <2> QED BY <2>3, <2>4
<1>4. Present'
  <2>1. ASSUME NEW s \in Tx, NEW r \in Row, lock'[r] = s PROVE Exists(r)'
    BY <1>1, <2>1 DEF OthersStay, Stays, OwnInv, Present
  <2>2. ASSUME NEW s \in Tx, NEW c \in Conn, Claims(s, c)' PROVE conn'[c] # "none"
    <3>1. Claims(s, c) \/ Exists(c)
      BY <1>2, <2>2
    <3> QED BY <3>1, ExistsFacts DEF OwnInv, Present
  <2> QED BY <2>1, <2>2 DEF Present
<1>5. UserOutlivesSessions'
  BY <1>1, RowFacts DEF OwnInv, UserOutlivesSessions
<1> QED BY <1>3, <1>4, <1>5 DEF OwnInv

LEMMA SkipOwn ==
    ASSUME TypeOK, ShapeInv, OwnInv, NEW t \in Tx, NEW r \in Row, Skips(t, r)
    PROVE  OwnInv'
<1>1. /\ UNCHANGED <<there, conn, login, lock>> /\ tx[t].stage = "run"
      /\ tx'[t].kind = tx[t].kind /\ tx'[t].who = tx[t].who /\ tx'[t].stage = "run"
      /\ tx'[t].seen = tx[t].seen
      /\ OthersStay(t) /\ lock[r] = None /\ ~Exists(r) /\ r \in Front(t)
  BY SkipEffect DEF rows
<1>2. Advances(t, r)
  BY SkipEffect DEF Advances
<1>3. /\ tx[t].kind \notin Ends
      /\ tx[t].kind \in {"rotate", "reset", "delete", "clean"} => r # tx[t].who
      /\ tx[t].kind \in {"rotate", "reset"} => r # "user"
  BY SkippedRow
<1>4. \A c \in Conn : ~there => ~Exists(c)
  BY DEF OwnInv, UserOutlivesSessions
<1>5. \A x \in Row : Claims(t, x)' => Claims(t, x)
  <2>1. CASE r = "user" /\ tx[t].kind = "delete"
    <3>1. Cascade(t) = {}
      BY <1>1, <1>4, <2>1, ExistsFacts DEF Cascade
    <3>2. \A i \in Statement : tx'[t].todo[i] = {}
      BY <1>2, <2>1, <3>1, CascadingClaims, ThreeIndices
    <3> QED BY <1>1, <3>2 DEF Claims
  <2>2. CASE ~(r = "user" /\ tx[t].kind = "delete")
    BY <1>2, <2>2, AdvancingClaims
  <2> QED BY <2>1, <2>2
<1>6. \A x \in Row \ {r, "user"} : Claims(t, x) => Claims(t, x)'
  <2>1. CASE r = "user" /\ tx[t].kind = "delete"
    BY <1>2, <2>1, CascadingClaims
  <2>2. CASE ~(r = "user" /\ tx[t].kind = "delete")
    BY <1>2, <2>2, AdvancingClaims
  <2> QED BY <2>1, <2>2
<1>7. r # "user" => (Claims(t, "user") => Claims(t, "user")')
  BY <1>2, AdvancingClaims, RowFacts
<1>8. r = "user" => ~there
  BY <1>1, ExistsFacts
<1>9. Secure(t)'
  <2> DEFINE w == tx[t].who
  <2>0. w' = w /\ Secure(t) /\ WriterShape(t) /\ DeleteShape(t)
    BY <1>1 DEF OwnInv, ShapeInv, Shape
  <2>1. tx[t].kind \in {"rotate", "reset", "delete"} => w \in Login
    BY <1>1, <2>0 DEF WriterShape, DeleteShape
  <2>2. (tx[t].kind \in {"rotate", "reset", "delete"} \/ (tx[t].kind = "clean" /\ w \in Login))
           => Claims(t, w)'
    <3> SUFFICES ASSUME tx[t].kind \in {"rotate", "reset", "delete"} \/ (tx[t].kind = "clean" /\ w \in Login)
                 PROVE  Claims(t, w)'
      OBVIOUS
    <3>1. w \in Login /\ Claims(t, w) /\ r # w
      BY <1>1, <1>3, <2>0, <2>1 DEF Secure
    <3>2. w \in Row \ {r, "user"}
      BY <3>1, RowFacts
    <3> QED BY <1>6, <2>0, <3>1, <3>2
  <2>3. tx[t].kind = "authorize" => ~there \/ Claims(t, "user")'
    BY <1>1, <1>7, <1>8, <2>0 DEF Secure
  <2>4. /\ tx[t].kind = "rotate" => Claims(t, "user")'
        /\ tx[t].kind = "reset" /\ (\E k \in Column : tx[t].seen.used[k] # 0) => Claims(t, "user")'
    BY <1>1, <1>3, <1>7, <2>0 DEF Secure
  <2> QED BY <1>1, <1>3, <2>0, <2>2, <2>3, <2>4 DEF Secure
<1>10. Sees(t)'
  <2> SUFFICES ASSUME tx[t].kind = "delete" PROVE Sees(t)'
    BY <1>1 DEF Sees
  <2>0. Sees(t) /\ DeleteShape(t)
    BY DEF OwnInv, ShapeInv, Shape
  <2>1. CASE lock["user"] = t
    <3>1. \A c \in Conn : Exists(c)' => Claims(t, c)'
      BY <1>1, <1>6, <2>0, <2>1, RowFacts, ExistsFacts DEF Sees
    <3>2. r # "user"
      BY <1>1, <2>1, NoneAssumption
    <3>3. tx'[t].todo[3] \subseteq tx[t].todo[3] /\ tx[t].todo[3] \subseteq Conn
      BY <1>1, <1>2, <2>0, <2>1, <3>2, RestType, ThreeIndices DEF Advances, DeleteShape
    <3>4. \A s \in Tx \ {t} : \A c \in tx'[t].todo[3] : ~Claims(s, c)'
      BY <1>1, <2>0, <2>1, <3>3, StayingClaims, RowFacts DEF Sees, OthersStay
    <3> QED BY <1>1, <2>1, <3>1, <3>4 DEF Sees
  <2>2. CASE lock["user"] # t
    <3>1. tx[t].todo[3] \subseteq {"user"} /\ (~there \/ Claims(t, "user"))
      BY <1>1, <2>0, <2>2 DEF Sees
    <3>2. tx'[t].todo[3] \subseteq {"user"}
      <4>1. CASE r = "user"
        <5>1. Cascade(t) = {}
          BY <1>4, <1>8, <4>1 DEF Cascade
        <5> QED BY <1>2, <4>1, <5>1, CascadingClaims
      <4>2. CASE r # "user"
        BY <1>2, <3>1, <4>2, RestType, ThreeIndices DEF Advances
      <4> QED BY <4>1, <4>2
    <3>3. ~there' \/ Claims(t, "user")'
      BY <1>1, <1>7, <1>8, <3>1
    <3>4. ASSUME NEW s \in Tx \ {t}, NEW c \in Conn, Claims(s, c)'
          PROVE  Claims(t, c)' \/ conn'[c] = "gone"
      <4>1. Claims(s, c)
        BY <1>1, <3>4, StayingClaims, RowFacts DEF OthersStay
      <4>2. Claims(t, c) \/ conn[c] = "gone"
        BY <1>1, <2>0, <2>2, <4>1 DEF Sees
      <4>3. CASE c = r
        <5>1. conn[c] # "none" /\ ~Exists(c)
          BY <1>1, <4>1, <4>3 DEF OwnInv, Present
        <5>2. conn[c] = "gone"
          BY <5>1, ExistsFacts DEF TypeOK
        <5> QED BY <1>1, <5>2
      <4>4. CASE c # r
        BY <1>1, <1>6, <4>2, <4>4, RowFacts
      <4> QED BY <4>3, <4>4
    <3> QED BY <1>1, <2>2, <3>2, <3>3, <3>4 DEF Sees
  <2> QED BY <2>1, <2>2
<1>11. \A x \in Row : lock'[x] = t => Exists(x)
  BY <1>1 DEF OwnInv, Present
<1> QED BY <1>1, <1>5, <1>9, <1>10, <1>11, AdvanceOwn, RowFacts

LEMMA LockOwn ==
    ASSUME TypeOK, ShapeInv, OwnInv, NEW t \in Tx, NEW r \in Row, Lock(t, r)
    PROVE  OwnInv'
<1>1. /\ UNCHANGED <<there, conn, login>> /\ tx[t].stage = "run"
      /\ tx'[t].kind = tx[t].kind /\ tx'[t].who = tx[t].who
      /\ OthersStay(t) /\ lock[r] = None /\ lock'[r] = t /\ Exists(r) /\ r \in Front(t)
      /\ \A x \in Row \ {r} : lock'[x] = lock[x]
  BY LockEffect DEF rows
<1>2. \A x \in Row : lock'[x] = t => Exists(x)
  BY <1>1 DEF OwnInv, Present
<1>3. \A x \in Row : Exists(x)' <=> Exists(x)
  BY <1>1 DEF Exists
<1>4. CASE Returns(t, r)
  <2>1. tx'[t].stage = "returned" /\ \A i \in Statement : tx'[t].todo[i] = {}
    BY <1>4, LockEffect, IdleType
  <2>2. \A x \in Row : Claims(t, x)' => Claims(t, x)
    <3>1. Claims(t, r)
      BY <1>1 DEF Claims, Front
    <3> QED BY <1>1, <2>1, <3>1 DEF Claims
  <2>3. Secure(t)' /\ Sees(t)'
    BY <2>1 DEF Secure, Sees
  <2> QED BY <1>1, <1>2, <2>2, <2>3, AdvanceOwn, RowFacts
<1>5. ASSUME ~Returns(t, r)
      PROVE  /\ Advances(t, r) /\ tx'[t].stage = "run"
             /\ tx'[t].seen.used = IF ReadsUser(t, r) THEN used ELSE tx[t].seen.used
  BY <1>1, <1>5, LockEffect DEF Advances
<1>6. CASE ~Returns(t, r) /\ r = "user" /\ tx[t].kind = "delete"
  <2>0. Advances(t, "user") /\ tx'[t].stage = "run"
    BY <1>5, <1>6
  <2>1. /\ lock["user"] # t /\ tx'[t].todo[3] = Cascade(t)
        /\ \A x \in Row \ {"user"} : Claims(t, x) <=> lock[x] = t
        /\ \A x \in Row \ {"user"} : Claims(t, x)' <=> lock[x] = t \/ x \in Cascade(t)
    BY <1>6, <2>0, CascadingClaims
  <2>2. Secure(t)'
    <3> DEFINE w == tx[t].who
    <3>1. w' = w /\ w \in Login /\ Claims(t, w)
      BY <1>1, <1>6 DEF OwnInv, Secure, ShapeInv, Shape, DeleteShape
    <3>2. Claims(t, w)'
      BY <2>1, <3>1, RowFacts
    <3> QED BY <1>1, <1>6, <3>1, <3>2 DEF Secure, Ends
  <2>3. Sees(t)'
    <3>1. \A c \in Conn : Exists(c)' => Claims(t, c)'
      BY <1>3, <2>1, RowFacts DEF Cascade
    <3>2. ASSUME NEW s \in Tx \ {t}, NEW c \in Cascade(t) PROVE ~Claims(s, c)'
      <4>1. c \in Conn /\ Exists(c) /\ lock[c] # t
        BY DEF Cascade
      <4>2. ~Claims(t, c) /\ conn[c] # "gone"
        BY <2>1, <4>1, RowFacts, ExistsFacts
      <4>3. ~Claims(s, c)
        BY <1>1, <1>6, <2>1, <4>1, <4>2 DEF OwnInv, Sees
      <4> QED BY <1>1, <4>1, <4>3, StayingClaims, RowFacts DEF OthersStay
    <3> QED BY <1>1, <1>6, <2>1, <3>1, <3>2 DEF Sees
  <2>4. \A c \in Conn : Claims(t, c)' => Claims(t, c) \/ Exists(c)
    BY <2>1, RowFacts DEF Cascade
  <2> QED BY <1>1, <1>2, <1>6, <2>2, <2>3, <2>4, AdvanceOwn
<1>7. CASE ~Returns(t, r) /\ ~(r = "user" /\ tx[t].kind = "delete")
  <2>0. /\ Advances(t, r) /\ tx'[t].stage = "run"
        /\ tx'[t].seen.used = IF ReadsUser(t, r) THEN used ELSE tx[t].seen.used
    BY <1>5, <1>7
  <2>1. \A x \in Row : Claims(t, x)' <=> Claims(t, x)
    BY <1>1, <1>7, <2>0, AdvancingClaims
  <2>2. Secure(t)'
    <3> DEFINE w == tx[t].who
    <3>1. w' = w /\ Secure(t) /\ Shape(t)
      BY <1>1 DEF OwnInv, ShapeInv
    <3>2. /\ tx[t].kind \in Ends => w \in Conn
          /\ tx[t].kind \in {"rotate", "reset", "delete"} => w \in Login
      BY <1>1, <3>1 DEF Shape, GatewayShape, WriterShape, DeleteShape
    <3>3. /\ tx[t].kind \in Ends \cup {"rotate", "reset", "delete"} => Claims(t, w)'
          /\ tx[t].kind = "clean" /\ w \in Login => Claims(t, w)'
      BY <1>1, <2>1, <3>1, <3>2, RowFacts DEF Secure
    <3>4. tx[t].kind \in Ends => (lock'[w] = t => Unended(w)')
      <4> SUFFICES ASSUME tx[t].kind \in Ends, lock'[w] = t PROVE Unended(w)'
        OBVIOUS
      <4>1. CASE w = r
        <5>1. Unended(w)
          BY <1>7, <3>2, <4>1 DEF Returns, Ends
        <5> QED BY <1>1, <3>1, <5>1 DEF Unended
      <4>2. CASE w # r
        <5>1. lock[w] = t
          BY <1>1, <3>2, <4>2, RowFacts
        <5>2. Unended(w)
          BY <1>1, <3>1, <5>1 DEF Secure
        <5> QED BY <1>1, <3>1, <5>2 DEF Unended
      <4> QED BY <4>1, <4>2
    <3>5. /\ tx[t].kind \in Ends => Claims(t, "user")'
          /\ tx[t].kind = "authorize" => ~there' \/ Claims(t, "user")'
          /\ tx[t].kind = "rotate" => Claims(t, "user")'
      BY <1>1, <2>1, <3>1, RowFacts DEF Secure
    <3>6. tx[t].kind = "reset" /\ (\E k \in Column : tx'[t].seen.used[k] # 0) => Claims(t, "user")'
      <4>1. tx[t].kind = "reset" => tx'[t].seen.used = tx[t].seen.used
        BY <2>0 DEF ReadsUser
      <4> QED BY <1>1, <2>1, <3>1, <4>1, RowFacts DEF Secure
    <3> QED BY <1>1, <3>1, <3>3, <3>4, <3>5, <3>6 DEF Secure, Ends
  <2>3. Sees(t)'
    <3> SUFFICES ASSUME tx[t].kind = "delete" PROVE Sees(t)'
      BY <1>1 DEF Sees
    <3>0. Sees(t) /\ DeleteShape(t) /\ r # "user"
      BY <1>7 DEF OwnInv, ShapeInv, Shape
    <3>1. lock'["user"] = t <=> lock["user"] = t
      BY <1>1, <3>0, RowFacts
    <3>2. tx'[t].todo[3] \subseteq tx[t].todo[3]
      BY <2>0, <3>0, RestType, ThreeIndices DEF Advances
    <3>3. CASE lock["user"] = t
      <4>1. \A c \in Conn : Exists(c)' => Claims(t, c)'
        BY <1>1, <1>3, <2>1, <3>0, <3>3, RowFacts DEF Sees
      <4>2. tx[t].todo[3] \subseteq Conn
        BY <1>1, <3>0, <3>3 DEF DeleteShape
      <4>3. \A s \in Tx \ {t} : \A c \in tx'[t].todo[3] : ~Claims(s, c)'
        BY <1>1, <3>0, <3>2, <3>3, <4>2, StayingClaims, RowFacts DEF Sees, OthersStay
      <4> QED BY <3>1, <3>3, <4>1, <4>3 DEF Sees
    <3>4. CASE lock["user"] # t
      <4>1. tx'[t].todo[3] \subseteq {"user"} /\ (~there' \/ Claims(t, "user")')
        BY <1>1, <2>1, <3>0, <3>2, <3>4, RowFacts DEF Sees
      <4>2. \A s \in Tx \ {t} : \A c \in Conn : Claims(s, c)' => Claims(t, c)' \/ conn'[c] = "gone"
        BY <1>1, <2>1, <3>0, <3>4, StayingClaims, RowFacts DEF Sees, OthersStay
      <4> QED BY <3>1, <3>4, <4>1, <4>2 DEF Sees
    <3> QED BY <3>3, <3>4
  <2> QED BY <1>1, <1>2, <2>1, <2>2, <2>3, AdvanceOwn, RowFacts
<1> QED BY <1>4, <1>6, <1>7

LEMMA ElsewhereOwn ==
    ASSUME TypeOK, ShapeInv, OwnInv, Elsewhere
    PROVE  OwnInv'
<1>1. /\ UNCHANGED <<there, lock, tx>>
      /\ \A c \in Conn : conn'[c] = conn[c] \/ (conn[c] = "open" /\ conn'[c] = "quiet")
      /\ \A a \in Login : login[a] \in {"live", "expired"} => login'[a] \in {"live", "expired"}
  BY ElsewhereEffect
<1>2. \A c \in Conn : /\ Exists(c)' <=> Exists(c)
                      /\ Unended(c) => Unended(c)'
                      /\ conn[c] = "gone" => conn'[c] = "gone"
                      /\ conn[c] # "none" => conn'[c] # "none"
  BY <1>1, ExistsFacts DEF Unended
<1>3. \A r \in Row : Exists(r) => Exists(r)'
  BY <1>1, <1>2, ExistsFacts DEF Row
<1>4. \A s \in Tx : Stays(s)
  BY <1>1 DEF Stays
<1>5. \A s \in Tx, c \in Conn : Claims(s, c)' <=> Claims(s, c)
  BY <1>4, StayingClaims, RowFacts
<1>6. ASSUME NEW s \in Tx PROVE Secure(s)' /\ Sees(s)'
  <2>1. Secure(s) /\ Sees(s) /\ Shape(s) /\ DeleteShape(s)
    BY DEF OwnInv, ShapeInv, Shape
  <2> QED BY <1>1, <1>2, <1>4, <1>5, <2>1, StayingSecure, StayingSees
<1>7. Present'
  BY <1>1, <1>2, <1>3, <1>5 DEF OwnInv, Present
<1>8. UserOutlivesSessions'
  BY <1>1, <1>2 DEF OwnInv, UserOutlivesSessions
<1> QED BY <1>6, <1>7, <1>8 DEF OwnInv

LEMMA OwnStep ==
    ASSUME TypeOK, Admins, ShapeInv, OwnInv, [Next]_vars
    PROVE  OwnInv'
BY ArriveOwn, BeginOwn, GivesUpOwn, CommitOwn, SkipOwn, LockOwn, ElsewhereOwn, StepForms

LEMMA OwnFirst == Init => OwnInv
<1> SUFFICES ASSUME Init PROVE OwnInv
  OBVIOUS
<1>1. /\ \A t \in Tx : tx[t].stage = "idle" /\ \A i \in Statement : tx[t].todo[i] = {}
      /\ \A t \in Tx, r \in Row : lock[r] # t
      /\ there
  BY IdleType, NoneAssumption DEF Init
<1>2. \A t \in Tx, c \in Conn : ~Claims(t, c)
  BY <1>1, RowFacts DEF Claims
<1> QED BY <1>1, <1>2 DEF OwnInv, UserOutlivesSessions, Present, Secure, Sees

Known == TypeOK /\ Admins /\ ShapeInv /\ OwnInv

LEMMA KnownAlways == Spec => []Known
<1>1. Init => Known
  BY TypeInit, ShapeFirst, OwnFirst DEF Known
<1>2. Known /\ [Next]_vars => Known'
  BY TypeStep, ShapeStep, OwnStep DEF Known
<1> QED BY <1>1, <1>2, PTL DEF Spec

\* A delete of the user leaves no session behind, not even one that an
\* authorize inserts while the delete waits for the user's row.
THEOREM SessionsHaveUser == Spec => []UserOutlivesSessions
<1>1. Known => UserOutlivesSessions
  BY DEF Known, OwnInv
<1> QED BY <1>1, KnownAlways, PTL

\* A heartbeat or a close that waited for a session does not reopen it: it has
\* looked at the row again under its lock.
THEOREM EndedSessionsStay == Spec => EndedStaysEnded
<1>1. Known /\ [Next]_vars =>
         [\A c \in Conn : conn[c] \in {"ended", "gone"} => conn'[c] \in {conn[c], "gone"}]_vars
  <2> SUFFICES ASSUME Known, [Next]_vars, NEW c \in Conn, conn[c] \in {"ended", "gone"}
               PROVE  conn'[c] \in {conn[c], "gone"}
    OBVIOUS
  <2>0. TypeOK /\ Admins /\ ShapeInv /\ OwnInv
    BY DEF Known
  <2>1. ASSUME NEW t \in Tx, Commit(t) PROVE conn'[c] \in {conn[c], "gone"}
    BY <2>0, <2>1, CommitRows DEF Unended
  <2>2. ASSUME NEW t \in Tx, Arrives(t) \/ GivesUp(t) PROVE conn' = conn
    BY <2>0, <2>2, ArriveEffect DEF GivesUp, rows
  <2>3. ASSUME NEW t \in Tx, Begins(t) PROVE conn' = conn
    BY <2>3 DEF Begins, BodyRuns, rows
  <2>4. ASSUME NEW t \in Tx, NEW r \in Row, Lock(t, r) \/ Skips(t, r) PROVE conn' = conn
    BY <2>4 DEF Lock, Skips, Miss, rows
  <2>5. CASE Elsewhere
    BY <2>0, <2>5, ElsewhereEffect
  <2> QED BY <2>1, <2>2, <2>3, <2>4, <2>5, StepForms
<1> QED BY <1>1, KnownAlways, PTL DEF Spec, EndedStaysEnded

\* What a logged-out administrator had asked for is not committed.
THEOREM RevokedSessionsWriteNothing == Spec => RevokedSessionWritesNothing
<1>1. Known /\ [Next]_vars =>
         [\A t \in Tx : Commit(t) /\ tx[t].who \in Login => Exists(tx[t].who)]_vars
  <2> SUFFICES ASSUME Known, NEW t \in Tx, Commit(t), tx[t].who \in Login
               PROVE  Exists(tx[t].who)
    OBVIOUS
  <2>0. TypeOK /\ Admins /\ ShapeInv /\ OwnInv /\ Ready(t)
    BY DEF Known, Commit
  <2> DEFINE w == tx[t].who
  <2>1. tx[t].stage = "run" /\ Secure(t) /\ Shape(t) /\ tx[t].kind \in Kind /\ tx[t].kind # "none"
    BY <2>0, RequestFields DEF Ready, OwnInv, ShapeInv, Locking, TypeOK
  <2>2. w \notin Conn /\ w # None
    BY RowAssumption, NoneAssumption
  <2>3. tx[t].kind \notin Ends /\ tx[t].kind # "logout"
    BY <2>1, <2>2 DEF Shape, GatewayShape, LogoutShape
  <2>4. tx[t].kind # "authorize"
    BY <2>1, <2>2 DEF Shape, SweepShape
  <2>5. Claims(t, w)
    BY <2>1, <2>3, <2>4 DEF Secure, Kind, Gateway, Administrative, OwnUpdate, Ends
  <2>6. lock[w] = t
    BY <2>0, <2>5, ReadyHolds, RowFacts
  <2> QED BY <2>0, <2>6, RowFacts DEF OwnInv, Present
<1> QED BY <1>1, KnownAlways, PTL DEF Spec, RevokedSessionWritesNothing
-----------------------------------------------------------------------------
(***************************************************************************)
(* The limit on addresses.  While an authorize holds the user, what it has *)
(* read of the user's sessions stays true: whoever would end or insert a   *)
(* session has to hold the user when it commits.                           *)
(***************************************************************************)
Reads(t) ==
    tx[t].kind = "authorize" /\ tx[t].stage = "run" /\ lock["user"] = t =>
        /\ counted \subseteq Live
        /\ \A c \in Conn : Unended(c) /\ ~Sweeps(t, c) => IpOf[c] \in counted

ReadInv == \A t \in Tx : Reads(t)

\* Of the sessions of a user that another request holds, a commit changes none.
LEMMA OthersHoldUser ==
    ASSUME Known, NEW t \in Tx, Commit(t), NEW s \in Tx \ {t}, lock["user"] = s
    PROVE  \A c \in Conn : conn'[c] = conn[c]
<1>0. TypeOK /\ ShapeInv /\ OwnInv /\ Ready(t) /\ tx[t].stage = "run"
  BY DEF Known, Commit, Ready
<1>1. there
  BY <1>0, RowFacts, ExistsFacts DEF OwnInv, Present
<1>2. tx[t].kind \notin Ends \cup {"authorize", "delete"}
  BY <1>0, <1>1, ReadyHolds
<1> QED BY <1>2 DEF Commit, Ends, RotateCommits, ResetCommits, LoginsDeleted

\* What a request read stays true as long as the sessions only fall quiet.
LEMMA StayingReads ==
    ASSUME NEW s \in Tx, Reads(s), Stays(s),
           lock["user"] = s =>
              /\ counted' = counted
              /\ \A c \in Conn : conn'[c] = conn[c] \/ (conn[c] = "open" /\ conn'[c] = "quiet")
    PROVE  Reads(s)'
<1> SUFFICES ASSUME tx'[s].kind = "authorize", tx'[s].stage = "run", lock'["user"] = s
             PROVE  /\ counted' \subseteq Live'
                    /\ \A c \in Conn : Unended(c)' /\ ~Sweeps(s, c)' => IpOf[c] \in counted'
  BY DEF Reads
<1>1. /\ tx[s].kind = "authorize" /\ tx[s].stage = "run" /\ lock["user"] = s
      /\ \A c \in Conn : lock'[c] = s <=> lock[c] = s
  BY RowFacts DEF Stays
<1>2. \A c \in Conn : (Unended(c)' <=> Unended(c)) /\ (Sweeps(s, c) => Sweeps(s, c)')
  BY <1>1 DEF Unended, Sweeps
<1>3. counted \subseteq Live /\ \A c \in Conn : Unended(c) /\ ~Sweeps(s, c) => IpOf[c] \in counted
  BY <1>1 DEF Reads
<1>4. Live' = Live
  BY <1>2 DEF Live
<1> QED BY <1>1, <1>2, <1>3, <1>4

LEMMA ReadStep ==
    ASSUME Known, Known', ReadInv, [Next]_vars
    PROVE  ReadInv'
<1>0. /\ TypeOK /\ Admins /\ ShapeInv /\ OwnInv /\ Locking
      /\ \A s \in Tx : Reads(s)
  BY DEF Known, ReadInv, ShapeInv
<1>1. ASSUME NEW t \in Tx, OthersStay(t), counted' = counted, conn' = conn, Reads(t)'
      PROVE  ReadInv'
  <2>1. \A s \in Tx \ {t} : Reads(s)'
    BY <1>0, <1>1, StayingReads DEF OthersStay
  <2> QED BY <1>1, <2>1 DEF ReadInv
<1>2. ASSUME NEW t \in Tx, Arrives(t) PROVE ReadInv'
  <2>1. /\ UNCHANGED <<conn, lock, counted>> /\ OthersStay(t) /\ tx[t].stage = "idle"
    BY <1>0, <1>2, ArriveEffect DEF rows
  <2>2. lock'["user"] # t
    BY <1>0, <2>1, RowFacts DEF Locking
  <2> QED BY <1>1, <2>1, <2>2 DEF Reads
<1>3. ASSUME NEW t \in Tx, Begins(t) PROVE ReadInv'
  <2>1. tx[t].stage = "auth" /\ tx[t].who \in Login /\ tx[t].kind \in Administrative
    BY <1>0, <1>3 DEF Begins, BodyRuns, Scheduled, Admins
  <2>2. UNCHANGED <<conn, counted>> /\ OthersStay(t) /\ tx'[t].kind = tx[t].kind
    BY <1>0, <1>3, <2>1, BodyEffect DEF rows
  <2>3. tx[t].kind # "authorize"
    BY <2>1 DEF Administrative, OwnUpdate
  <2> QED BY <1>1, <2>2, <2>3 DEF Reads
<1>4. ASSUME NEW t \in Tx, End(t),
             \A s \in Tx \ {t} : lock["user"] = s => \A c \in Conn : conn'[c] = conn[c]
      PROVE  ReadInv'
  <2>1. /\ OthersStay(t) /\ \A r \in Row : lock'[r] # t
        /\ counted' = IF lock["user"] = t THEN {} ELSE counted
    BY <1>0, <1>4, EndEffect
  <2>2. Reads(t)'
    BY <2>1, RowFacts DEF Reads
  <2>3. ASSUME NEW s \in Tx \ {t} PROVE Reads(s)'
    BY <1>0, <1>4, <2>1, StayingReads DEF OthersStay
  <2> QED BY <2>2, <2>3 DEF ReadInv
<1>5. ASSUME NEW t \in Tx, GivesUp(t) PROVE ReadInv'
  BY <1>4, <1>5 DEF GivesUp, rows
<1>6. ASSUME NEW t \in Tx, Commit(t) PROVE ReadInv'
  BY <1>4, <1>6, OthersHoldUser DEF Commit
<1>7. ASSUME NEW t \in Tx, NEW r \in Row, Lock(t, r) PROVE ReadInv'
  <2>1. /\ UNCHANGED conn /\ OthersStay(t) /\ tx'[t].kind = tx[t].kind /\ tx[t].stage = "run"
        /\ lock[r] = None /\ lock'[r] = t /\ \A x \in Row \ {r} : lock'[x] = lock[x]
        /\ counted' = IF ReadsSessions(t, r) THEN Counted(t) ELSE counted
    BY <1>0, <1>7, LockEffect DEF rows
  <2>2. /\ \A c \in Conn : Unended(c)' <=> Unended(c)
        /\ \A c \in Conn : Sweeps(t, c) => Sweeps(t, c)'
        /\ Live' = Live
    BY <2>1, NoneAssumption, RowFacts DEF Unended, Sweeps, Live
  <2>3. CASE ReadsSessions(t, r)
    <3>1. Counted(t) \subseteq Live /\ \A c \in Conn : Unended(c) /\ ~Sweeps(t, c) => IpOf[c] \in Counted(t)
      BY DEF Counted, Live
    <3>2. Reads(t)'
      BY <2>1, <2>2, <2>3, <3>1 DEF Reads
    <3>3. \A s \in Tx \ {t} : lock["user"] # s
      BY <2>1, <2>3, NoneAssumption DEF ReadsSessions
    <3>4. ASSUME NEW s \in Tx \ {t} PROVE Reads(s)'
      BY <1>0, <2>1, <3>3, StayingReads DEF OthersStay
    <3> QED BY <3>2, <3>4 DEF ReadInv
  <2>4. CASE ~ReadsSessions(t, r)
    <3>1. ASSUME tx[t].kind = "authorize", lock'["user"] = t PROVE lock["user"] = t
      BY <2>1, <2>4, <3>1, RowFacts DEF ReadsSessions
    <3>2. Reads(t)'
      BY <1>0, <2>1, <2>2, <2>4, <3>1 DEF Reads
    <3> QED BY <1>1, <2>1, <2>4, <3>2
  <2> QED BY <2>3, <2>4
<1>8. ASSUME NEW t \in Tx, NEW r \in Row, Skips(t, r) PROVE ReadInv'
  <2>1. /\ UNCHANGED <<conn, lock, counted>> /\ OthersStay(t)
        /\ tx'[t].kind = tx[t].kind /\ tx[t].stage = "run"
    BY <1>0, <1>8, SkipEffect DEF rows
  <2>2. Live' = Live /\ \A c \in Conn : (Unended(c)' <=> Unended(c)) /\ (Sweeps(t, c)' <=> Sweeps(t, c))
    BY <2>1 DEF Live, Unended, Sweeps
  <2>3. Reads(t)'
    BY <1>0, <2>1, <2>2 DEF Reads
  <2> QED BY <1>1, <2>1, <2>3
<1>9. CASE Elsewhere
  <2>1. /\ UNCHANGED <<lock, tx, counted>>
        /\ \A c \in Conn : conn'[c] = conn[c] \/ (conn[c] = "open" /\ conn'[c] = "quiet")
    BY <1>0, <1>9, ElsewhereEffect
  <2>2. ASSUME NEW s \in Tx PROVE Reads(s)'
    BY <1>0, <2>1, StayingReads DEF Stays
  <2> QED BY <2>2 DEF ReadInv
<1> QED BY <1>2, <1>3, <1>5, <1>6, <1>7, <1>8, <1>9, StepForms

LEMMA ReadAlways == Spec => []ReadInv
<1>1. Init => ReadInv
  <2> SUFFICES ASSUME Init PROVE ReadInv
    OBVIOUS
  <2>1. \A t \in Tx : tx[t].stage = "idle"
    BY IdleType DEF Init
  <2> QED BY <2>1 DEF ReadInv, Reads
<1>2. Known /\ Known' /\ ReadInv /\ [Next]_vars => ReadInv'
  BY ReadStep
<1> QED BY <1>1, <1>2, KnownAlways, PTL DEF Spec

LEMMA FiniteAddresses == IsFiniteSet({IpOf[c] : c \in Conn})
<1> DEFINE T == {IpOf[c] : c \in Conn}
           f == [c \in Conn |-> IpOf[c]]
<1>1. f \in Surjection(Conn, T)
  BY DEF Surjection
<1> QED BY <1>1, FS_Surjection, LimitAssumption

\* Two authorizes at once do not both take the last place under max_ips: the
\* second waits for the user, and counts what the first has inserted.
THEOREM AdmissionsWithinLimit == Spec => AdmittedWithinLimit
<1>1. ASSUME Known, ReadInv, NEW t \in Tx, NEW c \in Conn,
             Commit(t), conn[c] = "none", conn'[c] = "open", IpOf[c] \notin Live
      PROVE  Cardinality(Live') <= MaxIps
  <2>0. TypeOK /\ ShapeInv /\ OwnInv /\ tx[t].stage = "run"
    BY <1>1 DEF Known, Commit, Ready
  <2>1. tx[t].kind = "authorize" /\ lock["user"] = t
    BY <1>1, <2>0, CommitRows DEF Unended
  <2>2. /\ counted \subseteq Live
        /\ \A d \in Conn : Unended(d) /\ ~Sweeps(t, d) => IpOf[d] \in counted
    BY <1>1, <2>0, <2>1 DEF ReadInv, Reads
  <2> DEFINE swept == [d \in Conn |-> IF Sweeps(t, d) THEN "ended" ELSE conn[d]]
  <2>3. PICK e \in Conn : /\ IpOf[e] \in counted \/ Cardinality(counted) < MaxIps
                          /\ conn' = [swept EXCEPT ![e] = "open"]
    <3>1. conn' # swept
      BY <1>1
    <3> QED BY <1>1, <2>1, <3>1 DEF Commit, AuthorizeCommits
  <2>4. \A d \in Conn \ {e} : conn'[d] = swept[d]
    BY <2>3
  <2>5. e = c
    <3>1. swept[c] # "open"
      BY <1>1
    <3> QED BY <1>1, <2>4, <3>1
  <2>6. Cardinality(counted) < MaxIps
    BY <1>1, <2>2, <2>3, <2>5
  <2>7. Live' \subseteq counted \cup {IpOf[c]}
    <3>1. ASSUME NEW d \in Conn, Unended(d)', d # c PROVE IpOf[d] \in counted
      <4>1. Unended(d) /\ ~Sweeps(t, d)
        BY <2>4, <2>5, <3>1 DEF Unended
      <4> QED BY <2>2, <4>1
    <3> QED BY <3>1 DEF Live
  <2>8. IsFiniteSet(counted) /\ Cardinality(counted) \in Nat
    BY <2>0, FiniteAddresses, FS_Subset, FS_CardinalityType DEF TypeOK
  <2>9. /\ IsFiniteSet(counted \cup {IpOf[c]})
        /\ Cardinality(counted \cup {IpOf[c]}) <= Cardinality(counted) + 1
    BY <2>8, FS_AddElement
  <2>10. /\ Cardinality(Live') <= Cardinality(counted \cup {IpOf[c]})
         /\ Cardinality(Live') \in Nat /\ Cardinality(counted \cup {IpOf[c]}) \in Nat
    BY <2>7, <2>9, FS_Subset, FS_CardinalityType
  <2> QED BY <2>6, <2>8, <2>9, <2>10, LimitAssumption
<1>2. Known /\ ReadInv /\ [Next]_vars =>
         [\A t \in Tx, c \in Conn :
             Commit(t) /\ conn[c] = "none" /\ conn'[c] = "open" =>
                 IpOf[c] \in Live \/ Cardinality(Live') <= MaxIps]_vars
  BY <1>1
<1> QED BY <1>2, KnownAlways, ReadAlways, PTL DEF Spec, AdmittedWithinLimit
-----------------------------------------------------------------------------
(***************************************************************************)
(* The counters: a heartbeat or a close that has locked the user has read  *)
(* what is in them, and a reset knows a report that is not newer than the  *)
(* one it found.                                                           *)
(***************************************************************************)
Counting(t) ==
    /\ tx[t].kind \in Ends /\ tx[t].stage = "run" /\ lock["user"] = t =>
          tx[t].seen.used = used
    /\ tx[t].kind = "reset" /\ tx[t].stage = "run" =>
          \A k \in Column :
             /\ tx[t].seen.reported[k] <= reported[k]
             /\ tx[t].seen.used[k] = 0 => used[k] + tx[t].seen.reported[k] <= reported[k]

CountInv == CountersKept /\ \A t \in Tx : Counting(t)

\* What a commit does to the counters: only the request that has locked the
\* user changes them, and it charges what is reported or takes away.
LEMMA CommitCounts ==
    ASSUME Known, CountInv, NEW t \in Tx, Commit(t)
    PROVE  /\ CountersKept'
           /\ used' = used \/ lock["user"] = t
           /\ \A k \in Column : /\ reported[k] <= reported'[k]
                                /\ reported'[k] - used'[k] >= reported[k] - used[k]
<1>0. TypeOK /\ ShapeInv /\ OwnInv /\ CountersKept /\ Counting(t) /\ Ready(t) /\ tx[t].stage = "run"
  BY DEF Known, CountInv, Commit, Ready
<1>1. /\ used \in [Column -> Nat] /\ reported \in [Column -> Nat] /\ forgiven \in [Column -> Nat]
      /\ tx[t].seen.used \in [Column -> Nat]
  BY <1>0, RequestFields DEF TypeOK, Sight
<1>2. CASE tx[t].kind \in Ends
  <2>1. lock["user"] = t
    BY <1>0, <1>2, ReadyHolds
  <2>2. tx[t].seen.used = used
    BY <1>0, <1>2, <2>1 DEF Counting
  <2>3. PICK b \in Report : Charge(t, b)
    BY <1>2 DEF Commit, Ends, HeartbeatCommits, CloseCommits
  <2>4. b \in [Column -> Nat]
    BY ReportAssumption
  <2>5. \A k \in Column : /\ used'[k] = used[k] + b[k] /\ reported'[k] = reported[k] + b[k]
                          /\ forgiven'[k] = forgiven[k]
    BY <2>2, <2>3 DEF Charge
  <2> QED BY <1>0, <1>1, <2>1, <2>4, <2>5 DEF CountersKept
<1>3. CASE tx[t].kind = "reset"
  <2>1. ResetCommits(t)
    BY <1>3 DEF Commit
  <2>2. \A k \in Column : /\ reported'[k] = reported[k]
                          /\ \/ used'[k] = used[k] /\ forgiven'[k] = forgiven[k]
                             \/ used'[k] = 0 /\ forgiven'[k] = forgiven[k] + used[k]
    BY <2>1 DEF ResetCommits
  <2>3. CountersKept' /\ \A k \in Column : /\ reported[k] <= reported'[k]
                                           /\ reported'[k] - used'[k] >= reported[k] - used[k]
    BY <1>0, <1>1, <2>2 DEF CountersKept
  <2>4. used' = used \/ lock["user"] = t
    <3>1. CASE \E k \in Column : tx[t].seen.used[k] # 0
      BY <1>0, <1>3, <3>1, ReadyHolds
    <3>2. CASE \A k \in Column : tx[t].seen.used[k] = 0
      <4>1. used' = [k \in Column |-> used[k]]
        BY <2>1, <3>2 DEF ResetCommits, Wiped
      <4> QED BY <1>1, <4>1
    <3> QED BY <3>1, <3>2
  <2> QED BY <2>3, <2>4
<1>4. CASE tx[t].kind \notin Ends \cup {"reset"}
  <2>1. UNCHANGED <<used, reported, forgiven>>
    BY <1>4 DEF Commit, Ends, AuthorizeCommits, RotateCommits, DeleteCommits, LoginsDeleted
  <2> QED BY <1>0, <1>1, <2>1 DEF CountersKept
<1> QED BY <1>2, <1>3, <1>4

\* Of a request that does not move the counters stay known.
LEMMA StayingCounting ==
    ASSUME TypeOK, TypeOK', NEW s \in Tx, Counting(s), Stays(s),
           used' = used \/ lock["user"] # s,
           \A k \in Column : /\ reported[k] <= reported'[k]
                             /\ reported'[k] - used'[k] >= reported[k] - used[k]
    PROVE  Counting(s)'
<1>1. tx'[s] = tx[s] /\ (lock'["user"] = s <=> lock["user"] = s)
  BY RowFacts DEF Stays
<1>2. tx[s].kind \in Ends /\ tx[s].stage = "run" /\ lock'["user"] = s => tx[s].seen.used = used'
  BY <1>1 DEF Counting
<1>3. ASSUME tx[s].kind = "reset", tx[s].stage = "run", NEW k \in Column
      PROVE  /\ tx[s].seen.reported[k] <= reported'[k]
             /\ tx[s].seen.used[k] = 0 => used'[k] + tx[s].seen.reported[k] <= reported'[k]
  <2>1. /\ used[k] \in Nat /\ reported[k] \in Nat /\ used'[k] \in Nat /\ reported'[k] \in Nat
        /\ tx[s].seen.reported[k] \in Nat
    BY RequestFields DEF TypeOK, Sight
  <2>2. /\ tx[s].seen.reported[k] <= reported[k]
        /\ tx[s].seen.used[k] = 0 => used[k] + tx[s].seen.reported[k] <= reported[k]
    BY <1>3 DEF Counting
  <2>3. reported[k] <= reported'[k] /\ reported'[k] - used'[k] >= reported[k] - used[k]
    OBVIOUS
  <2> QED BY <2>1, <2>2, <2>3
<1> QED BY <1>1, <1>2, <1>3 DEF Counting

LEMMA CountStep ==
    ASSUME Known, Known', CountInv, [Next]_vars
    PROVE  CountInv'
<1>0. TypeOK /\ Admins /\ ShapeInv /\ OwnInv /\ TypeOK' /\ CountersKept
  BY DEF Known, CountInv
<1>1. ASSUME NEW t \in Tx, OthersStay(t), UNCHANGED <<used, reported, forgiven>>, Counting(t)'
      PROVE  CountInv'
  <2>1. \A k \in Column : /\ reported[k] <= reported'[k]
                          /\ reported'[k] - used'[k] >= reported[k] - used[k]
    BY <1>0, <1>1 DEF TypeOK
  <2>2. \A s \in Tx \ {t} : Counting(s)'
    BY <1>0, <1>1, <2>1, StayingCounting DEF CountInv, OthersStay
  <2> QED BY <1>0, <1>1, <2>2 DEF CountInv, CountersKept
<1>2. ASSUME NEW t \in Tx, Arrives(t) PROVE CountInv'
  <2>1. UNCHANGED <<used, reported, forgiven, lock>> /\ OthersStay(t) /\ tx[t].stage = "idle"
    BY <1>0, <1>2, ArriveEffect DEF rows
  <2>2. lock'["user"] # t
    BY <1>0, <2>1, RowFacts DEF ShapeInv, Locking
  <2>3. tx'[t].kind = "reset" => tx'[t].stage # "run"
    BY <1>0, <1>2, ArriveEffect DEF Ends
  <2> QED BY <1>1, <2>1, <2>2, <2>3 DEF Counting
<1>3. ASSUME NEW t \in Tx, Begins(t) PROVE CountInv'
  <2>1. tx[t].stage = "auth" /\ tx[t].who \in Login /\ tx[t].kind \in Administrative
    BY <1>0, <1>3 DEF Begins, BodyRuns, Scheduled, Admins
  <2>2. /\ UNCHANGED <<used, reported, forgiven>> /\ OthersStay(t)
        /\ tx'[t].kind = tx[t].kind /\ tx'[t].seen = Seen(t)
    BY <1>0, <1>3, <2>1, BodyEffect DEF rows
  <2>3. tx[t].kind \notin Ends
    BY <2>1 DEF Ends, Administrative, OwnUpdate
  <2>4. ASSUME tx[t].kind = "reset", NEW k \in Column
        PROVE  /\ Seen(t).reported[k] <= reported[k]
               /\ Seen(t).used[k] = 0 => used[k] + Seen(t).reported[k] <= reported[k]
    <3>1. Seen(t).used = used /\ Seen(t).reported = reported /\ reported[k] \in Nat
      BY <1>0, <2>4, SeenType DEF TypeOK
    <3> QED BY <3>1
  <2> QED BY <1>1, <2>2, <2>3, <2>4 DEF Counting
<1>4. ASSUME NEW t \in Tx, End(t) PROVE OthersStay(t) /\ Counting(t)'
  <2>1. OthersStay(t) /\ tx'[t].stage = "idle"
    BY <1>0, <1>4, EndEffect, IdleType
  <2> QED BY <2>1 DEF Counting
<1>5. ASSUME NEW t \in Tx, GivesUp(t) PROVE CountInv'
  BY <1>1, <1>4, <1>5 DEF GivesUp, rows
<1>6. ASSUME NEW t \in Tx, Commit(t) PROVE CountInv'
  <2>1. OthersStay(t) /\ Counting(t)'
    BY <1>4, <1>6 DEF Commit
  <2>2. /\ CountersKept' /\ (used' = used \/ lock["user"] = t)
        /\ \A k \in Column : /\ reported[k] <= reported'[k]
                             /\ reported'[k] - used'[k] >= reported[k] - used[k]
    BY <1>6, CommitCounts
  <2>3. \A s \in Tx \ {t} : Counting(s)'
    BY <1>0, <2>1, <2>2, StayingCounting DEF CountInv, OthersStay
  <2> QED BY <2>1, <2>2, <2>3 DEF CountInv
<1>7. ASSUME NEW t \in Tx, NEW r \in Row, Lock(t, r) PROVE CountInv'
  <2>1. /\ UNCHANGED <<used, reported, forgiven>> /\ OthersStay(t)
        /\ tx[t].stage = "run" /\ tx'[t].kind = tx[t].kind
        /\ lock'[r] = t /\ \A x \in Row \ {r} : lock'[x] = lock[x]
    BY <1>0, <1>7, LockEffect DEF rows
  <2>2. CASE Returns(t, r)
    BY <1>0, <1>1, <1>7, <2>1, <2>2, LockEffect DEF Counting
  <2>3. CASE ~Returns(t, r)
    <3>1. /\ tx'[t].seen.used = IF ReadsUser(t, r) THEN used ELSE tx[t].seen.used
          /\ tx'[t].seen.reported = tx[t].seen.reported
      BY <1>0, <1>7, <2>3, LockEffect
    <3>2. tx[t].kind \in Ends /\ lock'["user"] = t => tx'[t].seen.used = used
      <4>1. CASE r = "user"
        BY <3>1, <4>1 DEF ReadsUser, Ends
      <4>2. CASE r # "user"
        BY <2>1, <3>1, <4>2, RowFacts DEF ReadsUser, CountInv, Counting
      <4> QED BY <4>1, <4>2
    <3>3. tx[t].kind = "reset" => tx'[t].seen.used = tx[t].seen.used
      BY <3>1 DEF ReadsUser
    <3>4. Counting(t)'
      BY <2>1, <3>1, <3>2, <3>3 DEF CountInv, Counting
    <3> QED BY <1>1, <2>1, <3>4
  <2> QED BY <2>2, <2>3
<1>8. ASSUME NEW t \in Tx, NEW r \in Row, Skips(t, r) PROVE CountInv'
  <2>1. /\ UNCHANGED <<used, reported, forgiven, lock>> /\ OthersStay(t)
        /\ tx[t].stage = "run" /\ tx'[t].kind = tx[t].kind /\ tx'[t].seen = tx[t].seen
    BY <1>0, <1>8, SkipEffect DEF rows
  <2>2. Counting(t)'
    BY <2>1 DEF CountInv, Counting
  <2> QED BY <1>1, <2>1, <2>2
<1>9. CASE Elsewhere
  <2>1. UNCHANGED <<used, reported, forgiven, lock, tx>>
    BY <1>0, <1>9, ElsewhereEffect
  <2> QED BY <2>1 DEF CountInv, CountersKept, Counting
<1> QED BY <1>2, <1>3, <1>5, <1>6, <1>7, <1>8, <1>9, StepForms

LEMMA CountAlways == Spec => []CountInv
<1>1. Init => CountInv
  <2> SUFFICES ASSUME Init PROVE CountInv
    OBVIOUS
  <2>1. \A t \in Tx : tx[t].stage = "idle"
    BY IdleType DEF Init
  <2> QED BY <2>1 DEF CountInv, Counting, CountersKept, Init
<1>2. Known /\ Known' /\ CountInv /\ [Next]_vars => CountInv'
  BY CountStep
<1> QED BY <1>1, <1>2, KnownAlways, PTL DEF Spec

\* Whatever runs beside a heartbeat or a close, its bytes are charged once.
THEOREM NothingLostOrChargedTwice == Spec => []CountersKept
<1>1. CountInv => CountersKept
  BY DEF CountInv
<1> QED BY <1>1, CountAlways, PTL

\* A reset that has read the counters before a heartbeat commits takes its
\* bytes away or leaves them, but leaves none that were there when it read.
THEOREM ResetsLeaveOnlyNewer == Spec => ResetLeavesOnlyNewer
<1>1. Known /\ CountInv /\ [Next]_vars =>
         [\A t \in Tx : Commit(t) /\ tx[t].kind = "reset" =>
             \A k \in Column : used'[k] + tx[t].seen.reported[k] <= reported[k]]_vars
  <2> SUFFICES ASSUME Known, CountInv, NEW t \in Tx, Commit(t), tx[t].kind = "reset", NEW k \in Column
               PROVE  used'[k] + tx[t].seen.reported[k] <= reported[k]
    OBVIOUS
  <2>1. tx[t].stage = "run" /\ ResetCommits(t) /\ TypeOK
    BY DEF Commit, Ready, Known
  <2>2. /\ tx[t].seen.reported[k] <= reported[k]
        /\ tx[t].seen.used[k] = 0 => used[k] + tx[t].seen.reported[k] <= reported[k]
    BY <2>1 DEF CountInv, Counting
  <2>3. tx[t].seen.reported[k] \in Nat
    BY <2>1, RequestFields DEF TypeOK, Sight
  <2>4. used'[k] = IF tx[t].seen.used[k] # 0 THEN 0 ELSE used[k]
    BY <2>1 DEF ResetCommits, Wiped
  <2> QED BY <2>2, <2>3, <2>4
<1> QED BY <1>1, KnownAlways, CountAlways, PTL DEF Spec, ResetLeavesOnlyNewer
-----------------------------------------------------------------------------
(***************************************************************************)
(* What requests wait for.  One that cannot go on waits for a row that a   *)
(* request in the middle of its statements has locked, or that one has     *)
(* locked whose handler has returned.                                      *)
(***************************************************************************)
LEMMA WaitingFacts ==
    ASSUME TypeOK, Locking, NEW t \in Tx, Waits(t)
    PROVE  /\ \E r \in Row : r \in Front(t)
           /\ \A r \in Front(t) :
                 /\ r \in Row /\ lock[r] \in Tx \ {t}
                 /\ tx[lock[r]].stage \in {"run", "returned"}
<1>1. Front(t) \subseteq Row /\ Front(t) # {}
  BY DEF Front, Waits
<1>2. ASSUME NEW r \in Front(t)
      PROVE  lock[r] \in Tx \ {t} /\ tx[lock[r]].stage \in {"run", "returned"}
  <2>1. lock[r] \in Tx
    BY <1>1 DEF Waits, TypeOK
  <2>2. lock[r] # t
    BY <1>1 DEF Front, Locking
  <2> QED BY <1>1, <2>1, <2>2 DEF Locking
<1> QED BY <1>1, <1>2

\* If nobody has to wait for the loop, requests that all wait are a deadlock
\* that PostgreSQL sees.
THEOREM NothingElseHangs == Spec => []OnlyTheLoopHangs
<1>1. Known => OnlyTheLoopHangs
  <2> SUFFICES ASSUME Known, Hung, ~(loop # None /\ \E t \in Busy : tx[t].stage = "returned")
               PROVE  FALSE
    BY DEF OnlyTheLoopHangs
  <2> DEFINE D == {t \in Tx : Waits(t)}
  <2>1. TypeOK /\ Locking
    BY DEF Known, ShapeInv
  <2>2. ASSUME NEW t \in Tx, tx[t].stage \in {"run", "returned"} PROVE t \in D
    BY <2>2 DEF Hung, Busy, Blocked
  <2>3. D # {}
    <3>1. CASE loop = None
      BY <3>1 DEF Hung, Busy, Blocked
    <3>2. CASE loop # None
      <4>1. loop \in Tx /\ tx[loop].stage = "run"
        BY <2>1, <3>2 DEF TypeOK, Locking
      <4> QED BY <2>2, <4>1
    <3> QED BY <3>1, <3>2
  <2>4. ASSUME NEW t \in D PROVE WaitsFor(t) \subseteq D
    BY <2>1, <2>2, WaitingFacts DEF WaitsFor
  <2>5. Deadlocked(D)
    BY <2>3, <2>4 DEF Deadlocked
  <2> QED BY <2>5 DEF Hung
<1> QED BY <1>1, KnownAlways, PTL

\* In a cycle every request holds a row that another one of it waits for.
LEMMA CycleWanted ==
    ASSUME TypeOK, Locking, NEW D \in SUBSET Tx, Cycle(D), NEW t \in D
    PROVE  \E s \in D : \E r \in Front(s) : r \in Row /\ lock[r] = t
<1> SUFFICES ASSUME \A s \in D : \A r \in Front(s) : r \in Row => lock[r] # t PROVE FALSE
  OBVIOUS
<1> DEFINE E == D \ {t}
<1>1. D # {} /\ \A s \in D : Waits(s) /\ WaitsFor(s) \subseteq D
  BY DEF Cycle, Deadlocked
<1>2. \A s \in D : WaitsFor(s) \subseteq E
  BY <1>1, WaitingFacts DEF WaitsFor
<1>3. E # {}
  <2>1. PICK r \in Row : r \in Front(t)
    BY <1>1, WaitingFacts
  <2> QED BY <1>2, <2>1 DEF WaitsFor
<1>4. Deadlocked(E)
  BY <1>1, <1>2, <1>3 DEF Deadlocked
<1>5. E \in SUBSET D /\ E # D
  OBVIOUS
<1> QED BY <1>4, <1>5 DEF Cycle

\* The request that holds the user waits for nothing.
LEMMA UserHolderRuns ==
    ASSUME Known, NEW t \in Tx, lock["user"] = t
    PROVE  ~Waits(t)
<1> SUFFICES ASSUME Waits(t) PROVE FALSE
  OBVIOUS
<1>0. TypeOK /\ Locking /\ Shape(t) /\ Sees(t) /\ tx[t].stage = "run"
  BY DEF Known, ShapeInv, OwnInv, Waits
<1>1. tx[t].kind \in Kind /\ tx[t].kind # "none"
  BY <1>0, RequestFields DEF TypeOK, Locking
<1>2. PICK r \in Row : r \in Front(t)
  BY <1>0, WaitingFacts
<1>3. lock[r] \in Tx \ {t}
  BY <1>0, <1>2, WaitingFacts
<1>4. "user" \notin tx[t].todo[1] /\ "user" \notin tx[t].todo[2] /\ "user" \notin tx[t].todo[3]
  BY <1>0, RowFacts, ThreeIndices DEF Locking
<1>5. \/ r \in tx[t].todo[1]
      \/ tx[t].todo[1] = {} /\ r \in tx[t].todo[2]
      \/ tx[t].todo[1] = {} /\ tx[t].todo[2] = {} /\ r \in tx[t].todo[3]
  BY <1>2, FrontFacts
<1>6. CASE tx[t].kind \in Ends
  BY <1>0, <1>4, <1>5, <1>6, RowFacts DEF Shape, GatewayShape, HoldsNothing
<1>7. CASE tx[t].kind = "authorize"
  BY <1>0, <1>4, <1>5, <1>7 DEF Shape, SweepShape
<1>8. CASE tx[t].kind \in {"rotate", "reset"}
  BY <1>0, <1>4, <1>5, <1>8, RowFacts DEF Shape, WriterShape, HoldsNothing
<1>9. CASE tx[t].kind = "delete"
  <2>1. r \in tx[t].todo[3] /\ r \in Conn
    BY <1>0, <1>5, <1>9 DEF Shape, DeleteShape
  <2>2. Claims(lock[r], r)
    BY DEF Claims
  <2> QED BY <1>0, <1>3, <1>9, <2>1, <2>2 DEF Sees
<1>10. CASE tx[t].kind \in {"logout", "clean"}
  BY <1>0, <1>10, RowFacts DEF Shape, LogoutShape, CleanShape, HoldsOnly
<1> QED BY <1>1, <1>6, <1>7, <1>8, <1>9, <1>10
    DEF Kind, Gateway, Administrative, OwnUpdate, Ends

\* A request that waits, but not for the user, and has locked a row, sweeps,
\* deletes or cleans; of the first two it waits for a connection session.
LEMMA HoldingWaiters ==
    ASSUME Known, NEW t \in Tx, Waits(t), "user" \notin Front(t),
           NEW x \in Row, lock[x] = t
    PROVE  /\ tx[t].kind \in {"authorize", "delete", "clean"}
           /\ tx[t].kind # "clean" => Front(t) \subseteq Conn
           /\ tx[t].kind = "clean" => x \in Login
<1>0. TypeOK /\ Locking /\ Shape(t) /\ tx[t].stage = "run"
  BY DEF Known, ShapeInv, Waits
<1>1. tx[t].kind \in Kind /\ tx[t].kind # "none"
  BY <1>0, RequestFields DEF TypeOK, Locking
<1>2. ASSUME NEW r \in Front(t)
      PROVE  /\ r # "user"
             /\ \/ r \in tx[t].todo[1]
                \/ tx[t].todo[1] = {} /\ r \in tx[t].todo[2]
                \/ tx[t].todo[1] = {} /\ tx[t].todo[2] = {} /\ r \in tx[t].todo[3]
  BY <1>2, FrontFacts
<1>3. PICK r \in Row : r \in Front(t)
  BY <1>0, WaitingFacts
<1>4. ~HoldsNothing(t)
  BY DEF HoldsNothing
<1>5. tx[t].kind \notin Ends
  BY <1>0, <1>2, <1>3, <1>4 DEF Shape, GatewayShape
<1>6. tx[t].kind \notin {"rotate", "reset"}
  BY <1>0, <1>2, <1>3, <1>4 DEF Shape, WriterShape
<1>7. tx[t].kind # "logout"
  BY <1>0, <1>2, <1>3, <1>4 DEF Shape, LogoutShape
<1>8. tx[t].kind \in {"authorize", "delete", "clean"}
  BY <1>1, <1>5, <1>6, <1>7 DEF Kind, Gateway, Administrative, OwnUpdate, Ends
<1>9. ASSUME tx[t].kind = "authorize" PROVE Front(t) \subseteq Conn
  BY <1>0, <1>2, <1>9 DEF Shape, SweepShape
<1>10. ASSUME tx[t].kind = "delete" PROVE Front(t) \subseteq Conn
  BY <1>0, <1>2, <1>4, <1>10 DEF Shape, DeleteShape
<1>11. ASSUME tx[t].kind = "clean" PROVE x \in Login
  BY <1>0, <1>11 DEF Shape, CleanShape, HoldsOnly
<1> QED BY <1>8, <1>9, <1>10, <1>11

\* PostgreSQL never aborts a heartbeat or a close, nor a rotation, a reset or a
\* logout.
THEOREM OnlySweepsMeet == Spec => []OnlySweepsDeadlock
<1>1. Known => OnlySweepsDeadlock
  <2> SUFFICES ASSUME Known, NEW D \in SUBSET Tx, Cycle(D)
               PROVE  LET kinds == {tx[t].kind : t \in D}
                      IN  \/ "authorize" \in kinds /\ kinds \subseteq {"authorize", "delete"}
                          \/ kinds = {"clean"}
    BY DEF OnlySweepsDeadlock
  <2> DEFINE kinds == {tx[t].kind : t \in D}
             E == {t \in D : tx[t].kind # "clean"}
  <2>0. TypeOK /\ Locking /\ ShapeInv
    BY DEF Known, ShapeInv
  <2>1. D # {} /\ \A t \in D : Waits(t) /\ WaitsFor(t) \subseteq D
    BY DEF Cycle, Deadlocked
  <2>2. ASSUME NEW t \in D PROVE "user" \notin Front(t)
    <3> SUFFICES ASSUME "user" \in Front(t) PROVE FALSE
      OBVIOUS
    <3>1. lock["user"] \in D
      BY <2>1 DEF WaitsFor
    <3> QED BY <2>1, <3>1, UserHolderRuns
  <2>3. ASSUME NEW t \in D
        PROVE  /\ tx[t].kind \in {"authorize", "delete", "clean"}
               /\ tx[t].kind # "clean" => Front(t) \subseteq Conn
    <3>1. PICK s \in D : \E r \in Front(s) : r \in Row /\ lock[r] = t
      BY <2>0, CycleWanted
    <3>2. PICK r \in Front(s) : r \in Row /\ lock[r] = t
      BY <3>1
    <3> QED BY <2>1, <2>2, <3>2, HoldingWaiters
  <2>4. ASSUME NEW t \in E PROVE WaitsFor(t) \subseteq E
    <3> SUFFICES ASSUME NEW r \in Front(t) PROVE lock[r] \in E
      BY DEF WaitsFor
    <3>1. lock[r] \in D /\ r \in Conn
      BY <2>1, <2>3 DEF WaitsFor
    <3>2. tx[lock[r]].kind # "clean"
      <4>1. tx[lock[r]].kind = "clean" => r \in Login
        BY <2>1, <2>2, <3>1, RowFacts, HoldingWaiters
      <4> QED BY <3>1, <4>1, RowFacts
    <3> QED BY <3>1, <3>2
  <2>5. E # {} => E = D
    <3>1. E # {} => Deadlocked(E)
      BY <2>1, <2>4 DEF Deadlocked
    <3> QED BY <3>1 DEF Cycle
  <2>6. CASE E = {}
    <3>1. \A t \in D : tx[t].kind = "clean"
      BY <2>6
    <3> QED BY <2>1, <3>1
  <2>7. CASE E # {}
    <3>1. \A t \in D : tx[t].kind \in {"authorize", "delete"}
      BY <2>3, <2>5, <2>7
    <3>2. \E t \in D : tx[t].kind = "authorize"
      <4> SUFFICES ASSUME \A t \in D : tx[t].kind = "delete" PROVE FALSE
        BY <3>1
      <4>1. PICK t \in D : TRUE
        BY <2>1
      <4>2. PICK r \in Row : r \in Front(t)
        BY <2>0, <2>1, WaitingFacts
      <4>3. lock[r] \in D \ {t}
        BY <2>0, <2>1, <4>2, WaitingFacts DEF WaitsFor
      <4>4. \A s \in D : loop = s
        BY <2>0, <2>1, OneDelete DEF Waits
      <4> QED BY <4>3, <4>4
    <3>3. "authorize" \in kinds
      BY <3>2
    <3>4. kinds \subseteq {"authorize", "delete"}
      BY <3>1
    <3> QED BY <3>3, <3>4
  <2> QED BY <2>6, <2>7
<1> QED BY <1>1, KnownAlways, PTL
=============================================================================
