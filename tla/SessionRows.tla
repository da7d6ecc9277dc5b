---------------------------- MODULE SessionRows ----------------------------
(***************************************************************************)
(* What the control plane promises of its connection sessions, to          *)
(* whoever calls it: who is let in, what a report does to a session, and   *)
(* when a session ends.  A session that is heard of in time ends only when *)
(* its connection is closed or its user is deleted; one that is silent for *)
(* longer than StaleAfter ends with the next call to authorize; and what   *)
(* has ended stays as it is.                                               *)
(***************************************************************************)
EXTENDS Naturals, FiniteSets

CONSTANTS
    User, Session, Ip,
    StaleAfter,     \* session_stale_seconds
    Bytes           \* the byte counts that can be reported

VARIABLES
    row,        \* sessions and what is known of them
    limit       \* max_ips of each user

vars == <<row, limit>>

Init == DOMAIN row = {} /\ limit \in [User -> Nat]

\* The sessions that are silent for too long are over.
IsOpen(r) == r.state = "open"
Over(r) == [r EXCEPT !.state = "over", !.idle = 0]
Silent(r) == IsOpen(r) /\ r.idle > StaleAfter
Swept == [s \in DOMAIN row |-> IF Silent(row[s]) THEN Over(row[s]) ELSE row[s]]

Ips(u) == {Swept[s].ip : s \in {x \in DOMAIN row : IsOpen(Swept[x]) /\ Swept[x].user = u}}

\* A user comes from an address that is in use already, or from one more.
Admit(s, u, i) ==
    /\ s \notin DOMAIN row
    /\ i \in Ips(u) \/ Cardinality(Ips(u)) < limit[u]
    /\ row' = [x \in DOMAIN row \cup {s} |->
                  IF x = s THEN [user |-> u, ip |-> i, state |-> "open", idle |-> 0, bytes |-> 0]
                  ELSE Swept[x]]
    /\ UNCHANGED limit

Refuse == row' = Swept /\ UNCHANGED limit

Reported(r, d, state) == [r EXCEPT !.bytes = r.bytes + d, !.idle = 0, !.state = state]

\* A heartbeat, or a close.
Report(s, d, state) ==
    /\ s \in DOMAIN row
    /\ IsOpen(row[s])
    /\ row' = [row EXCEPT ![s] = Reported(row[s], d, state)]
    /\ UNCHANGED limit

\* Users are created and edited.
Edit == limit' \in [User -> Nat] /\ UNCHANGED row

Delete(u) ==
    /\ row' = [s \in {x \in DOMAIN row : row[x].user # u} |-> row[s]]
    /\ limit' \in [User -> Nat]

\* Time passes.
Older(r) == IF IsOpen(r) /\ r.idle <= StaleAfter THEN [r EXCEPT !.idle = r.idle + 1] ELSE r
Pass == row' = [s \in DOMAIN row |-> Older(row[s])] /\ UNCHANGED limit

Next ==
    \/ \E s \in Session, u \in User, i \in Ip : Admit(s, u, i)
    \/ \E s \in Session, d \in Bytes, state \in {"open", "over"} : Report(s, d, state)
    \/ \E u \in User : Delete(u)
    \/ Refuse \/ Edit \/ Pass

Spec == Init /\ [][Next]_vars
=============================================================================
