------------------------------- MODULE MCEdge -------------------------------
(***************************************************************************)
(* Instances of Edge for TLC.  One clock unit is five seconds: a heartbeat *)
(* every 3 units (15 s), rows stale after 9 (45 s), calls given up after 2 *)
(* (8 s, rounded up).                                                      *)
(***************************************************************************)
EXTENDS Edge, TLC

CONSTANTS c1, c2

OneConn == {c1}
TwoConns == {c1, c2}

\* Each connection comes from an address of its own.
OwnIp == [c \in Conn |-> c]

ConnSymmetry == Permutations(Conn)
=============================================================================
