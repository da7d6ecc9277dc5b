--------------------------- MODULE MCSessionLedger ---------------------------
(***************************************************************************)
(* Instances of SessionLedger for TLC.  The sets an administrator and a    *)
(* gateway choose from are ordinary values, so the .cfg files give them.   *)
(***************************************************************************)
EXTENDS SessionLedger, TLC

\* Addresses and row ids are interchangeable.
RowSymmetry == Permutations(Session) \cup Permutations(Ip)

\* An administrator may set a later date.
LaterExpiry == {2}
=============================================================================
