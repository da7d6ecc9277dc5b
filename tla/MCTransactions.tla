---- MODULE MCTransactions ----
(* Transactions with small sets of rows and requests. *)
EXTENDS Transactions, TLC

\* Every session is from an address of its own.
OwnIp == [c \in Conn |-> c]
ReportChoice == {[up |-> 1, down |-> 0], [up |-> 0, down |-> 1]}
RequestSymmetry == Permutations(Tx) \cup Permutations(Conn) \cup Permutations(Login)
====
