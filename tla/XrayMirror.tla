----------------------------- MODULE XrayMirror -----------------------------
(***************************************************************************)
(* What the control plane promises of the Xray process it runs: the        *)
(* clients Xray accepts follow the goals the administrator's changes set,  *)
(* one goal after the other, without disturbing a client that two goals    *)
(* share.  Nothing is said of how, and the process may go down at any time.*)
(***************************************************************************)
CONSTANT Client     \* VLESS and VMess credentials

VARIABLES
    goal,       \* the clients Xray is to accept
    served,     \* the clients it accepts
    up          \* whether it runs

vars == <<goal, served, up>>

Init == goal \in SUBSET Client /\ served = {} /\ up = FALSE

\* A further goal is set when the last one was reached, or Xray is down.
Aim ==
    /\ up => served = goal
    /\ goal' \in SUBSET Client
    /\ UNCHANGED <<served, up>>

\* Only clients outside the goal are cut off.
Withdraw ==
    /\ up
    /\ served' \in SUBSET served
    /\ served \ served' \subseteq Client \ goal
    /\ UNCHANGED <<goal, up>>

\* Only clients of the goal are let in.
Admit ==
    /\ up
    /\ served' \in SUBSET (served \cup goal)
    /\ served \subseteq served'
    /\ UNCHANGED <<goal, up>>

\* Xray starts with exactly the goal.
Rise ==
    /\ ~up
    /\ up' = TRUE
    /\ served' = goal
    /\ UNCHANGED goal

Fall ==
    /\ up' = FALSE
    /\ served' = {}
    /\ goal' \in SUBSET Client

Next == Aim \/ Withdraw \/ Admit \/ Rise \/ Fall

Spec == Init /\ [][Next]_vars
=============================================================================
