--------------------------- MODULE MCProvisioning ---------------------------
(* Provisioning with a default vless node and a WireGuard node. *)
EXTENDS Provisioning, TLC

CONSTANTS vl, wg

Nodes == {vl, wg}
Protocols == (vl :> "vless") @@ (wg :> "wireguard")
Defaults == {vl}
Fixed == {[host |-> "fixed", port |-> 8443, security |-> "none", sni |-> None, wsHost |-> None]}
Paths == {"/edge", "/else"}
\* Two clients; one client, an address of the other network.
Pools == {[first |-> 0, size |-> 3], [first |-> 1, size |-> 2]}

Authority(h, p) == [host |-> h, port |-> p]
Requests ==
    [scheme : {"http"}, to : {Authority("internal", 8000), Authority("panel", 0), Authority("panel", 80)},
     proto : {None}, forwarded : {None}]
    \cup
    [scheme : {"http"}, to : {Authority("internal", 8000)}, proto : {"https", "http"},
     forwarded : {Authority("panel", p) : p \in {0, 80, 443, 8443}}]
=============================================================================
