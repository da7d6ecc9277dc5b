---------------------------- MODULE Provisioning ----------------------------
(***************************************************************************)
(* What administrators provision and what a boot does to it: nodes, users  *)
(* and access keys (backend/app/routes/nodes.py and users.py), the         *)
(* WireGuard addresses of services/accounts.py, and the start of the       *)
(* control plane, which brings the tables to the newest schema             *)
(* (migrations.py), creates or resets the default nodes (main.py) and then *)
(* serves.  The control plane may stop at any point of its start.          *)
(*                                                                         *)
(* The handlers here are coroutines that do not await between their first  *)
(* read and the commit, on a single event loop, so each is one step; an    *)
(* exception rolls all of it back and is no step.  A step ends with the    *)
(* snapshot of the clients that the handler's reconcile takes for Xray;    *)
(* how it waits for its turn, and what becomes of it, is XrayRuntime's.    *)
(***************************************************************************)
EXTENDS Profiles, FiniteSets

CONSTANTS
    User,
    Node,
    ProtocolOf,     \* of each node: kind and protocol are never changed
    Default,        \* the nodes that seed_database knows by their slugs
    Chosen,         \* what an administrator enters for an address of a node
    Path,           \* and for its path
    SeedPath,       \* ARENA_GATEWAY_PUBLIC_PATH
    Pool,           \* what an administrator enters for client_cidr
    Request         \* requests for links and files, as Profiles has them

ASSUME NodeAssumption ==
    /\ ProtocolOf \in [Node -> {"vless", "vmess", "wireguard", "cisco"}]
    /\ Default \subseteq {n \in Node : ProtocolOf[n] \in Proxied}

\* The only path that the gateway serves.
GatewayPath == "/edge"

ASSUME PathAssumption == {GatewayPath, SeedPath} \subseteq Path

\* A network is the interval of its host addresses.
ASSUME PoolAssumption ==
    /\ Pool \subseteq [first : Nat, size : Nat]
    /\ None \notin Pool \cup Nat

VARIABLES
    tables,     \* the counters' columns: no tables yet, narrow, or wide
    stamp,      \* the revision in alembic_version
    phase,      \* the process: down, migrated, seeded, serving, or failed
    node,       \* the row of each node, or None
    user,       \* each user: absent, allowed, or refused by user_allowed
    key,        \* the access key of a user for a node, or None
    clients     \* the keys in the last snapshot for Xray

vars == <<tables, stamp, phase, node, user, key, clients>>
data == <<node, user, key>>

Revision == {"none", "initial", "wide"}

AutoPlace == [host |-> "auto", port |-> 443, security |-> "tls", sni |-> None, wsHost |-> "auto"]

\* A row: where it is, adaptive_endpoint and client_cidr of its metadata.
Row(n, place, path, adaptive, enabled, pool) ==
    [protocol |-> ProtocolOf[n], host |-> place.host, port |-> place.port,
     security |-> place.security, sni |-> place.sni, wsHost |-> place.wsHost, path |-> path,
     adaptive |-> adaptive, enabled |-> enabled, pool |-> pool]

\* What a row can be, by the validation of an update: metadata may be null, and
\* a network is then named by nothing.  Only links have a path.
Rows(n) ==
    IF ProtocolOf[n] \in Proxied
    THEN {Row(n, place, path, a, e, None) :
             place \in Chosen \cup {AutoPlace}, path \in Path,
             a \in {"unset", "no", "yes", "null"}, e \in BOOLEAN}
    ELSE {Row(n, place, None, IF p = None THEN "null" ELSE "unset", e, p) :
             place \in Chosen, e \in BOOLEAN, p \in Pool \cup {None}}

\* A node is created with metadata.
NewRows(n) == {r \in Rows(n) : r.adaptive # "null"}

Key == [enabled : BOOLEAN, address : Nat \cup {None}]

\* None is no row and no link.
ASSUME NoneAssumption ==
    /\ None \notin Key
    /\ \A n \in Node : None \notin Rows(n)
    /\ \A n \in Node : \A row \in Rows(n), r \in Request : Link(row, PublicBaseUrl(r)) # None

TypeOK ==
    /\ tables \in Revision
    /\ stamp \in Revision
    /\ phase \in {"down", "migrated", "seeded", "serving", "failed"}
    /\ node = [n \in Node |-> node[n]]
    /\ \A n \in Node : node[n] \in Rows(n) \cup {None}
    /\ user \in [User -> {"absent", "allowed", "refused"}]
    /\ key \in [User \X Node -> Key \cup {None}]
    /\ clients \subseteq User \X Node

\* An empty database, or one from before migrations, whose default nodes know
\* nothing of adaptive_endpoint yet.
Init ==
    /\ tables \in {"none", "initial"}
    /\ stamp = "none"
    /\ phase = "down"
    /\ \E place \in Chosen :
          node = [n \in Node |-> IF tables = "initial" /\ n \in Default
                                THEN Row(n, place, SeedPath, "unset", TRUE, None) ELSE None]
    /\ user = [u \in User |-> "absent"]
    /\ key = [k \in User \X Node |-> None]
    /\ clients = {}
-----------------------------------------------------------------------------
KeysOf(u) == {n \in Node : key[<<u, n>>] # None}

\* The clients of the user in a snapshot for Xray (_clients_from_keys).
XrayClients(u) ==
    {n \in KeysOf(u) : ProtocolOf[n] \in Proxied /\ key[<<u, n>>].enabled
                         /\ node[n].enabled /\ user[u] = "allowed"}

Snapshot == {k \in User \X Node : k[2] \in XrayClients(k[1])}

\* What every handler below ends with.
Reconcile == clients' = Snapshot'
-----------------------------------------------------------------------------
(***************************************************************************)
(* The start: lifespan.                                                    *)
(***************************************************************************)

\* (tables from before migrations are taken for the newest)
StampHead == "wide"

LEGACY_SCHEMA_REVISION == "initial"

Stopped == phase \in {"down", "failed"}

\* (a new database is stamped, not the old one)
StampNew ==
    /\ Stopped
    /\ tables = "none" /\ stamp = "none"
    /\ stamp' = LEGACY_SCHEMA_REVISION
    /\ UNCHANGED <<tables, phase, data, clients>>

\* Tables without a revision are stamped, in a transaction of its own.
Stamp ==
    /\ Stopped
    /\ tables # "none" /\ stamp = "none"
    /\ stamp' = LEGACY_SCHEMA_REVISION
    /\ UNCHANGED <<tables, phase, data, clients>>

\* The first revision creates the tables: there must be none.
CanUpgrade == stamp = "none" => tables = "none"

\* All revisions that are missing, in one transaction.
Upgrade ==
    /\ Stopped
    /\ CanUpgrade
    /\ tables' = IF stamp = "wide" THEN tables ELSE "wide"
    /\ stamp' = "wide"
    /\ phase' = "migrated"
    /\ UNCHANGED <<data, clients>>

\* (only the host is set again)
SeededHost(n, r) ==
    IF r = None THEN Row(n, AutoPlace, SeedPath, "yes", TRUE, None)
    ELSE IF r.adaptive = "no" THEN r
    ELSE [r EXCEPT !.adaptive = "yes", !.host = "auto"]

\* (the default nodes are given their address again)
SeededAlways(n, r) ==
    IF r = None THEN Row(n, AutoPlace, SeedPath, "yes", TRUE, None)
    ELSE Row(n, AutoPlace, r.path, r.adaptive, r.enabled, None)

\* A default node after a start: one whose metadata says nothing becomes
\* adaptive, and an adaptive one has no address of its own; its path is kept.
Seeded(n, r) ==
    IF r = None THEN Row(n, AutoPlace, SeedPath, "yes", TRUE, None)
    ELSE IF r.adaptive = "no" THEN r
    ELSE Row(n, AutoPlace, r.path, "yes", r.enabled, None)

\* Nothing can be looked for in a metadata that is null.
NullMetadata == \E n \in Default : node[n] # None /\ node[n].adaptive = "null"

Seed ==
    /\ phase = "migrated"
    /\ ~NullMetadata
    /\ node' = [n \in Node |-> IF n \in Default THEN Seeded(n, node[n]) ELSE node[n]]
    /\ phase' = "seeded"
    /\ UNCHANGED <<tables, stamp, user, key, clients>>

\* A TypeError: nothing is committed, and the process ends.
SeedFails ==
    /\ phase = "migrated"
    /\ NullMetadata
    /\ phase' = "failed"
    /\ UNCHANGED <<tables, stamp, data, clients>>

\* Xray is started with the clients there are.
Serve ==
    /\ phase = "seeded"
    /\ phase' = "serving"
    /\ clients' = Snapshot
    /\ UNCHANGED <<tables, stamp, data>>

\* The process ends, at any point, or Xray cannot be started.
Crash ==
    /\ ~Stopped
    /\ phase' = "down"
    /\ clients' = {}
    /\ UNCHANGED <<tables, stamp, data>>
-----------------------------------------------------------------------------
(***************************************************************************)
(* Nodes.                                                                  *)
(***************************************************************************)
Administers ==
    /\ phase = "serving"
    /\ UNCHANGED <<tables, stamp, phase>>

CreateNode(n) ==
    /\ Administers
    /\ node[n] = None
    /\ \E r \in NewRows(n) : node' = [node EXCEPT ![n] = r]
    /\ UNCHANGED <<user, key>>
    /\ Reconcile

\* metadata is replaced as a whole; the keys keep the addresses they have.
UpdateNode(n) ==
    /\ Administers
    /\ node[n] # None
    /\ \E r \in Rows(n) : node' = [node EXCEPT ![n] = r]
    /\ UNCHANGED <<user, key>>
    /\ Reconcile

DisableNode(n) ==
    /\ Administers
    /\ node[n] # None
    /\ node' = [node EXCEPT ![n].enabled = FALSE]
    /\ UNCHANGED <<user, key>>
    /\ Reconcile
-----------------------------------------------------------------------------
(***************************************************************************)
(* Users and keys.                                                         *)
(***************************************************************************)
Used(n) == {key[<<u, n>>].address : u \in {v \in User : key[<<v, n>>] # None}} \ {None}

\* The hosts of the network but the first, which is the server's.
Clients(pool) == (pool.first + 1)..(pool.first + pool.size - 1)

\* (as many addresses are taken as there are keys)
FreeByCount(n) ==
    {a \in Clients(node[n].pool) :
        a > node[n].pool.first + Cardinality({v \in User : key[<<v, n>>] # None})}

Free(n) == Clients(node[n].pool) \ Used(n)

\* create_access_key raises when the metadata is null or no address is left.
CanKey(n) == ProtocolOf[n] = "wireguard" => node[n].pool # None /\ Free(n) # {}

NewKey(n) ==
    [enabled |-> TRUE,
     address |-> IF ProtocolOf[n] = "wireguard"
                 THEN CHOOSE a \in Free(n) : \A b \in Free(n) : a <= b
                 ELSE None]

Enabled == {n \in Node : node[n] # None /\ node[n].enabled}

\* node_ids empty stands for all the nodes.
CreateUser(u) ==
    /\ Administers
    /\ user[u] = "absent"
    /\ \E ids \in SUBSET Node :
          LET given == IF ids = {} THEN Enabled ELSE Enabled \cap ids
          IN  /\ \A n \in given : CanKey(n)
              /\ key' = [k \in User \X Node |->
                           IF k[1] = u /\ k[2] \in given THEN NewKey(k[2]) ELSE key[k]]
    /\ user' = [user EXCEPT ![u] = "allowed"]
    /\ UNCHANGED node
    /\ Reconcile

AttachNode(u, n) ==
    /\ Administers
    /\ user[u] # "absent" /\ node[n] # None
    /\ IF key[<<u, n>>] # None
       THEN key' = [key EXCEPT ![<<u, n>>].enabled = TRUE]
       ELSE CanKey(n) /\ key' = [key EXCEPT ![<<u, n>>] = NewKey(n)]
    /\ UNCHANGED <<node, user>>
    /\ Reconcile

DetachNode(u, n) ==
    /\ Administers
    /\ user[u] # "absent"
    /\ key' = [key EXCEPT ![<<u, n>>] = None]
    /\ UNCHANGED <<node, user>>
    /\ Reconcile

\* The keys go with the user.
DeleteUser(u) ==
    /\ Administers
    /\ user[u] # "absent"
    /\ user' = [user EXCEPT ![u] = "absent"]
    /\ key' = [k \in User \X Node |-> IF k[1] = u THEN None ELSE key[k]]
    /\ UNCHANGED node
    /\ Reconcile

\* The fields that user_allowed reads, or others, are edited.
UpdateUser(u) ==
    /\ Administers
    /\ user[u] # "absent"
    /\ \E verdict \in {"allowed", "refused"} : user' = [user EXCEPT ![u] = verdict]
    /\ UNCHANGED <<node, key>>
    /\ Reconcile

\* (Xray is not told)
ResetUsageUntold(u) ==
    /\ Administers
    /\ user[u] # "absent"
    /\ \E verdict \in {user[u], "allowed"} : user' = [user EXCEPT ![u] = verdict]
    /\ UNCHANGED <<node, key, clients>>

\* A user may be allowed again, or not, if refused for another reason too.
ResetUsage(u) ==
    /\ Administers
    /\ user[u] # "absent"
    /\ \E verdict \in {user[u], "allowed"} : user' = [user EXCEPT ![u] = verdict]
    /\ UNCHANGED <<node, key>>
    /\ Reconcile

\* Time runs out, or traffic reaches the quota: Xray is not told.
RunOut(u) ==
    /\ user[u] = "allowed"
    /\ user' = [user EXCEPT ![u] = "refused"]
    /\ UNCHANGED <<tables, stamp, phase, node, key, clients>>

Boot == Stamp \/ Upgrade \/ Seed \/ SeedFails \/ Serve

Next ==
    \/ Boot \/ Crash
    \/ \E n \in Node : CreateNode(n) \/ UpdateNode(n) \/ DisableNode(n)
    \/ \E u \in User : CreateUser(u) \/ UpdateUser(u) \/ ResetUsage(u) \/ RunOut(u) \/ DeleteUser(u)
    \/ \E u \in User, n \in Node : AttachNode(u, n) \/ DetachNode(u, n)

Spec == Init /\ [][Next]_vars

\* A start goes on, and an operator makes a new one after each that was cut.
FairSpec == Spec /\ WF_vars(Boot)
-----------------------------------------------------------------------------
(***************************************************************************)
(* What the rows are used for, by three readers that each decide anew.     *)
(***************************************************************************)
\* The keys of a user who is allowed are gone through; one exception ends it.
DocumentFails(u) ==
    user[u] = "allowed" /\ \E n \in KeysOf(u) : Raises(node[n], key[<<u, n>>])

\* The lines of subscription_document, by node.
Document(u, request) ==
    {n \in KeysOf(u) :
        /\ user[u] = "allowed" /\ ~DocumentFails(u)
        /\ ProxyUri(node[n], key[<<u, n>>], PublicBaseUrl(request)) # None}

\* The requests that authorize does not deny for want of a route or by verdict.
Admitted(u) ==
    {n \in KeysOf(u) : node[n].enabled /\ key[<<u, n>>].enabled /\ user[u] = "allowed"}

\* Where authorize sends the gateway, and where Xray listens (build_config).
Upstream(n) ==
    [port |-> IF ProtocolOf[n] = "vless" THEN 11000 ELSE 11001, protocol |-> ProtocolOf[n]]
Inbounds == {[port |-> 11000, protocol |-> "vless"], [port |-> 11001, protocol |-> "vmess"]}

\* The nodes over which a link with the gateway's path gets a user through to
\* Xray: the gateway has a handler for it, authorize admits and names an inbound
\* that exists, and Xray knows the key.
Reached(u) ==
    {n \in Admitted(u) : Upstream(n) \in Inbounds /\ node[n].path = GatewayPath
                           /\ <<u, n>> \in clients}
-----------------------------------------------------------------------------
(***************************************************************************)
(* A link with the gateway's path is offered exactly when it works, of the *)
(* three readers that each decide anew, one of them on a snapshot that may *)
(* be old: subscription_document, authorize and Xray.  And Xray keeps no   *)
(* client, of a user who is allowed, that authorize would not admit.       *)
(* Outside it: a link with another path is offered and reaches no handler  *)
(* (profiles.py:47-48, main.go:95), and one key of a node whose metadata   *)
(* is null fails the whole subscription, while all keys go on working      *)
(* (profiles.py:52-53).                                                    *)
(***************************************************************************)
OfferedIsServed ==
    phase = "serving" =>
        \A u \in User :
            /\ \A r \in Request :
                  DocumentFails(u)
                    \/ {n \in Document(u, r) : node[n].path = GatewayPath} = Reached(u)
            /\ user[u] = "allowed" => \A n \in Node : <<u, n>> \in clients => n \in Admitted(u)

(***************************************************************************)
(* No two users of a WireGuard node have one address, through detaching,   *)
(* deletion, and changes of client_cidr ("a unique IP from the pool",      *)
(* FLOWS.md section 7).                                                    *)
(***************************************************************************)
AddressesDistinct ==
    \A n \in Node, u, v \in User :
        /\ u # v /\ n \in KeysOf(u) \cap KeysOf(v)
        /\ ProtocolOf[n] = "wireguard"
        => WireguardProfile(node[n], key[<<u, n>>]).address
             # WireguardProfile(node[n], key[<<v, n>>]).address

(***************************************************************************)
(* The revision in alembic_version tells what the tables are, wherever the *)
(* start was cut, and the control plane never serves, nor seeds, on        *)
(* counters of 32 bits.                                                    *)
(***************************************************************************)
SchemaTold ==
    /\ stamp # "none" => stamp = tables
    /\ phase # "down" => tables = "wide"

(***************************************************************************)
(* The link of an adaptive node leads to the origin that the request, or   *)
(* ARENA_PUBLIC_URL, names: its scheme, host and port, whether the port is *)
(* written out or not (test_subscription_adapts_to_forwarded_public_origin *)
(* and DEPLOYMENT.md:27-37).  A node whose metadata is null has no link.    *)
(***************************************************************************)
LinksLeadToPanel ==
    \A n \in Node, r \in Request :
        node[n] # None /\ ProtocolOf[n] \in Proxied /\ node[n].enabled
            /\ node[n].adaptive # "null" /\ Adaptive(node[n]) =>
          LET named == IF PublicUrl # None THEN PublicUrl ELSE Origin(r)
              e == ProxyUri(node[n], [enabled |-> TRUE, address |-> None], PublicBaseUrl(r))
          IN  /\ e.host = named.host
              /\ e.port = (IF named.port # 0 THEN named.port
                           ELSE IF named.scheme = "https" THEN 443 ELSE 80)
              /\ e.security = "tls" <=> named.scheme = "https"
              /\ e.wsHost.port \in {0, e.port}

(***************************************************************************)
(* A start never moves a client: the links of a node whose metadata says   *)
(* whether it is adaptive are the same before and after it; an address     *)
(* fixed in the panel is kept (PHASE1_CHANGE_REPORT.md:10).                *)
(***************************************************************************)
RestartKeepsEndpoint ==
    [][Seed => \A n \in Node, r \in Request :
          node[n] # None /\ (n \in Default => node[n].adaptive # "unset") =>
             LET k == [enabled |-> TRUE, address |-> None]
             IN  ProxyUri(node'[n], k, PublicBaseUrl(r)) = ProxyUri(node[n], k, PublicBaseUrl(r))]_vars

(***************************************************************************)
(* The control plane comes up, from any database and any half start,       *)
(* unless it is stopped again and again, or is locked out: a default node  *)
(* was given metadata null (nodes.py:89-90), which lets no start through   *)
(* (main.py:66), and no handler is left to undo it.                        *)
(***************************************************************************)
LockedOut == phase # "serving" /\ NullMetadata

BootSucceeds == []<>(phase = "serving") \/ []<><<Crash>>_vars \/ <>[]LockedOut
=============================================================================
