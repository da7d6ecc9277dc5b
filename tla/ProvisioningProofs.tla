------------------------- MODULE ProvisioningProofs -------------------------
(***************************************************************************)
(* Theorems about Provisioning, for any nodes, users, networks, addresses, *)
(* paths and requests.  Each invariant rests on the types of the rows, and on    *)
(* keys never outliving their node: nodes are disabled, never deleted.     *)
(***************************************************************************)
EXTENDS Provisioning, WellFoundedInduction, TLAPS

-----------------------------------------------------------------------------
(***************************************************************************)
(* Lemmas about the operators.                                             *)
(***************************************************************************)

\* What the loop over network.hosts() finds: a set of naturals has a least one.
LEMMA LeastNatural ==
    ASSUME NEW T \in SUBSET Nat, T # {}
    PROVE  \E a \in T : \A b \in T : a <= b
<1> DEFINE Less == {ss \in Nat \X Nat : ss[1] < ss[2]}
<1>1. Less = OpToRel(<, Nat)
  BY Zenon DEF OpToRel
<1>2. IsWellFoundedOn(Less, Nat)
  BY NatLessThanWellFounded, <1>1, Zenon
<1> HIDE DEF Less
<1>3. PICK a \in T : \A b \in T : <<b, a>> \notin Less
  BY <1>2, WFMin, Zenon
<1>4. ASSUME NEW b \in T PROVE a <= b
  <2>1. ~(<<b, a>> \in Less)
    BY <1>3
  <2>2. a \in Nat /\ b \in Nat
    OBVIOUS
  <2>3. ~(b < a)
    BY <2>1, <2>2 DEF Less
  <2> QED
    BY <2>2, <2>3
<1> QED
  BY <1>4

\* The fields of a row that the code tests.
LEMMA RowFields ==
    ASSUME NEW n \in Node, NEW r \in Rows(n)
    PROVE  /\ r.protocol = ProtocolOf[n]
           /\ r.adaptive \in {"unset", "no", "yes", "null"}
           /\ r.enabled \in BOOLEAN
           /\ ProtocolOf[n] = "wireguard" => r.pool \in Pool \cup {None}
<1>1. CASE ProtocolOf[n] \in Proxied
  <2>1. PICK place \in Chosen \cup {AutoPlace}, path \in Path,
             a \in {"unset", "no", "yes", "null"}, e \in BOOLEAN :
           r = Row(n, place, path, a, e, None)
    BY <1>1 DEF Rows
  <2> QED
    BY <1>1, <2>1 DEF Row, Proxied
<1>2. CASE ProtocolOf[n] \notin Proxied
  <2>1. PICK place \in Chosen, e \in BOOLEAN, p \in Pool \cup {None} :
           r = Row(n, place, None, IF p = None THEN "null" ELSE "unset", e, p)
    BY <1>2 DEF Rows
  <2> QED
    BY <2>1 DEF Row
<1> QED
  BY <1>1, <1>2

\* The row of a proxied node can have any path there is.
LEMMA ProxiedRow ==
    ASSUME NEW n \in Node, ProtocolOf[n] \in Proxied, NEW r \in Rows(n)
    PROVE  r.path \in Path
<1>1. PICK place \in Chosen \cup {AutoPlace}, path \in Path,
           a \in {"unset", "no", "yes", "null"}, e \in BOOLEAN :
         r = Row(n, place, path, a, e, None)
  BY DEF Rows
<1> QED
  BY <1>1 DEF Row

LEMMA RowSetEnabled ==
    ASSUME NEW n, NEW place, NEW path, NEW a, NEW e, NEW p, NEW v
    PROVE  [Row(n, place, path, a, e, p) EXCEPT !.enabled = v] = Row(n, place, path, a, v, p)
BY DEF Row

LEMMA SwitchedRow ==
    ASSUME NEW n \in Node, NEW r \in Rows(n), NEW v \in BOOLEAN
    PROVE  [r EXCEPT !.enabled = v] \in Rows(n)
<1>1. CASE ProtocolOf[n] \in Proxied
  <2>1. PICK place \in Chosen \cup {AutoPlace}, path \in Path,
             a \in {"unset", "no", "yes", "null"}, e \in BOOLEAN :
           r = Row(n, place, path, a, e, None)
    BY <1>1 DEF Rows
  <2>2. [r EXCEPT !.enabled = v] = Row(n, place, path, a, v, None)
    BY <2>1, RowSetEnabled
  <2> QED
    BY <1>1, <2>2 DEF Rows
<1>2. CASE ProtocolOf[n] \notin Proxied
  <2>1. PICK place \in Chosen, e \in BOOLEAN, p \in Pool \cup {None} :
           r = Row(n, place, None, IF p = None THEN "null" ELSE "unset", e, p)
    BY <1>2 DEF Rows
  <2>2. [r EXCEPT !.enabled = v]
          = Row(n, place, None, IF p = None THEN "null" ELSE "unset", v, p)
    BY <2>1, RowSetEnabled
  <2> QED
    BY <1>2, <2>2 DEF Rows
<1> QED
  BY <1>1, <1>2

LEMMA SeededRow ==
    ASSUME NEW n \in Default, NEW r \in Rows(n) \cup {None}
    PROVE  Seeded(n, r) \in Rows(n)
<1>1. n \in Node /\ ProtocolOf[n] \in Proxied
  BY NodeAssumption
<1>2. \A path \in Path, a \in {"unset", "no", "yes", "null"}, e \in BOOLEAN :
        Row(n, AutoPlace, path, a, e, None) \in Rows(n)
  BY <1>1 DEF Rows
<1>3. r # None => r.enabled \in BOOLEAN /\ r.path \in Path
  BY <1>1, RowFields, ProxiedRow
<1>4. SeedPath \in Path
  BY PathAssumption
<1> QED
  BY <1>2, <1>3, <1>4 DEF Seeded

LEMMA FreeType ==
    ASSUME NEW n \in Node, ProtocolOf[n] = "wireguard", node[n] \in Rows(n), node[n].pool # None
    PROVE  Free(n) \in SUBSET Nat
<1>1. node[n].pool \in [first : Nat, size : Nat]
  BY RowFields, PoolAssumption
<1>2. Clients(node[n].pool) \subseteq Nat
  BY <1>1 DEF Clients
<1> QED
  BY <1>2 DEF Free

\* The address of a new key is one that no other key of the node has.
LEMMA NewAddress ==
    ASSUME NEW n \in Node, ProtocolOf[n] = "wireguard", node[n] \in Rows(n), CanKey(n)
    PROVE  NewKey(n).address \in Nat \ Used(n)
<1>1. Free(n) \in SUBSET Nat /\ Free(n) # {}
  BY FreeType DEF CanKey
<1>2. \E a \in Free(n) : \A b \in Free(n) : a <= b
  BY <1>1, LeastNatural
<1>3. NewKey(n).address \in Free(n)
  BY <1>2 DEF NewKey
<1> QED
  BY <1>1, <1>3 DEF Free

LEMMA NewKeyType ==
    ASSUME NEW n \in Node, node[n] \in Rows(n), CanKey(n)
    PROVE  NewKey(n) \in Key
<1>1. CASE ProtocolOf[n] = "wireguard"
  <2>1. NewKey(n).address \in Nat
    BY <1>1, NewAddress
  <2> QED
    BY <2>1 DEF NewKey, Key
<1>2. CASE ProtocolOf[n] # "wireguard"
  BY <1>2 DEF NewKey, Key
<1> QED
  BY <1>1, <1>2
-----------------------------------------------------------------------------
(***************************************************************************)
(* Types.                                                                  *)
(***************************************************************************)
NodesTyped ==
    /\ node = [n \in Node |-> node[n]]
    /\ \A n \in Node : node[n] \in Rows(n) \cup {None}

LEMMA InitType == Init => TypeOK
<1> SUFFICES ASSUME Init PROVE TypeOK
  OBVIOUS
<1>1. PICK place \in Chosen :
         node = [n \in Node |-> IF tables = "initial" /\ n \in Default
                               THEN Row(n, place, SeedPath, "unset", TRUE, None) ELSE None]
  BY DEF Init
<1>2. ASSUME NEW n \in Node PROVE node[n] \in Rows(n) \cup {None}
  <2>1. CASE n \in Default
    <3>1. ProtocolOf[n] \in Proxied
      BY <2>1, NodeAssumption
    <3>2. \A e \in BOOLEAN : Row(n, place, SeedPath, "unset", e, None) \in Rows(n)
      BY <3>1, PathAssumption DEF Rows
    <3> QED
      BY <1>1, <3>2
  <2>2. CASE n \notin Default
    BY <1>1, <2>2
  <2> QED
    BY <2>1, <2>2
<1>3. node = [n \in Node |-> node[n]]
  BY <1>1, Zenon
<1> QED
  BY <1>2, <1>3 DEF Init, TypeOK, Revision

LEMMA NodesStep ==
    ASSUME TypeOK, [Next]_vars
    PROVE  NodesTyped'
<1>1. CASE Seed
  <2>1. node' = [n \in Node |-> IF n \in Default THEN Seeded(n, node[n]) ELSE node[n]]
    BY <1>1 DEF Seed
  <2>2. \A n \in Node : node'[n] \in Rows(n) \cup {None}
    BY <2>1, SeededRow DEF TypeOK
  <2>3. node' = [n \in Node |-> node'[n]]
    BY <2>1, Zenon
  <2> QED
    BY <2>2, <2>3 DEF NodesTyped
<1>2. ASSUME NEW n \in Node, NEW r \in Rows(n), node' = [node EXCEPT ![n] = r]
      PROVE  NodesTyped'
  <2>1. node' = [m \in Node |-> IF m = n THEN r ELSE node[m]]
    BY <1>2, Zenon DEF TypeOK
  <2>2. \A m \in Node : node'[m] \in Rows(m) \cup {None}
    BY <2>1 DEF TypeOK
  <2>3. node' = [m \in Node |-> node'[m]]
    BY <2>1, Zenon
  <2> QED
    BY <2>2, <2>3 DEF NodesTyped
<1>3. ASSUME NEW n \in Node, DisableNode(n) PROVE NodesTyped'
  <2>1. PICK v \in BOOLEAN : node' = [node EXCEPT ![n] = [node[n] EXCEPT !.enabled = v]]
    BY <1>3 DEF DisableNode
  <2>2. node[n] \in Rows(n)
    BY <1>3 DEF DisableNode, TypeOK
  <2>3. [node[n] EXCEPT !.enabled = v] \in Rows(n)
    BY <2>2, SwitchedRow
  <2> QED
    BY <1>2, <2>1, <2>3
<1>4. CASE UNCHANGED node
  BY <1>4 DEF TypeOK, NodesTyped
<1>5. \/ Seed
      \/ \E n \in Node : CreateNode(n) \/ UpdateNode(n) \/ DisableNode(n)
      \/ UNCHANGED node
  BY DEF Next, vars, data, Boot, Stamp, Upgrade, SeedFails, Serve, Crash, CreateUser, DeleteUser,
         UpdateUser, ResetUsage, RunOut, AttachNode, DetachNode
<1>6. ASSUME NEW n \in Node, CreateNode(n) \/ UpdateNode(n)
      PROVE  \E r \in Rows(n) : node' = [node EXCEPT ![n] = r]
  BY <1>6 DEF CreateNode, UpdateNode, NewRows
<1> QED
  BY <1>1, <1>2, <1>3, <1>4, <1>5, <1>6

LEMMA KeysStep ==
    ASSUME TypeOK, [Next]_vars
    PROVE  key' \in [User \X Node -> Key \cup {None}]
<1> USE DEF TypeOK
<1>1. ASSUME NEW u \in User, CreateUser(u) PROVE key' \in [User \X Node -> Key \cup {None}]
  <2>1. PICK ids \in SUBSET Node :
           LET given == IF ids = {} THEN Enabled ELSE Enabled \cap ids
           IN  /\ \A n \in given : CanKey(n)
               /\ key' = [k \in User \X Node |->
                            IF k[1] = u /\ k[2] \in given THEN NewKey(k[2]) ELSE key[k]]
    BY <1>1 DEF CreateUser
  <2> DEFINE given == IF ids = {} THEN Enabled ELSE Enabled \cap ids
  <2>2. \A n \in given : NewKey(n) \in Key
    BY <2>1, NewKeyType DEF Enabled
  <2> QED
    BY <2>1, <2>2
<1>2. ASSUME NEW u \in User, NEW n \in Node, AttachNode(u, n)
      PROVE  key' \in [User \X Node -> Key \cup {None}]
  <2>1. CASE key[<<u, n>>] # None
    <3>1. key' = [key EXCEPT ![<<u, n>>].enabled = TRUE]
      BY <1>2, <2>1 DEF AttachNode
    <3>2. key[<<u, n>>] \in Key
      BY <2>1
    <3>3. [key[<<u, n>>] EXCEPT !.enabled = TRUE] \in Key
      BY <3>2 DEF Key
    <3> QED
      BY <3>1, <3>3
  <2>2. CASE key[<<u, n>>] = None
    BY <1>2, <2>2, NewKeyType DEF AttachNode
  <2> QED
    BY <2>1, <2>2
<1>3. ASSUME NEW u \in User, DeleteUser(u) \/ (\E n \in Node : DetachNode(u, n))
      PROVE  key' \in [User \X Node -> Key \cup {None}]
  BY <1>3 DEF DeleteUser, DetachNode
<1>4. CASE UNCHANGED key
  BY <1>4
<1> QED
  BY <1>1, <1>2, <1>3, <1>4
  DEF Next, vars, data, Boot, Stamp, Upgrade, Seed, SeedFails, Serve, Crash, CreateNode, UpdateNode,
      DisableNode, UpdateUser, ResetUsage, RunOut

LEMMA TypeStep == TypeOK /\ [Next]_vars => TypeOK'
<1> SUFFICES ASSUME TypeOK, [Next]_vars PROVE TypeOK'
  OBVIOUS
<1>1. /\ tables' \in Revision
      /\ stamp' \in Revision
      /\ phase' \in {"down", "migrated", "seeded", "serving", "failed"}
  BY DEF TypeOK, Next, vars, data, Revision, Boot, Stamp, LEGACY_SCHEMA_REVISION, Upgrade, Seed,
         SeedFails, Serve, Crash, Administers, CreateNode, UpdateNode, DisableNode, CreateUser, DeleteUser,
         UpdateUser, ResetUsage, RunOut, AttachNode, DetachNode
<1>2. user' \in [User -> {"absent", "allowed", "refused"}]
  BY DEF TypeOK, Next, vars, data, Boot, Stamp, Upgrade, Seed, SeedFails, Serve, Crash, CreateNode,
         UpdateNode, DisableNode, CreateUser, DeleteUser, UpdateUser, ResetUsage, RunOut, AttachNode,
         DetachNode
<1>3. clients' \subseteq User \X Node
  BY DEF TypeOK, Next, vars, data, Boot, Stamp, Upgrade, Seed, SeedFails, Serve, Crash, CreateNode,
         UpdateNode, DisableNode, CreateUser, DeleteUser, UpdateUser, ResetUsage, RunOut,
         AttachNode, DetachNode, Reconcile, Snapshot
<1> QED
  BY <1>1, <1>2, <1>3, NodesStep, KeysStep DEF TypeOK, NodesTyped

\* The variables keep their types: every row is one that an administrator or
\* the start can have written, and every address is a number.
THEOREM TypeCorrect == Spec => []TypeOK
<1> QED
  BY InitType, TypeStep, PTL DEF Spec
-----------------------------------------------------------------------------
(***************************************************************************)
(* The schema.                                                             *)
(***************************************************************************)

\* Tables without a revision are never the newest ones.
SchemaInv ==
    /\ SchemaTold
    /\ stamp = "none" => tables \in {"none", "initial"}

\* The revision tells what the tables are, and nothing runs on narrow counters
\* (migrations.py): wherever a start was cut.
THEOREM SchemaIsTold == Spec => []SchemaTold
<1>1. Init => SchemaInv
  BY DEF Init, SchemaInv, SchemaTold
<1>2. SchemaInv /\ [Next]_vars => SchemaInv'
  <2> SUFFICES ASSUME SchemaInv, [Next]_vars PROVE SchemaInv'
    OBVIOUS
  <2> USE DEF SchemaInv, SchemaTold
  <2>1. CASE Stamp
    BY <2>1 DEF Stamp, Stopped, LEGACY_SCHEMA_REVISION
  <2>2. CASE Upgrade
    BY <2>2 DEF Upgrade, CanUpgrade
  <2>3. CASE Seed \/ SeedFails \/ Serve \/ Crash
    BY <2>3 DEF Seed, SeedFails, Serve, Crash, Stopped
  <2>4. CASE UNCHANGED <<tables, stamp, phase>>
    BY <2>4
  <2> QED
    BY <2>1, <2>2, <2>3, <2>4
    DEF Next, vars, data, Boot, Administers, CreateNode, UpdateNode, DisableNode, CreateUser,
        DeleteUser, UpdateUser, ResetUsage, RunOut, AttachNode, DetachNode
<1>3. SchemaInv => SchemaTold
  BY DEF SchemaInv
<1> QED
  BY <1>1, <1>2, <1>3, PTL DEF Spec
-----------------------------------------------------------------------------
(***************************************************************************)
(* Keys: of a node that exists, and with addresses of their own.           *)
(***************************************************************************)
KeysHaveNode == \A u \in User, n \in Node : key[<<u, n>>] # None => node[n] # None

\* What a step makes of a key: nothing, a new key, or the key there was.
KeyOrigin(u, n) ==
    \/ key'[<<u, n>>] = None
    \/ /\ node[n] # None
       /\ CanKey(n)
       /\ key'[<<u, n>>] = NewKey(n)
       /\ \A v \in User \ {u} : key'[<<v, n>>] = key[<<v, n>>]
    \/ /\ key[<<u, n>>] # None
       /\ key'[<<u, n>>].address = key[<<u, n>>].address

LEMMA KeysComeFrom ==
    ASSUME TypeOK, [Next]_vars, NEW u \in User, NEW n \in Node
    PROVE  KeyOrigin(u, n)
<1> USE DEF TypeOK
<1>1. ASSUME NEW w \in User, CreateUser(w) PROVE KeyOrigin(u, n)
  <2>1. PICK ids \in SUBSET Node :
           LET given == IF ids = {} THEN Enabled ELSE Enabled \cap ids
           IN  /\ \A m \in given : CanKey(m)
               /\ key' = [k \in User \X Node |->
                            IF k[1] = w /\ k[2] \in given THEN NewKey(k[2]) ELSE key[k]]
    BY <1>1 DEF CreateUser
  <2> DEFINE given == IF ids = {} THEN Enabled ELSE Enabled \cap ids
  <2>2. CASE u = w /\ n \in given
    <3>1. node[n] # None /\ CanKey(n)
      BY <2>1, <2>2 DEF Enabled
    <3>2. key'[<<u, n>>] = NewKey(n)
      BY <2>1, <2>2
    <3>3. \A v \in User \ {u} : key'[<<v, n>>] = key[<<v, n>>]
      BY <2>1, <2>2
    <3> QED
      BY <3>1, <3>2, <3>3 DEF KeyOrigin
  <2>3. CASE ~(u = w /\ n \in given)
    <3>1. key'[<<u, n>>] = key[<<u, n>>]
      BY <2>1, <2>3
    <3> QED
      BY <3>1 DEF KeyOrigin
  <2> QED
    BY <2>2, <2>3
<1>2. ASSUME NEW w \in User, NEW m \in Node, AttachNode(w, m) PROVE KeyOrigin(u, n)
  <2>1. CASE <<u, n>> # <<w, m>>
    <3>1. key'[<<u, n>>] = key[<<u, n>>]
      BY <1>2, <2>1 DEF AttachNode
    <3> QED
      BY <3>1 DEF KeyOrigin
  <2>2. CASE <<u, n>> = <<w, m>> /\ key[<<u, n>>] # None
    <3>1. key' = [key EXCEPT ![<<u, n>>] = [key[<<u, n>>] EXCEPT !.enabled = TRUE]]
      BY <1>2, <2>2 DEF AttachNode
    <3>2. key[<<u, n>>] \in Key
      BY <2>2
    <3>3. [key[<<u, n>>] EXCEPT !.enabled = TRUE].address = key[<<u, n>>].address
      BY <3>2 DEF Key
    <3> QED
      BY <2>2, <3>1, <3>3 DEF KeyOrigin
  <2>3. CASE <<u, n>> = <<w, m>> /\ key[<<u, n>>] = None
    <3>1. /\ node[n] # None
          /\ CanKey(n)
          /\ key' = [key EXCEPT ![<<u, n>>] = NewKey(n)]
      BY <1>2, <2>3 DEF AttachNode
    <3> QED
      BY <3>1 DEF KeyOrigin
  <2> QED
    BY <2>1, <2>2, <2>3
<1>3. ASSUME NEW w \in User, DeleteUser(w) \/ (\E m \in Node : DetachNode(w, m))
      PROVE  KeyOrigin(u, n)
  BY <1>3 DEF DeleteUser, DetachNode, KeyOrigin
<1>4. CASE UNCHANGED key
  BY <1>4 DEF KeyOrigin
<1> QED
  BY <1>1, <1>2, <1>3, <1>4
  DEF Next, vars, data, Boot, Stamp, Upgrade, Seed, SeedFails, Serve, Crash, CreateNode, UpdateNode,
      DisableNode, UpdateUser, ResetUsage, RunOut

\* Nodes are never deleted.
LEMMA NodesStay ==
    ASSUME TypeOK, [Next]_vars, NEW n \in Node, node[n] # None
    PROVE  node'[n] # None
<1>1. CASE Seed
  <2>1. Seeded(n, node[n]) # None \/ n \notin Default
    BY SeededRow, NoneAssumption DEF TypeOK
  <2> QED
    BY <1>1, <2>1 DEF Seed
<1>2. ASSUME NEW m \in Node, NEW r \in Rows(m), node' = [node EXCEPT ![m] = r]
      PROVE  node'[n] # None
  <2>1. node' = [i \in Node |-> IF i = m THEN r ELSE node[i]]
    BY <1>2, Zenon DEF TypeOK
  <2> QED
    BY <2>1, NoneAssumption
<1>3. ASSUME NEW m \in Node, DisableNode(m)
      PROVE  \E r \in Rows(m) : node' = [node EXCEPT ![m] = r]
  <2>1. PICK v \in BOOLEAN : node' = [node EXCEPT ![m] = [node[m] EXCEPT !.enabled = v]]
    BY <1>3 DEF DisableNode
  <2>2. node[m] \in Rows(m)
    BY <1>3 DEF DisableNode, TypeOK
  <2> QED
    BY <2>1, <2>2, SwitchedRow
<1>4. ASSUME NEW m \in Node, CreateNode(m) \/ UpdateNode(m)
      PROVE  \E r \in Rows(m) : node' = [node EXCEPT ![m] = r]
  BY <1>4 DEF CreateNode, UpdateNode, NewRows
<1>5. \/ Seed
      \/ \E m \in Node : CreateNode(m) \/ UpdateNode(m) \/ DisableNode(m)
      \/ UNCHANGED node
  BY DEF Next, vars, data, Boot, Stamp, Upgrade, SeedFails, Serve, Crash, CreateUser, DeleteUser,
         UpdateUser, ResetUsage, RunOut, AttachNode, DetachNode
<1> QED
  BY <1>1, <1>2, <1>3, <1>4, <1>5

LEMMA AddressStep == TypeOK /\ AddressesDistinct /\ [Next]_vars => AddressesDistinct'
<1> SUFFICES ASSUME TypeOK, AddressesDistinct, [Next]_vars,
                    NEW n \in Node, ProtocolOf[n] = "wireguard",
                    NEW u \in User, NEW v \in User, u # v,
                    key'[<<u, n>>] # None, key'[<<v, n>>] # None
             PROVE  key'[<<u, n>>].address # key'[<<v, n>>].address
  BY DEF AddressesDistinct, KeysOf, WireguardProfile
<1>1. ASSUME NEW a \in User, NEW b \in User, a # b,
             key'[<<b, n>>] # None,
             node[n] # None, CanKey(n), key'[<<a, n>>] = NewKey(n),
             \A w \in User \ {a} : key'[<<w, n>>] = key[<<w, n>>]
      PROVE  key'[<<a, n>>].address # key'[<<b, n>>].address
  <2>1. key'[<<a, n>>].address \in Nat \ Used(n)
    BY <1>1, NewAddress DEF TypeOK
  <2>2. key'[<<b, n>>] = key[<<b, n>>] /\ key[<<b, n>>] # None
    BY <1>1
  <2>3. key[<<b, n>>].address \in Used(n) \cup {None}
    BY <2>2 DEF Used
  <2> QED
    BY <2>1, <2>2, <2>3, PoolAssumption
<1>2. CASE /\ key[<<u, n>>] # None /\ key'[<<u, n>>].address = key[<<u, n>>].address
           /\ key[<<v, n>>] # None /\ key'[<<v, n>>].address = key[<<v, n>>].address
  BY <1>2 DEF AddressesDistinct, KeysOf, WireguardProfile
<1>3. KeyOrigin(u, n) /\ KeyOrigin(v, n)
  BY KeysComeFrom
<1> QED
  BY <1>1, <1>2, <1>3 DEF KeyOrigin

\* A WireGuard address is given to one user (_next_wireguard_address), through
\* detaching, deletion and every change of client_cidr.
THEOREM AddressesAreDistinct == Spec => []AddressesDistinct
<1>1. Init => AddressesDistinct
  BY DEF Init, AddressesDistinct, KeysOf
<1> QED
  BY <1>1, TypeCorrect, AddressStep, PTL DEF Spec

\* A key belongs to a node that exists: create_access_key is given a node, and
\* no handler deletes one.
THEOREM KeysKeepNode == Spec => []KeysHaveNode
<1>1. Init => KeysHaveNode
  BY DEF Init, KeysHaveNode
<1>2. TypeOK /\ KeysHaveNode /\ [Next]_vars => KeysHaveNode'
  <2> SUFFICES ASSUME TypeOK, KeysHaveNode, [Next]_vars,
                      NEW u \in User, NEW n \in Node, key'[<<u, n>>] # None
               PROVE  node'[n] # None
    BY DEF KeysHaveNode
  <2>1. node[n] # None
    BY KeysComeFrom DEF KeyOrigin, KeysHaveNode
  <2> QED
    BY <2>1, NodesStay
<1> QED
  BY <1>1, <1>2, TypeCorrect, PTL DEF Spec
-----------------------------------------------------------------------------
(***************************************************************************)
(* Links.                                                                  *)
(***************************************************************************)

\* What time and traffic have done since the last snapshot is all that Xray's
\* clients lag behind.
ClientsKept ==
    phase = "serving" => \A k \in User \X Node :
                            k \in clients /\ user[k[1]] = "allowed" <=> k \in Snapshot

LEMMA ClientsStep == TypeOK /\ ClientsKept /\ [Next]_vars => ClientsKept'
<1> SUFFICES ASSUME TypeOK, ClientsKept, [Next]_vars PROVE ClientsKept'
  OBVIOUS
<1>1. \A k \in Snapshot : user[k[1]] = "allowed"
  BY DEF Snapshot, XrayClients
<1>2. CASE Reconcile
  <2>1. \A k \in Snapshot' : user'[k[1]] = "allowed"
    BY DEF Snapshot, XrayClients
  <2> QED
    BY <1>2, <2>1 DEF Reconcile, ClientsKept
<1>3. CASE clients' = Snapshot /\ UNCHANGED data
  <2>1. Snapshot' = Snapshot /\ user' = user
    BY <1>3 DEF Snapshot, XrayClients, KeysOf, data
  <2> QED
    BY <1>1, <1>3, <2>1 DEF ClientsKept
<1>4. ASSUME NEW u \in User, RunOut(u) PROVE ClientsKept'
  <2>1. /\ user[u] = "allowed" /\ user' = [user EXCEPT ![u] = "refused"]
        /\ UNCHANGED <<phase, node, key, clients>>
    BY <1>4 DEF RunOut
  <2>2. ASSUME NEW k \in User \X Node, phase = "serving"
        PROVE  k \in clients' /\ user'[k[1]] = "allowed" <=> k \in Snapshot'
    <3>1. k \in Snapshot' <=> k \in Snapshot /\ k[1] # u
      BY <2>1 DEF Snapshot, XrayClients, KeysOf, TypeOK
    <3>2. user'[k[1]] = "allowed" <=> user[k[1]] = "allowed" /\ k[1] # u
      BY <2>1 DEF TypeOK
    <3> QED
      BY <2>1, <2>2, <3>1, <3>2 DEF ClientsKept
  <2> QED
    BY <2>1, <2>2 DEF ClientsKept
<1>5. CASE phase' # "serving"
  BY <1>5 DEF ClientsKept
<1>6. CASE UNCHANGED vars
  BY <1>6 DEF vars, ClientsKept, Snapshot, XrayClients, KeysOf
<1>7. ASSUME NEW n \in Node, CreateNode(n) \/ UpdateNode(n) \/ DisableNode(n) PROVE Reconcile
  BY <1>7 DEF CreateNode, UpdateNode, DisableNode
<1>8. ASSUME NEW u \in User, CreateUser(u) \/ UpdateUser(u) \/ ResetUsage(u) \/ DeleteUser(u)
      PROVE  Reconcile
  BY <1>8 DEF CreateUser, UpdateUser, ResetUsage, DeleteUser
<1>9. ASSUME NEW u \in User, NEW n \in Node, AttachNode(u, n) \/ DetachNode(u, n) PROVE Reconcile
  BY <1>9 DEF AttachNode, DetachNode
<1>10. CASE Boot \/ Crash
  <2>1. CASE Serve
    BY <1>3, <2>1 DEF Serve
  <2>2. CASE Stamp
    BY <1>5, <2>2 DEF Stamp, Stopped
  <2>3. CASE Upgrade \/ Seed \/ SeedFails \/ Crash
    BY <1>5, <2>3 DEF Upgrade, Seed, SeedFails, Crash
  <2> QED
    BY <1>10, <2>1, <2>2, <2>3 DEF Boot
<1> QED
  BY <1>2, <1>4, <1>6, <1>7, <1>8, <1>9, <1>10 DEF Next

\* A link with the gateway's path is offered exactly when it works, by
\* subscription_document, authorize and the clients that Xray was last given:
\* every handler that can add to what is offered reconciles.
THEOREM OfferedWorks == Spec => []OfferedIsServed
<1>1. TypeOK /\ KeysHaveNode /\ ClientsKept => OfferedIsServed
  <2> SUFFICES ASSUME TypeOK, KeysHaveNode, ClientsKept, phase = "serving", NEW u \in User
               PROVE  /\ \A r \in Request : DocumentFails(u) \/
                            {n \in Document(u, r) : node[n].path = GatewayPath} = Reached(u)
                      /\ user[u] = "allowed" =>
                            \A n \in Node : <<u, n>> \in clients => n \in Admitted(u)
    BY DEF OfferedIsServed
  <2>1. ASSUME NEW n \in Node
        PROVE  <<u, n>> \in clients /\ user[u] = "allowed" <=> n \in XrayClients(u)
    BY DEF ClientsKept, Snapshot
  <2>2. ASSUME NEW n \in KeysOf(u)
        PROVE  /\ node[n].protocol = ProtocolOf[n]
               /\ \A r \in Request : Link(node[n], PublicBaseUrl(r)) # None
               /\ Upstream(n) \in Inbounds <=> ProtocolOf[n] \in Proxied
    <3>1. n \in Node /\ node[n] \in Rows(n)
      BY DEF KeysOf, KeysHaveNode, TypeOK
    <3>2. Upstream(n) \in Inbounds <=> ProtocolOf[n] \in Proxied
      BY DEF Upstream, Inbounds, Proxied
    <3> QED
      BY <3>1, <3>2, RowFields, NoneAssumption
  <2>3. ASSUME NEW r \in Request, ~DocumentFails(u)
        PROVE  {n \in Document(u, r) : node[n].path = GatewayPath} = Reached(u)
    <3>1. Document(u, r) = XrayClients(u)
      BY <2>2, <2>3 DEF Document, XrayClients, ProxyUri, Listed
    <3>2. Reached(u) = {n \in XrayClients(u) : node[n].path = GatewayPath}
      BY <2>1, <2>2 DEF Reached, Admitted, XrayClients, KeysOf
    <3> QED
      BY <3>1, <3>2
  <2>4. ASSUME NEW n \in Node, user[u] = "allowed", <<u, n>> \in clients PROVE n \in Admitted(u)
    BY <2>1, <2>4 DEF XrayClients, Admitted
  <2> QED
    BY <2>3, <2>4
<1>2. Init => ClientsKept
  BY DEF Init, ClientsKept
<1> QED
  BY <1>1, <1>2, ClientsStep, TypeCorrect, KeysKeepNode, PTL DEF Spec

\* A start moves nobody (seed_database): a link of a node that knows whether it
\* is adaptive is the same after it.
THEOREM RestartKeepsLinks == Spec => RestartKeepsEndpoint
<1>1. ASSUME TypeOK, Seed, NEW n \in Node, NEW base, NEW k,
             node[n] # None, n \in Default => node[n].adaptive # "unset"
      PROVE  ProxyUri(node'[n], k, base) = ProxyUri(node[n], k, base)
  <2>1. node'[n] = IF n \in Default THEN Seeded(n, node[n]) ELSE node[n]
    BY <1>1 DEF Seed
  <2>2. CASE n \in Default /\ node[n].adaptive # "no"
    <3>1. node'[n] = Row(n, AutoPlace, node[n].path, "yes", node[n].enabled, None)
      BY <1>1, <2>1, <2>2 DEF Seeded
    <3>2. node[n].protocol = ProtocolOf[n] /\ node[n].adaptive = "yes"
      BY <1>1, <2>2, RowFields DEF TypeOK, Seed, NullMetadata
    <3>3. /\ node'[n].protocol = node[n].protocol
          /\ node'[n].path = node[n].path
          /\ node'[n].enabled = node[n].enabled
          /\ node'[n].adaptive = "yes"
      BY <3>1, <3>2 DEF Row
    <3>4. ProxyEndpoint(node'[n], base) = ProxyEndpoint(node[n], base)
      BY <3>2, <3>3 DEF ProxyEndpoint, Adaptive
    <3> QED
      BY <3>3, <3>4 DEF ProxyUri, Listed, Link
  <2>3. CASE ~(n \in Default /\ node[n].adaptive # "no")
    BY <1>1, <2>1, <2>3 DEF Seeded
  <2> QED
    BY <2>2, <2>3
<1>2. TypeOK /\ [Next]_vars => [Seed => \A n \in Node, r \in Request :
          node[n] # None /\ (n \in Default => node[n].adaptive # "unset") =>
             LET k == [enabled |-> TRUE, address |-> None]
             IN  ProxyUri(node'[n], k, PublicBaseUrl(r)) = ProxyUri(node[n], k, PublicBaseUrl(r))]_vars
  BY <1>1
<1> QED
  BY <1>2, TypeCorrect, PTL DEF Spec, RestartKeepsEndpoint

\* A URL keeps its meaning when its default port is left out.
LEMMA OriginKept ==
    ASSUME NEW scheme, NEW host, NEW port,
           NEW url, url = [scheme |-> scheme, host |-> host, port |-> port]
    PROVE  LET e == PublicEndpoint(BaseUrl(url))
           IN  /\ e.host = host
               /\ e.port = (IF port # 0 THEN port ELSE IF scheme = "https" THEN 443 ELSE 80)
               /\ e.security = (IF scheme = "https" THEN "tls" ELSE "none")
               /\ e.authority.port \in {0, e.port}
<1> DEFINE short == IF PortOf(url) = DefaultPort(scheme) THEN 0 ELSE PortOf(url)
<1>1. \A p : [url EXCEPT !.port = p] = [scheme |-> scheme, host |-> host, port |-> p]
  OBVIOUS
<1>2. BaseUrl(url) = [scheme |-> scheme, host |-> host, port |-> short]
  BY <1>1 DEF BaseUrl
<1>3. PortOf(url) = IF port # 0 THEN port ELSE IF scheme = "https" THEN 443 ELSE 80
  BY DEF PortOf, DefaultPort
<1>4. PortOf(BaseUrl(url)) = PortOf(url)
  <2>1. PortOf(url) # 0
    BY <1>3
  <2>2. BaseUrl(url).port = short /\ BaseUrl(url).scheme = scheme
    BY <1>2
  <2>3. PortOf(BaseUrl(url)) = IF short = 0 THEN DefaultPort(scheme) ELSE short
    BY <2>2 DEF PortOf
  <2> QED
    BY <2>1, <2>3
<1>5. BaseUrl(BaseUrl(url)).port \in {0, PortOf(url)}
  <2>1. \A p : [BaseUrl(url) EXCEPT !.port = p] = [scheme |-> scheme, host |-> host, port |-> p]
    BY <1>2
  <2> QED
    BY <2>1, <1>4 DEF BaseUrl
<1> QED
  BY <1>2, <1>3, <1>4, <1>5 DEF PublicEndpoint

\* The link of an adaptive node leads to the origin of the request or of
\* ARENA_PUBLIC_URL (public_base_url, public_endpoint): scheme, host and port.
THEOREM LinksLead == Spec => []LinksLeadToPanel
<1>1. TypeOK => LinksLeadToPanel
  <2> SUFFICES ASSUME TypeOK, NEW n \in Node, NEW r \in Request,
                      node[n] # None, ProtocolOf[n] \in Proxied, node[n].enabled,
                      node[n].adaptive # "null", Adaptive(node[n])
               PROVE  LET named == IF PublicUrl # None THEN PublicUrl ELSE Origin(r)
                          e == ProxyUri(node[n], [enabled |-> TRUE, address |-> None],
                                        PublicBaseUrl(r))
                      IN  /\ e.host = named.host
                          /\ e.port = (IF named.port # 0 THEN named.port
                                       ELSE IF named.scheme = "https" THEN 443 ELSE 80)
                          /\ e.security = "tls" <=> named.scheme = "https"
                          /\ e.wsHost.port \in {0, e.port}
    BY DEF LinksLeadToPanel
  <2> DEFINE named == IF PublicUrl # None THEN PublicUrl ELSE Origin(r)
             e == PublicEndpoint(BaseUrl(named))
             link == ProxyUri(node[n], [enabled |-> TRUE, address |-> None], PublicBaseUrl(r))
  <2>1. named = [scheme |-> named.scheme, host |-> named.host, port |-> named.port]
    <3>1. CASE PublicUrl # None
      BY <3>1, PublicUrlAssumption
    <3>2. CASE PublicUrl = None
      BY <3>2 DEF Origin
    <3> QED
      BY <3>1, <3>2
  <2>2. PublicBaseUrl(r) = BaseUrl(named)
    BY DEF PublicBaseUrl
  <2> HIDE DEF named
  <2>3. /\ e.host = named.host
        /\ e.port = (IF named.port # 0 THEN named.port
                     ELSE IF named.scheme = "https" THEN 443 ELSE 80)
        /\ e.security = (IF named.scheme = "https" THEN "tls" ELSE "none")
        /\ e.authority.port \in {0, e.port}
    BY <2>1, OriginKept
  <2>4. link = Link(node[n], BaseUrl(named))
    <3>1. node[n].protocol = ProtocolOf[n]
      BY RowFields DEF TypeOK
    <3> QED
      BY <3>1, <2>2 DEF ProxyUri, Listed
  <2> HIDE DEF e, link
  <2>5. /\ link.host = e.host
        /\ link.port = e.port
        /\ link.security = e.security
        /\ link.wsHost = e.authority
    <3> DEFINE ep == ProxyEndpoint(node[n], BaseUrl(named))
    <3>1. ep = [host |-> e.host, port |-> e.port, security |-> e.security,
                sni |-> IF e.security = "tls" THEN e.host ELSE None,
                wsHost |-> e.authority]
      BY DEF ProxyEndpoint, e
    <3> HIDE DEF ep
    <3>2. /\ link.host = ep.host /\ link.port = ep.port
          /\ link.security = ep.security /\ link.wsHost = ep.wsHost
      BY <2>4 DEF Link, ep
    <3> QED
      BY <3>1, <3>2
  <2> QED
    BY <2>3, <2>5 DEF named, link
<1> QED
  BY <1>1, TypeCorrect, PTL
-----------------------------------------------------------------------------
(***************************************************************************)
(* The lock-out.                                                           *)
(***************************************************************************)

\* A start that has seeded found no null, and nothing writes a node before it serves.
SeededWhole == phase = "seeded" => ~NullMetadata

LEMMA SeededWholeStep == TypeOK /\ SeededWhole /\ [Next]_vars => SeededWhole'
<1> SUFFICES ASSUME TypeOK, SeededWhole, [Next]_vars, phase' = "seeded" PROVE ~NullMetadata'
  BY DEF SeededWhole
<1>1. CASE Seed
  <2> SUFFICES ASSUME NEW n \in Default PROVE node'[n].adaptive # "null"
    BY DEF NullMetadata
  <2>1. n \in Node /\ node'[n] = Seeded(n, node[n])
    BY <1>1, NodeAssumption DEF Seed
  <2>2. \A path, e : Row(n, AutoPlace, path, "yes", e, None).adaptive = "yes"
    BY DEF Row
  <2> QED
    BY <2>1, <2>2 DEF Seeded
<1>2. CASE ~Seed
  <2>1. UNCHANGED <<phase, node>>
    BY <1>2
    DEF Next, vars, data, Boot, Stamp, Upgrade, SeedFails, Serve, Crash, Administers, CreateNode,
        UpdateNode, DisableNode, CreateUser, UpdateUser, ResetUsage, RunOut, DeleteUser,
        AttachNode, DetachNode
  <2> QED
    BY <2>1 DEF SeededWhole, NullMetadata
<1> QED
  BY <1>1, <1>2

\* What lets no start through lasts: once the process is down with a default
\* node whose metadata is null (main.py:66), no start serves, and only a handler
\* that serves could set the metadata again.
THEOREM LockOutLasts == Spec => [][LockedOut => LockedOut']_vars
<1>1. ASSUME SeededWhole, Next, LockedOut PROVE LockedOut'
  <2>1. phase # "serving" /\ NullMetadata
    BY <1>1 DEF LockedOut
  <2>2. ~Seed /\ ~Serve
    BY <1>1, <2>1 DEF Seed, Serve, SeededWhole
  <2>3. UNCHANGED node /\ phase' # "serving"
    BY <1>1, <2>1, <2>2
    DEF Next, Boot, Stamp, Upgrade, SeedFails, Crash, data, Administers, CreateNode,
        UpdateNode, DisableNode, CreateUser, UpdateUser, ResetUsage, RunOut, DeleteUser,
        AttachNode, DetachNode
  <2> QED
    BY <2>1, <2>3 DEF LockedOut, NullMetadata
<1>2. Init => SeededWhole
  BY DEF Init, SeededWhole
<1> QED
  BY <1>1, <1>2, SeededWholeStep, TypeCorrect, PTL DEF Spec
=============================================================================
