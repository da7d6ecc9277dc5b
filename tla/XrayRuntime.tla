----------------------------- MODULE XrayRuntime -----------------------------
(***************************************************************************)
(* The Xray runtime of the control plane (backend/app/xray.py): it owns    *)
(* the Xray process, keeps a record of the clients it has given it, and    *)
(* brings both to the state of the database after every administrator's    *)
(* change (reconcile), one change at a time under an asyncio lock.         *)
(*                                                                         *)
(* The administrator's handlers are coroutines of one event loop.  From    *)
(* the commit to the lock queue they do not await, so the commit, the      *)
(* snapshot of the wanted clients and the place in the queue are one step; *)
(* every command to Xray awaits a subprocess and is a step of its own,     *)
(* between which other handlers run, and Xray may crash.  Clients lose     *)
(* their entitlement by time or traffic as well, without a reconcile: the  *)
(* next snapshot shows it, and a snapshot here is any set of clients.      *)
(***************************************************************************)
EXTENDS Naturals, Sequences, SequencesExt

CONSTANTS
    Client,         \* clients of the vless and vmess inbounds
    Vless,          \* the vless ones; the others are vmess
    Task            \* handlers of administrators' requests

ASSUME RuntimeAssumption == Vless \subseteq Client

VARIABLES
    server,     \* the control plane process: lifespan has started Xray, or not
    queue,      \* tasks that hold the lock (the first) or wait for it, in order
    stage,      \* where the holder of the lock is
    ran,        \* the last of the sync's four commands that is over
    wanted,     \* the snapshot each task has taken
    committed,  \* history: the snapshot taken last
    proc,       \* the process: none, up, or dead and not noticed
    served,     \* the clients Xray accepts
    booked,     \* XrayRuntime._clients
    fault       \* history: something failed since the last sync began

vars == <<server, queue, stage, ran, wanted, committed, proc, served, booked, fault>>

TypeOK ==
    /\ server \in {"booting", "serving"}
    /\ queue \in Seq(Task)
    /\ stage \in {"free", "apply", "stop", "start", "api"}
    /\ ran \in 0..4
    /\ wanted \in [Task -> SUBSET Client]
    /\ committed \in SUBSET Client
    /\ proc \in {"none", "up", "dead"}
    /\ served \in SUBSET Client
    /\ booked \in SUBSET Client
    /\ fault \in BOOLEAN

Init ==
    /\ server = "booting"
    /\ queue = <<>>
    /\ stage = "free"
    /\ ran = 0
    /\ wanted = [t \in Task |-> {}]
    /\ committed = {}
    /\ proc = "none"
    /\ served = {}
    /\ booked = {}
    /\ fault = FALSE

Holder == Head(queue)
Desired == wanted[Holder]
-----------------------------------------------------------------------------
\* (a waiter that takes the lock as soon as it is free)
JoinFirst(t) == IF stage = "free" THEN <<t>> \o queue ELSE <<Head(queue), t>> \o Tail(queue)

\* asyncio.Lock wakes its waiters in the order they came.
Join(t) == Append(queue, t)

\* A create, update, reset, attach, detach, delete or disable has committed.
Request(t, S) ==
    /\ server = "serving"
    /\ ~Contains(queue, t)
    /\ wanted' = [wanted EXCEPT ![t] = S]
    /\ committed' = S
    /\ queue' = Join(t)
    /\ UNCHANGED <<server, stage, ran, proc, served, booked, fault>>

\* (the clients are all replaced, not the difference)
DifferenceAll ==
    << [add |-> FALSE, clients |-> booked \cap Vless],
       [add |-> FALSE, clients |-> booked \ Vless],
       [add |-> TRUE, clients |-> Desired \cap Vless],
       [add |-> TRUE, clients |-> Desired \ Vless] >>

\* One command per inbound: removals first, then additions.
Difference ==
    LET gone == booked \ Desired
        new == Desired \ booked
    IN  << [add |-> FALSE, clients |-> gone \cap Vless],
           [add |-> FALSE, clients |-> gone \ Vless],
           [add |-> TRUE, clients |-> new \cap Vless],
           [add |-> TRUE, clients |-> new \ Vless] >>

\* A group without clients needs no command.
Left == {i \in (ran + 1)..4 : Difference[i].clients # {}}
IsNext(i) == i \in Left /\ \A j \in Left : i <= j

Acquire ==
    /\ server = "serving"
    /\ stage = "free"
    /\ queue # <<>>
    /\ IF proc = "up"
       THEN /\ stage' = "apply"
            /\ ran' = 0
            /\ fault' = FALSE
       ELSE /\ stage' = "stop"
            /\ UNCHANGED <<ran, fault>>
    /\ UNCHANGED <<server, queue, wanted, committed, proc, served, booked>>

After(m, part) == IF m.add THEN served \cup part ELSE served \ part

CommandRuns ==
    /\ stage = "apply"
    /\ proc = "up"
    /\ \E i \in Left :
          /\ IsNext(i)
          /\ served' = After(Difference[i], Difference[i].clients)
          /\ ran' = i
    /\ UNCHANGED <<server, queue, stage, wanted, committed, proc, booked, fault>>

\* (the failure is logged and the rest of the difference is skipped)
Recovery == "apply"

\* A failed command leads to a restart.
Repair == "stop"

\* The command exits with an error or times out; some of it may have happened,
\* and the rest is given up.
CommandFails ==
    /\ stage = "apply"
    /\ \E i \in Left : \E part \in SUBSET Difference[i].clients :
          /\ IsNext(i)
          /\ served' = IF proc = "up" THEN After(Difference[i], part) ELSE served
    /\ ran' = 4
    /\ stage' = Repair
    /\ fault' = TRUE
    /\ UNCHANGED <<server, queue, wanted, committed, proc, booked>>

\* The holder leaves the lock to the next task.  At boot there is no other
\* task, and the control plane serves requests only if Xray could be started.
Release(ok) ==
    /\ stage' = "free"
    /\ queue' = Tail(queue)
    /\ server' = IF server = "booting" /\ ~ok THEN "booting" ELSE "serving"

Book ==
    /\ stage = "apply"
    /\ Left = {}
    /\ booked' = Desired
    /\ ran' = 0
    /\ Release(TRUE)
    /\ UNCHANGED <<wanted, committed, proc, served, fault>>

Down == proc' = "none" /\ served' = {} /\ booked' = {}

\* _stop_locked
Stop ==
    /\ stage = "stop"
    /\ Down
    /\ ran' = 0
    /\ stage' = "start"
    /\ UNCHANGED <<server, queue, wanted, committed, fault>>

\* _start_locked up to the new process.
Spawn ==
    /\ stage = "start"
    /\ proc' = "up"
    /\ served' = Desired
    /\ stage' = "api"
    /\ UNCHANGED <<server, queue, ran, wanted, committed, booked, fault>>

\* (an exception that keeps the lock)
LeaveHeld == stage' = "leaked" /\ UNCHANGED <<queue, server>>

\* An exception releases the lock, too.
Leave == Release(FALSE)

\* The configuration is rejected or the binary cannot be run: no process.
SpawnFails ==
    /\ stage = "start"
    /\ Leave
    /\ fault' = TRUE
    /\ UNCHANGED <<ran, wanted, committed, proc, served, booked>>

ApiReady ==
    /\ stage = "api"
    /\ proc = "up"
    /\ booked' = Desired
    /\ Release(TRUE)
    /\ UNCHANGED <<ran, wanted, committed, proc, served, fault>>

\* Xray has died, or does not open its port in time: it is stopped again.
ApiFails ==
    /\ stage = "api"
    /\ Down
    /\ Release(FALSE)
    /\ fault' = TRUE
    /\ UNCHANGED <<ran, wanted, committed>>
-----------------------------------------------------------------------------
\* Xray dies by itself.  Nobody watches it: the next reconcile finds out.
Crash ==
    /\ proc = "up"
    /\ proc' = "dead"
    /\ served' = {}
    /\ fault' = TRUE
    /\ UNCHANGED <<server, queue, stage, ran, wanted, committed, booked>>

\* The control plane's container stops or dies, and Xray with it.
Halt ==
    /\ server' = "booting"
    /\ queue' = <<>>
    /\ stage' = "free"
    /\ ran' = 0
    /\ Down
    /\ fault' = TRUE
    /\ UNCHANGED <<wanted, committed>>

\* lifespan: start(db) with a snapshot of its own.
Boot(t, S) ==
    /\ server = "booting"
    /\ queue = <<>>
    /\ wanted' = [wanted EXCEPT ![t] = S]
    /\ committed' = S
    /\ queue' = <<t>>
    /\ stage' = "start"
    /\ UNCHANGED <<server, ran, proc, served, booked, fault>>

Sync ==
    \/ Acquire \/ CommandRuns \/ CommandFails \/ Book
    \/ Stop \/ Spawn \/ SpawnFails \/ ApiReady \/ ApiFails

Next ==
    \/ Sync \/ Crash \/ Halt
    \/ \E t \in Task, S \in SUBSET Client : Request(t, S) \/ Boot(t, S)

Spec == Init /\ [][Next]_vars

\* Commands end, by themselves or by their timeouts, and the event loop runs.
FairSpec == Spec /\ WF_vars(Sync)
-----------------------------------------------------------------------------
(***************************************************************************)
(* Properties.                                                             *)
(***************************************************************************)

\* Between two syncs the record of what Xray was given is what Xray accepts,
\* also after commands that failed halfway: the next difference is the right one.
RecordExact == stage = "free" /\ proc = "up" => booked = served

\* When every request has been dealt with, Xray accepts exactly the clients of
\* the snapshot taken last: no older snapshot is applied after a newer one.
SettledInSync == queue = <<>> /\ proc = "up" => served = committed

\* ARCHITECTURE.md:29 and scripts/acceptance.sh:131-135: adding and removing
\* users cuts nobody else off.  A client that is served and still wanted is cut
\* only when Xray crashes, a command fails or the control plane goes down.
OthersUndisturbed ==
    [][~fault' /\ queue # <<>> => served \cap Desired \subseteq served']_vars

\* The runtime is an Xray mirror: its goal is the snapshot being applied.
Mirror == INSTANCE XrayMirror WITH
    goal <- IF queue = <<>> THEN committed ELSE Desired,
    up <- proc = "up"

MirrorKept == Mirror!Spec

\* No administrator's request waits for Xray forever, whatever fails.
RequestsAnswered == \A t \in Task : Contains(queue, t) ~> ~Contains(queue, t)
=============================================================================
