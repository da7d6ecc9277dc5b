-------------------------- MODULE XrayRuntimeProofs --------------------------
(***************************************************************************)
(* Theorems about XrayRuntime, for any clients, inbounds and number of     *)
(* handlers: its record is exact, the newest snapshot is applied last, a   *)
(* sync cuts nobody else, and the runtime implements XrayMirror.           *)
(***************************************************************************)
EXTENDS XrayRuntime, SequenceTheorems, TLAPS

-----------------------------------------------------------------------------
(***************************************************************************)
(* Lemmas about the queue.                                                 *)
(***************************************************************************)
LEMMA QueueHead ==
    ASSUME TypeOK, queue # <<>>
    PROVE  Holder \in Task /\ Desired \in SUBSET Client
<1>1. Holder \in Task
  BY HeadTailProperties DEF TypeOK, Holder
<1> QED
  BY <1>1 DEF TypeOK, Desired

\* A new request goes behind the others; the holder keeps its snapshot.
LEMMA JoinFacts ==
    ASSUME TypeOK, NEW t \in Task, NEW S \in SUBSET Client, Request(t, S)
    PROVE  /\ queue' \in Seq(Task) /\ queue' # <<>>
           /\ queue'[Len(queue')] = t
           /\ wanted'[t] = S
           /\ queue # <<>> => Holder' = Holder /\ Desired' = Desired
           /\ queue = <<>> => Desired' = S
<1>1. queue' = Append(queue, t) /\ ~Contains(queue, t) /\ wanted' = [wanted EXCEPT ![t] = S]
  BY DEF Request, Join
<1>2. queue \in Seq(Task) /\ wanted \in [Task -> SUBSET Client]
  BY DEF TypeOK
<1>3. /\ queue' \in Seq(Task) /\ queue' # <<>>
      /\ queue'[Len(queue')] = t
  BY <1>1, <1>2, AppendProperties
<1>4. wanted'[t] = S
  BY <1>1, <1>2
<1>5. Holder' = IF queue = <<>> THEN t ELSE Holder
  BY <1>1, <1>2, HeadTailAppend DEF Holder
<1>6. ASSUME queue # <<>> PROVE Holder # t /\ Holder \in Task
  <2>1. Holder = queue[1] /\ 1 \in 1..Len(queue)
    BY <1>2, <1>6 DEF Holder
  <2> QED
    BY <2>1, <1>1, <1>6, QueueHead DEF Contains
<1> QED
  BY <1>1, <1>2, <1>3, <1>4, <1>5, <1>6 DEF Desired

\* The lock is left to the next: the last stays the last, unless it was the
\* holder.
LEMMA TailFacts ==
    ASSUME TypeOK, queue # <<>>, queue' = Tail(queue)
    PROVE  /\ queue' \in Seq(Task)
           /\ Len(queue') = Len(queue) - 1
           /\ queue' # <<>> => queue'[Len(queue')] = queue[Len(queue)]
           /\ queue' = <<>> => queue[Len(queue)] = Holder
<1>1. queue \in Seq(Task)
  BY DEF TypeOK
<1>2. /\ queue' \in Seq(Task)
      /\ Len(queue') = Len(queue) - 1
      /\ \A i \in 1..Len(queue') : queue'[i] = queue[i + 1]
  BY <1>1, HeadTailProperties
<1>3. ASSUME queue' # <<>> PROVE queue'[Len(queue')] = queue[Len(queue)]
  <2>1. Len(queue') \in 1..Len(queue')
    BY <1>2, <1>3
  <2> QED
    BY <1>1, <1>2, <2>1
<1>4. ASSUME queue' = <<>> PROVE queue[Len(queue)] = Holder
  <2>1. Len(queue) = 1
    <3>1. Len(queue') = 0 /\ Len(queue) \in Nat
      BY <1>1, <1>4, EmptySeq, LenProperties
    <3> QED
      BY <1>2, <3>1
  <2> QED
    BY <1>1, <2>1 DEF Holder
<1> QED
  BY <1>2, <1>3, <1>4
-----------------------------------------------------------------------------
(***************************************************************************)
(* Lemmas about the four commands of a sync.                               *)
(***************************************************************************)
LEMMA DifferenceParts ==
    /\ Difference[1] = [add |-> FALSE, clients |-> (booked \ Desired) \cap Vless]
    /\ Difference[2] = [add |-> FALSE, clients |-> (booked \ Desired) \ Vless]
    /\ Difference[3] = [add |-> TRUE, clients |-> (Desired \ booked) \cap Vless]
    /\ Difference[4] = [add |-> TRUE, clients |-> (Desired \ booked) \ Vless]
BY DEF Difference

\* The first two remove, the others add; together they are the difference, and
\* no client is in two of them.
LEMMA DifferenceFacts ==
    /\ \A i \in 1..4 : \A P : After(Difference[i], P) = IF i > 2 THEN served \cup P ELSE served \ P
    /\ \A i \in {1, 2} : Difference[i].clients \subseteq booked \ Desired
    /\ \A i \in {3, 4} : Difference[i].clients \subseteq Desired \ booked
    /\ booked \ Desired = Difference[1].clients \cup Difference[2].clients
    /\ Desired \ booked = Difference[3].clients \cup Difference[4].clients
    /\ \A i, j \in 1..4 : i # j => Difference[i].clients \cap Difference[j].clients = {}
<1>1. ASSUME NEW i \in 1..4, NEW P
      PROVE  After(Difference[i], P) = IF i > 2 THEN served \cup P ELSE served \ P
  <2>1. i = 1 \/ i = 2 \/ i = 3 \/ i = 4
    OBVIOUS
  <2> QED
    BY <2>1, DifferenceParts DEF After
<1>2. /\ Difference[1].clients = (booked \ Desired) \cap Vless
      /\ Difference[2].clients = (booked \ Desired) \ Vless
      /\ Difference[3].clients = (Desired \ booked) \cap Vless
      /\ Difference[4].clients = (Desired \ booked) \ Vless
  BY DifferenceParts
<1>3. ASSUME NEW i \in 1..4, NEW j \in 1..4, i # j
      PROVE  Difference[i].clients \cap Difference[j].clients = {}
  <2>1. i = 1 \/ i = 2 \/ i = 3 \/ i = 4
    OBVIOUS
  <2>2. j = 1 \/ j = 2 \/ j = 3 \/ j = 4
    OBVIOUS
  <2> QED
    BY <1>2, <1>3, <2>1, <2>2
<1> QED
  BY <1>1, <1>2, <1>3

-----------------------------------------------------------------------------
(***************************************************************************)
(* Types.                                                                  *)
(***************************************************************************)
LEMMA InitType == Init => TypeOK
<1> SUFFICES ASSUME Init PROVE TypeOK
  OBVIOUS
<1>1. queue \in Seq(Task)
  BY EmptySeq DEF Init
<1>2. fault \in BOOLEAN
  BY Zenon DEF Init
<1>3. wanted \in [Task -> SUBSET Client]
  BY DEF Init
<1> QED
  BY <1>1, <1>2, <1>3 DEF Init, TypeOK

\* A command changes only what Xray accepts, within the clients there are.
LEMMA CommandType ==
    ASSUME TypeOK, NEW i \in Left, NEW P \in SUBSET Difference[i].clients, queue # <<>>
    PROVE  i \in 1..4 /\ After(Difference[i], P) \in SUBSET Client
<1>1. i \in 1..4
  BY DEF Left, TypeOK
<1>2. Difference[i].clients \subseteq Client
  <2>1. booked \subseteq Client /\ Desired \subseteq Client
    BY QueueHead DEF TypeOK
  <2>2. i = 1 \/ i = 2 \/ i = 3 \/ i = 4
    BY <1>1
  <2> QED
    BY <2>1, <2>2, DifferenceParts
<1> QED
  BY <1>1, <1>2, DifferenceFacts DEF TypeOK

\* While a handler holds the lock it is in the queue.
LockHeld == stage # "free" => queue # <<>>

TypeInv == TypeOK /\ LockHeld

LEMMA SyncType == TypeInv /\ Sync => TypeInv'
<1> SUFFICES ASSUME TypeInv, Sync PROVE TypeInv'
  OBVIOUS
<1> USE DEF TypeInv, LockHeld
<1>1. ASSUME queue # <<>>, queue' = Tail(queue) PROVE queue' \in Seq(Task)
  BY <1>1, TailFacts
<1>2. queue # <<>> => Desired \in SUBSET Client
  BY QueueHead
<1>3. CASE Acquire
  <2>1. fault' \in BOOLEAN
    BY <1>3, Zenon DEF Acquire, TypeOK
  <2>2. stage' \in {"apply", "stop"} /\ ran' \in 0..4
    BY <1>3 DEF Acquire, TypeOK
  <2> QED
    BY <1>3, <2>1, <2>2 DEF Acquire, TypeOK
<1>4. CASE CommandRuns
  <2>1. PICK i \in Left : /\ served' = After(Difference[i], Difference[i].clients)
                          /\ ran' = i
    BY <1>4 DEF CommandRuns
  <2>2. queue # <<>>
    BY <1>4 DEF CommandRuns
  <2>3. ran' \in 0..4 /\ served' \in SUBSET Client
    <3>1. Difference[i].clients \in SUBSET Difference[i].clients
      OBVIOUS
    <3>2. i \in 1..4 /\ After(Difference[i], Difference[i].clients) \in SUBSET Client
      BY <2>2, <3>1, CommandType
    <3> QED
      BY <2>1, <3>2
  <2> QED
    BY <1>4, <2>2, <2>3 DEF CommandRuns, TypeOK
<1>5. CASE CommandFails
  <2>1. PICK i \in Left : \E P \in SUBSET Difference[i].clients :
           served' = IF proc = "up" THEN After(Difference[i], P) ELSE served
    BY <1>5 DEF CommandFails
  <2>2. queue # <<>>
    BY <1>5 DEF CommandFails
  <2>3. served' \in SUBSET Client
    BY <2>1, <2>2, CommandType DEF TypeOK
  <2> QED
    BY <1>5, <2>2, <2>3 DEF CommandFails, Repair, TypeOK
<1>6. CASE Book
  BY <1>1, <1>2, <1>6 DEF Book, Release, TypeOK
<1>7. CASE Stop
  BY <1>7 DEF Stop, Down, TypeOK
<1>8. CASE Spawn
  BY <1>2, <1>8 DEF Spawn, TypeOK
<1>9. CASE SpawnFails
  BY <1>1, <1>9 DEF SpawnFails, Leave, Release, TypeOK
<1>10. CASE ApiReady
  BY <1>1, <1>2, <1>10 DEF ApiReady, Release, TypeOK
<1>11. CASE ApiFails
  BY <1>1, <1>11 DEF ApiFails, Down, Release, TypeOK
<1> QED
  BY <1>3, <1>4, <1>5, <1>6, <1>7, <1>8, <1>9, <1>10, <1>11 DEF Sync

LEMMA TypeStep == TypeInv /\ [Next]_vars => TypeInv'
<1> SUFFICES ASSUME TypeInv, [Next]_vars PROVE TypeInv'
  OBVIOUS
<1> USE DEF TypeInv, LockHeld
<1>1. CASE Sync
  BY <1>1, SyncType
<1>2. CASE Crash
  BY <1>2 DEF Crash, TypeOK
<1>3. CASE Halt
  <2>1. queue' \in Seq(Task)
    BY <1>3, EmptySeq DEF Halt
  <2> QED
    BY <1>3, <2>1 DEF Halt, Down, TypeOK
<1>4. ASSUME NEW t \in Task, NEW S \in SUBSET Client, Request(t, S) PROVE TypeInv'
  <2>1. queue' \in Seq(Task) /\ queue' # <<>>
    BY <1>4, JoinFacts
  <2> QED
    BY <1>4, <2>1 DEF Request, TypeOK
<1>5. ASSUME NEW t \in Task, NEW S \in SUBSET Client, Boot(t, S) PROVE TypeInv'
  <2>1. queue' = <<t>> /\ queue' \in Seq(Task) /\ queue' # <<>>
    BY <1>5 DEF Boot
  <2> QED
    BY <1>5, <2>1 DEF Boot, TypeOK
<1>6. CASE UNCHANGED vars
  BY <1>6 DEF vars, TypeOK
<1> QED
  BY <1>1, <1>2, <1>3, <1>4, <1>5, <1>6 DEF Next

LEMMA TypeInvariant == Spec => []TypeInv
<1>1. Init => TypeInv
  BY InitType DEF Init, TypeInv, LockHeld
<1> QED
  BY <1>1, TypeStep, PTL DEF Spec

\* The variables keep their types.
THEOREM TypeCorrect == Spec => []TypeOK
<1>1. TypeInv => TypeOK
  BY DEF TypeInv
<1> QED
  BY <1>1, TypeInvariant, PTL
-----------------------------------------------------------------------------
(***************************************************************************)
(* The inductive invariant.                                                *)
(***************************************************************************)

\* A process that does not run accepts nobody, and none is started while one
\* runs, or is known to have died.
Process ==
    /\ proc # "up" => served = {}
    /\ stage = "start" => proc = "none"
    /\ stage = "stop" => fault \/ served = {}

\* At boot there is one task at most, and no process unless it has started it.
Booting ==
    server = "booting" =>
        /\ stage \in {"free", "start", "api"}
        /\ Len(queue) <= 1
        /\ stage = "free" => queue = <<>> /\ proc = "none"

\* In the middle of a sync Xray accepts what the commands so far have made of
\* the record; after them, or after a start, the snapshot.
Halfway ==
    /\ served \subseteq booked \cup Desired
    /\ booked \cap Desired \subseteq served
    /\ \A i \in 1..4 : \A c \in Difference[i].clients : c \in served <=> (i > 2 <=> i <= ran)

Synced ==
    /\ stage = "apply" /\ proc = "up" => Halfway
    /\ stage = "api" /\ proc = "up" => served = Desired

\* The last task in the queue has the newest snapshot.
NewestLast == queue # <<>> => wanted[queue[Len(queue)]] = committed

IInv == TypeInv /\ Process /\ Booting /\ Synced /\ NewestLast /\ RecordExact /\ SettledInSync

\* When no command is left, Xray accepts the snapshot.
LEMMA AllCommandsDone ==
    ASSUME TypeInv, Halfway, Left = {}
    PROVE  served = Desired
<1>1. \A i \in 1..4 : i <= ran \/ Difference[i].clients = {}
  BY DEF Left, TypeInv, TypeOK
<1>2. ASSUME NEW c \in booked \ Desired PROVE c \notin served
  <2>1. PICK i \in {1, 2} : c \in Difference[i].clients
    BY DifferenceFacts
  <2>2. i <= ran
    BY <1>1, <2>1
  <2> QED
    BY <2>1, <2>2 DEF Halfway
<1>3. ASSUME NEW c \in Desired \ booked PROVE c \in served
  <2>1. PICK i \in {3, 4} : c \in Difference[i].clients
    BY DifferenceFacts
  <2>2. i <= ran
    BY <1>1, <2>1
  <2> QED
    BY <2>1, <2>2 DEF Halfway
<1> QED
  BY <1>2, <1>3 DEF Halfway

LEMMA CommandStep ==
    ASSUME TypeInv, Halfway, CommandRuns
    PROVE  Halfway' /\ served \cap Desired \subseteq served'
<1>1. PICK i \in Left : /\ \A j \in Left : i <= j
                        /\ served' = After(Difference[i], Difference[i].clients)
                        /\ ran' = i
  BY DEF CommandRuns, IsNext
<1>2. i \in 1..4 /\ ran \in 0..4 /\ i > ran
  BY DEF Left, TypeInv, TypeOK
<1>3. UNCHANGED <<booked, Desired, Difference>>
  BY DEF CommandRuns, Desired, Holder, Difference
<1>4. served' = IF i > 2 THEN served \cup Difference[i].clients ELSE served \ Difference[i].clients
  BY <1>1, <1>2, DifferenceFacts
<1>5. ASSUME NEW j \in 1..4, NEW c \in Difference[j].clients
      PROVE  c \in served' <=> (j > 2 <=> j <= ran')
  <2>1. CASE j = i
    BY <1>1, <1>2, <1>4, <2>1
  <2>2. CASE j # i
    <3>1. c \notin Difference[i].clients
      BY <1>2, <2>2, DifferenceFacts
    <3>2. c \in served' <=> c \in served
      BY <1>4, <3>1
    <3>3. j \in Left \/ j <= ran
      BY <1>2, <1>5 DEF Left
    <3>4. j <= ran <=> j <= i
      BY <1>1, <1>2, <2>2, <3>3
    <3> QED
      BY <1>1, <3>2, <3>4 DEF Halfway
  <2> QED
    BY <2>1, <2>2
<1>6. /\ i > 2 => Difference[i].clients \subseteq Desired \ booked
      /\ ~(i > 2) => Difference[i].clients \subseteq booked \ Desired
  <2>1. i = 1 \/ i = 2 \/ i = 3 \/ i = 4
    BY <1>2
  <2> QED
    BY <2>1, DifferenceFacts
<1>7. /\ served' \subseteq booked \cup Desired
      /\ booked \cap Desired \subseteq served'
      /\ served \cap Desired \subseteq served'
  BY <1>4, <1>6 DEF Halfway
<1> QED
  BY <1>3, <1>5, <1>7 DEF Halfway

\* A sync begins with what the record says.
LEMMA SyncBegins ==
    ASSUME Acquire, proc = "up", booked = served
    PROVE  Halfway'
<1>1. UNCHANGED <<booked, served, Desired, Difference>> /\ ran' = 0
  BY DEF Acquire, Desired, Holder, Difference
<1>2. ASSUME NEW i \in 1..4, NEW c \in Difference[i].clients
      PROVE  c \in served <=> (i > 2 <=> i <= 0)
  <2>1. i = 1 \/ i = 2 \/ i = 3 \/ i = 4
    OBVIOUS
  <2>2. c \in served <=> ~(i > 2)
    BY <2>1, DifferenceFacts
  <2>3. ~(i <= 0)
    OBVIOUS
  <2> QED
    BY <2>2, <2>3
<1> QED
  BY <1>1, <1>2 DEF Halfway

\* The lock is left with a process that is down, or in step with the record and
\* the holder's snapshot.
LEMMA ReleaseStep ==
    ASSUME IInv, NEW ok \in BOOLEAN, Release(ok), stage # "free",
           UNCHANGED <<wanted, committed>>,
           proc' \in {"none", "dead", "up"},
           proc' # "up" => served' = {},
           proc' = "up" => booked' = served' /\ served' = Desired,
           server = "booting" /\ ~ok => proc' = "none"
    PROVE  (Process /\ Booting /\ Synced /\ NewestLast /\ RecordExact /\ SettledInSync)'
<1> USE DEF IInv, TypeInv
<1>1. queue # <<>> /\ queue' = Tail(queue) /\ stage' = "free"
  BY DEF LockHeld, Release
<1>2. /\ Len(queue') = Len(queue) - 1
      /\ queue' # <<>> => queue'[Len(queue')] = queue[Len(queue)]
      /\ queue' = <<>> => queue[Len(queue)] = Holder
      /\ queue' \in Seq(Task)
  BY <1>1, TailFacts
<1>3. Process' /\ Synced' /\ RecordExact'
  BY <1>1 DEF Process, Synced, RecordExact
<1>4. NewestLast'
  BY <1>1, <1>2 DEF NewestLast
<1>5. SettledInSync'
  BY <1>1, <1>2 DEF SettledInSync, NewestLast, Desired
<1>6. Booting'
  <2> SUFFICES ASSUME server' = "booting"
               PROVE  Len(queue') <= 1 /\ queue' = <<>> /\ proc' = "none"
    BY <1>1 DEF Booting
  <2>1. server = "booting" /\ ~ok
    BY DEF Release
  <2>2. Len(queue) <= 1 /\ Len(queue) \in Nat /\ Len(queue') \in Nat
    BY <2>1, <1>2, LenProperties DEF Booting, TypeOK
  <2>3. Len(queue') = 0
    BY <1>2, <2>2
  <2>4. queue' = <<>>
    BY <1>2, <2>3, EmptySeq
  <2> QED
    BY <2>1, <2>3, <2>4
<1> QED
  BY <1>3, <1>4, <1>5, <1>6

\* Steps of the holder.
LEMMA SyncStep == IInv /\ Sync => IInv'
<1> SUFFICES ASSUME IInv, Sync
             PROVE  (Process /\ Booting /\ Synced /\ NewestLast /\ RecordExact /\ SettledInSync)'
  BY SyncType DEF IInv
<1>1. CASE Acquire
  <2>1. Holder' = Holder /\ Desired' = Desired
    BY <1>1 DEF Acquire, Holder, Desired
  <2>2. CASE proc = "up"
    <3>1. stage' = "apply" /\ booked = served
      BY <1>1, <2>2 DEF Acquire, IInv, RecordExact
    <3>2. Halfway'
      BY <1>1, <2>2, <3>1, SyncBegins
    <3> QED
      BY <1>1, <2>2, <3>1, <3>2
      DEF Acquire, IInv, Process, Booting, Synced, NewestLast, RecordExact, SettledInSync
  <2>3. CASE proc # "up"
    BY <1>1, <2>3
    DEF Acquire, IInv, Process, Booting, Synced, NewestLast, RecordExact, SettledInSync
  <2> QED
    BY <2>2, <2>3
<1>2. CASE CommandRuns
  <2>1. stage = "apply" /\ proc = "up" /\ Halfway
    BY <1>2 DEF CommandRuns, IInv, Synced
  <2>2. Halfway'
    BY <1>2, <2>1, CommandStep DEF IInv
  <2>3. queue # <<>>
    BY <2>1 DEF IInv, TypeInv, LockHeld
  <2> QED
    BY <1>2, <2>1, <2>2, <2>3
    DEF CommandRuns, IInv, Process, Booting, Synced, NewestLast, RecordExact, SettledInSync
<1>3. CASE CommandFails
  <2>1. /\ stage = "apply" /\ stage' = "stop" /\ fault'
        /\ proc # "up" => served' = served
        /\ UNCHANGED <<server, queue, wanted, committed, proc, booked>>
    BY <1>3 DEF CommandFails, Repair
  <2>2. queue # <<>>
    BY <2>1 DEF IInv, TypeInv, LockHeld
  <2> QED
    BY <2>1, <2>2
    DEF IInv, Process, Booting, Synced, NewestLast, RecordExact, SettledInSync
<1>4. CASE Book
  <2>1. /\ stage = "apply" /\ Left = {} /\ booked' = Desired
        /\ Release(TRUE)
        /\ UNCHANGED <<wanted, committed, proc, served>>
    BY <1>4 DEF Book
  <2>2. proc' = "up" => booked' = served' /\ served' = Desired
    BY <2>1, AllCommandsDone DEF IInv, Synced
  <2>3. proc' \in {"none", "dead", "up"} /\ (proc' # "up" => served' = {})
    BY <2>1 DEF IInv, TypeInv, TypeOK, Process
  <2> QED
    BY <2>1, <2>2, <2>3, ReleaseStep
<1>5. CASE Stop
  <2>1. /\ stage = "stop" /\ stage' = "start" /\ proc' = "none" /\ served' = {}
        /\ UNCHANGED <<server, queue, wanted, committed>>
    BY <1>5 DEF Stop, Down
  <2> QED
    BY <2>1
    DEF IInv, Process, Booting, Synced, NewestLast, RecordExact, SettledInSync
<1>6. CASE Spawn
  <2>1. /\ stage = "start" /\ stage' = "api" /\ proc' = "up" /\ served' = Desired
        /\ UNCHANGED <<server, queue, wanted, committed>>
    BY <1>6 DEF Spawn
  <2>2. Desired' = Desired /\ queue # <<>>
    BY <2>1 DEF Desired, Holder, IInv, TypeInv, LockHeld
  <2> QED
    BY <2>1, <2>2
    DEF IInv, Process, Booting, Synced, NewestLast, RecordExact, SettledInSync
<1>7. CASE SpawnFails
  <2>1. /\ stage = "start" /\ Release(FALSE)
        /\ UNCHANGED <<wanted, committed, proc, served>>
    BY <1>7 DEF SpawnFails, Leave
  <2>2. proc' = "none" /\ served' = {}
    BY <2>1 DEF IInv, Process
  <2> QED
    BY <2>1, <2>2, ReleaseStep
<1>8. CASE ApiReady
  <2>1. /\ stage = "api" /\ proc = "up" /\ booked' = Desired /\ Release(TRUE)
        /\ UNCHANGED <<wanted, committed, proc, served>>
    BY <1>8 DEF ApiReady
  <2>2. served' = Desired
    BY <2>1 DEF IInv, Synced
  <2> QED
    BY <2>1, <2>2, ReleaseStep
<1>9. CASE ApiFails
  <2>1. /\ stage = "api" /\ proc' = "none" /\ served' = {} /\ Release(FALSE)
        /\ UNCHANGED <<wanted, committed>>
    BY <1>9 DEF ApiFails, Down
  <2> QED
    BY <2>1, ReleaseStep
<1> QED
  BY <1>1, <1>2, <1>3, <1>4, <1>5, <1>6, <1>7, <1>8, <1>9 DEF Sync

\* All steps.
LEMMA InvStep == IInv /\ [Next]_vars => IInv'
<1> SUFFICES ASSUME IInv, [Next]_vars
             PROVE  (Process /\ Booting /\ Synced /\ NewestLast /\ RecordExact /\ SettledInSync)'
  BY TypeStep DEF IInv
<1>1. CASE Sync
  BY <1>1, SyncStep DEF IInv
<1>2. CASE Crash
  BY <1>2
  DEF Crash, IInv, Process, Booting, Synced, NewestLast, RecordExact, SettledInSync
<1>3. CASE Halt
  <2>1. Len(queue') = 0
    BY <1>3, EmptySeq DEF Halt
  <2> QED
    BY <1>3, <2>1
    DEF Halt, Down, Process, Booting, Synced, NewestLast, RecordExact, SettledInSync
<1>4. ASSUME NEW t \in Task, NEW S \in SUBSET Client, Request(t, S)
      PROVE  (Process /\ Booting /\ Synced /\ NewestLast /\ RecordExact /\ SettledInSync)'
  <2>1. /\ queue' # <<>> /\ wanted'[queue'[Len(queue')]] = S
        /\ queue # <<>> => Desired' = Desired
    BY <1>4, JoinFacts DEF IInv, TypeInv
  <2>2. /\ server = "serving" /\ committed' = S
        /\ UNCHANGED <<server, stage, ran, proc, served, booked, fault>>
    BY <1>4 DEF Request
  <2>3. stage # "free" => queue # <<>>
    BY DEF IInv, TypeInv, LockHeld
  <2>4. stage # "free" => Difference' = Difference
    BY <2>1, <2>2, <2>3 DEF Difference
  <2>5. Synced'
    BY <2>1, <2>2, <2>3, <2>4 DEF IInv, Synced, Halfway
  <2> QED
    BY <2>1, <2>2, <2>5 DEF IInv, Process, Booting, NewestLast, RecordExact, SettledInSync
<1>5. ASSUME NEW t \in Task, NEW S \in SUBSET Client, Boot(t, S)
      PROVE  (Process /\ Booting /\ Synced /\ NewestLast /\ RecordExact /\ SettledInSync)'
  <2>1. stage = "free" /\ proc = "none" /\ served = {}
    BY <1>5 DEF Boot, IInv, TypeInv, LockHeld, Booting, Process
  <2>2. queue' = <<t>> /\ Len(queue') = 1 /\ queue'[1] = t /\ queue' # <<>>
    BY <1>5 DEF Boot
  <2>3. wanted'[t] = S /\ committed' = S
    BY <1>5 DEF Boot, IInv, TypeInv, TypeOK
  <2> QED
    BY <1>5, <2>1, <2>2, <2>3
    DEF Boot, Process, Booting, Synced, NewestLast, RecordExact, SettledInSync
<1>6. CASE UNCHANGED vars
  BY <1>6
  DEF vars, IInv, Process, Booting, Synced, Halfway, Difference, Desired, Holder, NewestLast,
      RecordExact, SettledInSync
<1> QED
  BY <1>1, <1>2, <1>3, <1>4, <1>5, <1>6 DEF Next

\* What the holder has done so far is what the record, the commands that are
\* over and its snapshot say, in every reachable state.
THEOREM Invariant == Spec => []IInv
<1>1. Init => IInv
  <2> SUFFICES ASSUME Init PROVE IInv
    OBVIOUS
  <2>1. TypeInv
    BY InitType DEF Init, TypeInv, LockHeld
  <2>2. Len(queue) = 0
    BY EmptySeq DEF Init
  <2> QED
    BY <2>1, <2>2
    DEF Init, IInv, Process, Booting, Synced, NewestLast, RecordExact, SettledInSync
<1> QED
  BY <1>1, InvStep, PTL DEF Spec

\* Between two syncs the record of XrayRuntime._clients is what Xray accepts,
\* also after commands that failed halfway.
THEOREM RecordIsExact == Spec => []RecordExact
<1>1. IInv => RecordExact
  BY DEF IInv
<1> QED
  BY <1>1, Invariant, PTL

\* The snapshot that was taken last is the one that stays: the lock serves the
\* handlers in the order of their commits.
THEOREM NewestStays == Spec => []SettledInSync
<1>1. IInv => SettledInSync
  BY DEF IInv
<1> QED
  BY <1>1, Invariant, PTL
-----------------------------------------------------------------------------
(***************************************************************************)
(* Action properties and the refinement.                                   *)
(***************************************************************************)

\* A sync in which nothing fails cuts off no client that stays wanted.
THEOREM OthersStay == Spec => OthersUndisturbed
<1>1. IInv /\ [Next]_vars =>
        [~fault' /\ queue # <<>> => served \cap Desired \subseteq served']_vars
  <2> SUFFICES ASSUME IInv, Next, ~fault', queue # <<>>
               PROVE  served \cap Desired \subseteq served'
    OBVIOUS
  <2>1. CASE UNCHANGED served
    BY <2>1
  <2>2. CASE CommandRuns
    <3>1. Halfway
      BY <2>2 DEF CommandRuns, IInv, Synced
    <3> QED
      BY <2>2, <3>1, CommandStep DEF IInv
  <2>3. CASE Stop
    <3>1. stage = "stop" /\ fault' = fault
      BY <2>3 DEF Stop
    <3> QED
      BY <3>1 DEF IInv, Process
  <2>4. CASE Spawn
    BY <2>4 DEF Spawn
  <2>5. CASE CommandFails \/ ApiFails \/ Crash \/ Halt
    BY <2>5 DEF CommandFails, ApiFails, Crash, Halt
  <2> QED
    BY <2>1, <2>2, <2>3, <2>4, <2>5
    DEF Next, Sync, Acquire, Book, SpawnFails, ApiReady, Request, Boot
<1> QED
  BY <1>1, Invariant, PTL DEF Spec, OthersUndisturbed

Goal == IF queue = <<>> THEN committed ELSE Desired

\* When the holder leaves, a further goal is set: the last one was reached, or
\* Xray is down.
LEMMA LeaveAims ==
    ASSUME IInv, IInv', stage # "free", queue' = Tail(queue), UNCHANGED <<proc, served>>,
           proc = "up" => served = Desired
    PROVE  Mirror!Aim
<1>1. queue # <<>>
  BY DEF IInv, TypeInv, LockHeld
<1>2. Goal' \in SUBSET Client
  <2>1. TypeOK'
    BY DEF IInv, TypeInv
  <2>2. queue' # <<>> => Desired' \in SUBSET Client
    <3>1. queue' # <<>> => Holder' \in Task
      BY <2>1, HeadTailProperties DEF TypeOK, Holder
    <3> QED
      BY <2>1, <3>1 DEF TypeOK, Desired
  <2> QED
    BY <2>1, <2>2 DEF Goal, TypeOK
<1> QED
  BY <1>1, <1>2 DEF Goal, Mirror!Aim

LEMMA MirrorStep == IInv /\ IInv' /\ [Next]_vars => [Mirror!Next]_<<Goal, served, proc = "up">>
<1> SUFFICES ASSUME IInv, IInv', [Next]_vars
             PROVE  Mirror!Next \/ UNCHANGED <<Goal, served, proc = "up">>
  OBVIOUS
<1> USE DEF Mirror!Next
<1>1. stage # "free" => queue # <<>> /\ Goal = Desired /\ Desired \in SUBSET Client
  BY QueueHead DEF IInv, TypeInv, LockHeld, Goal
<1>2. CASE CommandRuns
  <2>1. PICK i \in Left : served' = After(Difference[i], Difference[i].clients)
    BY <1>2 DEF CommandRuns
  <2>2. i = 1 \/ i = 2 \/ i = 3 \/ i = 4
    BY DEF Left, IInv, TypeInv, TypeOK
  <2>3. stage = "apply" /\ proc = "up" /\ UNCHANGED <<queue, wanted, committed, proc>>
    BY <1>2 DEF CommandRuns
  <2>4. Goal = Desired /\ Goal' = Goal
    BY <1>1, <2>3 DEF Goal, Desired, Holder
  <2>5. CASE i \in {1, 2}
    <3>1. served' = served \ Difference[i].clients /\ Difference[i].clients \cap Desired = {}
      BY <2>1, <2>5, DifferenceFacts
    <3>2. served \subseteq Client
      BY DEF IInv, TypeInv, TypeOK
    <3>3. Mirror!Withdraw
      BY <2>3, <2>4, <3>1, <3>2 DEF Mirror!Withdraw, Goal
    <3> QED
      BY <3>3
  <2>6. CASE i \in {3, 4}
    <3>1. served' = served \cup Difference[i].clients /\ Difference[i].clients \subseteq Desired
      BY <2>1, <2>6, DifferenceFacts
    <3>2. Mirror!Admit
      BY <2>3, <2>4, <3>1 DEF Mirror!Admit, Goal
    <3> QED
      BY <3>2
  <2> QED
    BY <2>2, <2>5, <2>6
<1>3. CASE CommandFails
  <2>1. PICK i \in Left : \E P \in SUBSET Difference[i].clients :
           served' = IF proc = "up" THEN After(Difference[i], P) ELSE served
    BY <1>3 DEF CommandFails
  <2>2. i = 1 \/ i = 2 \/ i = 3 \/ i = 4
    BY DEF Left, IInv, TypeInv, TypeOK
  <2>3. stage = "apply" /\ UNCHANGED <<queue, wanted, committed, proc>>
    BY <1>3 DEF CommandFails
  <2>4. Goal = Desired /\ Goal' = Goal
    BY <1>1, <2>3 DEF Goal, Desired, Holder
  <2>5. PICK P \in SUBSET Difference[i].clients :
           served' = IF proc = "up" THEN After(Difference[i], P) ELSE served
    BY <2>1
  <2>6. CASE proc # "up"
    BY <2>3, <2>4, <2>5, <2>6
  <2>7. CASE proc = "up" /\ i \in {1, 2}
    <3>1. served' = served \ P /\ P \cap Desired = {}
      BY <2>5, <2>7, DifferenceFacts
    <3>2. served \subseteq Client
      BY DEF IInv, TypeInv, TypeOK
    <3>3. Mirror!Withdraw
      BY <2>3, <2>4, <2>7, <3>1, <3>2 DEF Mirror!Withdraw, Goal
    <3> QED
      BY <3>3
  <2>8. CASE proc = "up" /\ i \in {3, 4}
    <3>1. served' = served \cup P /\ P \subseteq Desired
      BY <2>5, <2>8, DifferenceFacts
    <3>2. Mirror!Admit
      BY <2>3, <2>4, <2>8, <3>1 DEF Mirror!Admit, Goal
    <3> QED
      BY <3>2
  <2> QED
    BY <2>2, <2>6, <2>7, <2>8
<1>4. CASE Book \/ SpawnFails \/ ApiReady
  <2>1. stage # "free" /\ queue' = Tail(queue) /\ UNCHANGED <<proc, served>>
    BY <1>4 DEF Book, SpawnFails, ApiReady, Leave, Release
  <2>2. proc = "up" => served = Desired
    BY <1>4, AllCommandsDone
    DEF Book, SpawnFails, ApiReady, IInv, Process, Synced
  <2> QED
    BY <2>1, <2>2, LeaveAims
<1>5. Goal' \in SUBSET Client
  <2>1. TypeOK'
    BY DEF IInv, TypeInv
  <2>2. queue' # <<>> => Holder' \in Task
    BY <2>1, HeadTailProperties DEF TypeOK, Holder
  <2> QED
    BY <2>1, <2>2 DEF Goal, Desired, TypeOK
<1>6. CASE Stop \/ ApiFails \/ Crash \/ Halt
  <2>1. proc' # "up" /\ served' = {}
    BY <1>6 DEF Stop, ApiFails, Crash, Halt, Down
  <2> QED
    BY <1>5, <2>1 DEF Mirror!Fall, Goal
<1>7. CASE Spawn
  <2>1. stage = "start" /\ proc = "none" /\ proc' = "up" /\ served' = Desired
    BY <1>7 DEF Spawn, IInv, Process
  <2>2. Goal = Desired /\ Goal' = Goal
    BY <1>1, <1>7 DEF Spawn, Goal, Desired, Holder
  <2> QED
    BY <2>1, <2>2 DEF Mirror!Rise, Goal
<1>8. CASE Acquire \/ UNCHANGED vars
  BY <1>8 DEF Acquire, vars, Goal, Desired, Holder
<1>9. ASSUME NEW t \in Task, NEW S \in SUBSET Client, Request(t, S)
      PROVE  Mirror!Next \/ UNCHANGED <<Goal, served, proc = "up">>
  <2>1. UNCHANGED <<proc, served>>
    BY <1>9 DEF Request
  <2>2. CASE queue = <<>>
    <3>1. proc = "up" => served = Goal
      BY <2>2 DEF IInv, SettledInSync, Goal
    <3> QED
      BY <1>5, <2>1, <3>1 DEF Mirror!Aim, Goal
  <2>3. CASE queue # <<>>
    <3>1. Goal' = Goal
      BY <1>9, <2>3, JoinFacts DEF Goal, IInv, TypeInv
    <3> QED
      BY <2>1, <3>1
  <2> QED
    BY <2>2, <2>3
<1>10. ASSUME NEW t \in Task, NEW S \in SUBSET Client, Boot(t, S)
       PROVE  Mirror!Next \/ UNCHANGED <<Goal, served, proc = "up">>
  <2>1. proc = "none" /\ UNCHANGED <<proc, served>>
    BY <1>10 DEF Boot, IInv, TypeInv, LockHeld, Booting
  <2> QED
    BY <1>5, <2>1 DEF Mirror!Aim, Goal
<1> QED
  BY <1>2, <1>3, <1>4, <1>6, <1>7, <1>8, <1>9, <1>10 DEF Next, Sync

\* The runtime implements the abstract mirror, with the snapshot being applied
\* for its goal: no client outside it is let in, none inside it is cut off, and
\* a further snapshot is taken up only when the last one was reached or Xray is
\* down.
THEOREM ImplementsMirror == Spec => MirrorKept
<1>1. Init => Mirror!Init
  BY DEF Init, Mirror!Init
<1>2. IInv /\ IInv' /\ [Next]_vars => [Mirror!Next]_Mirror!vars
  BY MirrorStep DEF Mirror!vars, Goal
<1> QED
  BY <1>1, <1>2, Invariant, PTL DEF Spec, MirrorKept, Mirror!Spec
=============================================================================
