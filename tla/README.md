# ARENA panel: TLA+ models, model checking and proofs

ARENA is a VPN panel: a Python control plane (FastAPI, PostgreSQL) that
administers users and decides who may connect, a Go gateway that relays
WebSocket connections to an Xray process, and the Xray process itself, which
the control plane owns. This directory holds TLA+ models of the parts with
state and concurrency, the TLC runs that check them and the TLAPS proofs about
them. `PROJECT.json` maps every definition to the lines it models.

## 1. The system

| Component | State | Operations | Hard behaviour | What makes it correct | Model |
|---|---|---|---|---|---|
| Session ledger, `routes/gateway.py`, `services/accounts.py` | users, access keys, nodes, session rows in PostgreSQL | authorize, heartbeat, close, the stale sweep inside authorize | concurrent calls for one user; late, lost and repeated calls; the clock; edits between calls | IP limit, ended rows are final, usage equals charged traffic, validity starts once | `Accounts`, `SessionRows`, `SessionLedger`, `Transactions` |
| User administration, `routes/users.py` | the same tables | create, update, reset, rotate, delete, attach, detach | requests that interleave statement by statement, row locks, cascades | no orphan rows; resets and rotations lose nothing; no deadlock or hang | `SessionLedger`, `Transactions`, `Provisioning` |
| Node administration, `routes/nodes.py` | nodes | create, update, disable | keys outlive the edits of their node; metadata may become null, the path another one | what is offered works; no edit keeps the control plane from starting | `Provisioning`, `SessionLedger` |
| Gateway, `gateway/cmd/arena-gateway/main.go` | per connection: handler, heartbeat and two relay goroutines, byte counters, a context | authorize, dial, relay, heartbeat, cancel, close | four goroutines and a network that loses calls; timeouts; a dial without one | no byte is forgotten, none is charged without bound; relays without entitlement are cut; nothing leaks | `Edge`, `SessionRows` |
| Speed limiter, `gateway/internal/limiter` | one token bucket per user | Wait, SetRate, refill, ForUser | relays and heartbeats of all the user's connections share it | bytes over any interval; waiting ends | `TokenBucket` |
| Xray runtime, `xray.py` | the process, the record of its clients, an asyncio lock | start, reconcile, stop | several handlers at once; CLI commands that fail halfway; crashes | newest state wins; record exact; nobody else is cut | `XrayMirror`, `XrayRuntime` |
| Application lifecycle, migrations: `main.py`, `migrations.py`, `migrations/` | schema, `alembic_version`, default nodes | migrate, stamp, seed, serve, stop | a start cut anywhere; a database from before migrations | schema and revision agree; the start succeeds; nobody is moved | `Provisioning`, `XrayRuntime` |
| Admin authentication, `security.py`, `routes/auth.py` | admin sessions | login, logout, expiry, clean-up | requests racing a logout | a session that is over changes nothing | `Transactions` |
| Subscriptions, `routes/subscriptions.py` | version of the link | fetch, rotate | two rotations at once; three readers that decide anew who may connect | an old link never works again; every link offered works | `Provisioning`, `Transactions` |
| Access keys and WireGuard addresses, `accounts.py` | keys and their addresses | create, attach, detach | exhausted, shrunk and moved pools | addresses are distinct | `Provisioning` |
| Client profiles and public origin, `services/profiles.py`, `public_url.py` | none | links and files for a request | default ports, forwarded headers | links lead to the panel | `Profiles` |
| Dashboard, audit, configuration, frontend, deployment | none of their own | queries, setup | – | – | not modelled |

Interactions. The gateway calls the control plane over HTTP (authorize,
heartbeat every 15 s, close) and learns from the answers whether to go on and
how fast. The administrator's handlers change the tables, and the gateway sees
the change in its next answer; they also call `xray_runtime.reconcile`, which
brings Xray to the state of the tables. Subscriptions are read from the same
tables. Nothing else connects the parts: the gateway does not tell Xray
anything, and Xray reports nothing back.

The hazards, one by one and at their lines, are in `PROJECT.json`.

## 2. Modules

- **Accounts**: `user_expiry` and `user_allowed` as functions of a user row.
- **SessionLedger** extends it with the tables and every handler that changes
  them; one action is one committed transaction. The data plane is the
  environment: any call at any time, any number of times.
- **SessionRows**: what the control plane promises of sessions, in two variables
  and without clocks, nodes, quotas or transactions: who is let in by `max_ips`,
  that a call to authorize ends exactly the sessions that are silent for longer
  than the stale limit, that a report changes one open session and nothing else.
  `SessionLedger` and `Edge` both implement it (`RowsPromised`).
- **Transactions** opens these transactions up: the statements of the requests,
  the row locks of PostgreSQL, the threads and the event loop they run in.
- **Edge** is the gateway: the goroutines, the network and the control plane's
  answers for the connections of *one* user. It adds time (heartbeats, stale
  limit, timeouts) and the races of the byte counters, and reduces the account
  to "allowed or not". Its rows, read through `Face`, are sessions of
  `SessionRows`.
- **TokenBucket**: the limiter of one user.
- **XrayMirror**: what the runtime promises, three variables. **XrayRuntime**:
  how it does it; `Mirror == INSTANCE XrayMirror WITH ...` maps the goal to the
  snapshot being applied (or the last one) and `up` to the process.
- **Profiles**: pure functions, from a request to the public origin and from a
  node and a key to the endpoint of a link. **Provisioning** extends it with the
  rows that administrators enter, the addresses, and the start of the control
  plane.
- **MC...** instantiate them for TLC.
- **SessionLedgerProofs**, **TransactionsProofs**, **EdgeProofs**,
  **TokenBucketProofs**, **XrayRuntimeProofs** and **ProvisioningProofs** hold the
  theorems about the module each is named after; **SumTheorems** holds what they
  need of sums over finite sets.

Definitions preceded by a comment in parentheses, such as `OverIpLimitUnswept`,
are plausible mistakes in the code. Nothing uses them; they are put in the place
of the definition they resemble to see that the property they break notices.

### SessionLedger and the code

`account[u]` is a row of `users` (`registered` says whether it exists),
`route` the access keys, `nodeUp` the enabled nodes, `session` the rows of
`connection_sessions`, `denied` the last `gateway.denied` audit event. Up and
down traffic are one number, since the code only adds them; what the sessions of
a user were charged is `SumFunctionOnSet` over their rows. Authorize is four
actions, one per outcome, and each includes the sweep that every outcome
commits. That a transaction is one step rests on `SELECT ... FOR UPDATE` on the
user row (`gateway.py:49-57`, `:111`, `:134`), taken before anything is decided.
The administrator's handlers do not take it: what that allows, and whether the
lock does keep two authorizes apart, is the subject of `Transactions`.

In `SessionRows` a session is open or over, and an open one has been silent for
some time, counted up to one more than `StaleAfter`. `Face` reads this from a
row of the ledger by `now` and `last_seen_at`, and from a row of `Edge` by its
clock `idle`.

### Transactions and the code

One user, its `connection_sessions` (`conn`) and the administrators' sessions
(`login`). `tx[t]` is a request under way: its `kind` is the handler, `todo` the
rows that its remaining statements lock, `seen` what it read before and writes
from later. No handler has more than three statements that lock rows, so `todo`
has three sets of rows; `Front` are the rows of the first that has any left, and
rows of one statement are locked in any order. `lock` are PostgreSQL's row locks; `Lock`, `Miss` and
`Commit` are the grant of one row, the discovery that it was deleted meanwhile,
and the commit with all the handler's assignments. What depends on the code:

- SQLAlchemy writes the columns that changed, when it flushes, with an
  `UPDATE` that must find its row (`MustFind`): that is what fails a request
  whose admin session was deleted by a logout, since `current_admin` sets
  `last_seen_at` on it (`security.py:70`).
- `async def` handlers run their blocking calls in the event loop (`loop`), the
  others in threads; a request that has returned without a commit keeps its
  locks until the loop closes its database session (`stage = "returned"`,
  `Finalise`).
- A `SELECT ... FOR UPDATE` that waited reads the row anew (READ COMMITTED), and
  it is the first statement of its handler that loads the row, so `seen.used` of
  a heartbeat or a close is set when the lock on the user is granted. A reset
  reads the user without a lock when its body starts, and writes from that.
- `authorize` reads the unended sessions of the user in the statement after the
  one that locks the user. `counted` is the set of addresses it finds, less those
  of sessions it has swept itself; its insert, at the commit, rests on that.
  `IpOf` gives each session its address, and `MaxIps` is a constant: edits of the
  limit are in `SessionLedger`. `GoesQuiet` is the passing of
  `session_stale_seconds` for one session. One detail is coarser than the code: a
  session that a sweep has locked but found renewed by a heartbeat is swept by it
  all the same if it falls quiet before that transaction commits.
- `DeadlockAbort` is PostgreSQL's victim; any transaction of the cycle.

### Edge and the code

`gw[c]` is the program counter of `handleWebSocket`, `hb[c]` of `heartbeatLoop`,
`loose[c]` the bytes between `writer.Write` and `counter.Add`, `count[c]` the
atomic counter, `held[c]` the payload of the heartbeat in flight, `last[c]` that
of the close, `ping[c]` and `call[c]` the calls on the wire with their answers.
`Swap`, `Add`, the post and the test of the context are separate steps where
another goroutine can act in between. A call can be lost before or after it was
served. Time passes only when no goroutine has a step it takes without
blocking; calls are answered within `Latency` or given up after `PostTimeout`,
and dials take at most `MaxDial`. A request given up after its timeout and
served still later is left out.

### TokenBucket and the code

Tokens are integers in parts of 1/`Second` byte, so refilling is exact where the
code uses floats. `SetRate` happens at any time: it stands for heartbeat answers
of all connections and for `ForUser` of a further connection.

### XrayRuntime and the code

`queue` is the asyncio lock with its waiters in order, `stage` where the holder
is, `ran` how many of the four commands of a sync (remove and add, for vless and
vmess) are behind it, `wanted[t]` the `desired` of handler `t`, `booked` the record
`_clients`, `served` what the process accepts. Between the commit and the place
in the queue the handlers do not await, so this is one step; each CLI command
is a step, which may fail with any part of it done. Which clients a snapshot
holds is left open here: any set, which covers quota and validity that run out
between two reconciles. `Provisioning!XrayClients` says which they are.

### Profiles, Provisioning and the code

A URL is a scheme, a host and a port (0 when none is written). `BaseUrl`,
`PublicEndpoint` and `ProxyEndpoint` are `public_url.py` and
`_proxy_endpoint`; `Link` is the part of `vless_uri` and `vmess_uri` that
decides where a client connects, its path included (the segments for user and
node, which every link has, are not). `Raises` is the exception of
`_proxy_endpoint` when a node's metadata is null. `user_formats` asks for the same
links and raises likewise.

`node[n]` is a row of `nodes` with its path and with `adaptive_endpoint` and
`client_cidr` of its metadata, `key` the access keys, `user` what `user_allowed`
says of a user, `clients` the keys of the last snapshot that Xray was given.
`tables`, `stamp` and `phase` are the schema, `alembic_version` and the process.
`Stamp`, `Upgrade`, `Seed` and `Serve` are the steps of `lifespan` that commit on
their own; `Crash` may come between any two; `SeedFails` is the `TypeError` of
`main.py:66`, where something is looked for in a metadata that is null, and ends
the process. The handlers do not await between their first read and their commit,
on one event loop, so each is one step, which ends with the snapshot its
`reconcile` takes. `Rows` are the rows that an update can leave: unlike a new one
(`NewRows`) they can have metadata null.

`RunOut` is what no handler does: time and traffic make `user_allowed` refuse a
user, and Xray is not told. `UpdateUser` and `ResetUsage` may allow the user again.
So the three readers do not look at the same state: `Document`
(`subscription_document`) and `Admitted` (`authorize`) read the tables of the
moment, `Reached` also the clients of an older one. `OfferedIsServed` says that
links with the gateway's path are offered exactly when they work all the same, and
that Xray keeps no client of an allowed user that `authorize` refuses. It names two
exceptions, which are those of the code: a link with another path than `/edge` is
offered and reaches no handler of the gateway, and a subscription with a key for a
node whose metadata is null cannot be made at all (section 6). What an
administrator enters as the host or port of a node that is not adaptive is taken
to be an address of this gateway. `enabled` of a key is a field of the row that
three readers test and no handler sets to false, so a disabled key is not a state
the program can be in.

## 3. Runs

| Run | Question | Bounds |
|---|---|---|
| `ledger` | Are refusals for an address justified, is usage accounted for, does validity start once, are sessions admitted, charged and ended as `SessionRows` promises? | 1 user, 1 node, 2 addresses, 2 rows, limits 1–2, quota 1, validity 1, 2 units of traffic, an expiry date entered by hand, 3 instants |
| `txn` | Do requests that interleave statement by statement lose traffic, reopen rows, leave orphans, admit two addresses to the last place, write after a logout, or deadlock and hang in other ways than those named? | 3 requests at once and in all, 2 connection sessions from 2 addresses, limit 1, 2 admin sessions |
| `txn_hang`, `txn_rotate` (violations) | section 6 | the same |
| `edge_cut` | Are relays cut in bounded time, whatever is lost, is a byte forgotten, how often can one be charged, do goroutines and rows end? | 1 connection, dials up to 50 s, 1 unit of traffic, losses unbounded, fairness |
| `edge_prompt` | With prompt dials and no two losses in a row, do relays stay within the limit? Are their rows those of `SessionRows`? | 2 connections from 2 addresses, limit 1 |
| `edge_slowdial`, `edge_miscount` (violations) | section 6 | 2 connections, dials up to 60 s; 1 connection, 1 unit of traffic, no loss |
| `bucket_limit` | Does a user stay within the speed limit, and does waiting end? | 3 relays, rates 0, 2 and 3, chunks 1–2, 3 units per second, fairness |
| `bucket_large` (violation) | ... also for chunks beyond one second of the limit? | 1 relay, rate 2, chunk 3 |
| `xray_sync` | Record exact, newest snapshot last, others undisturbed, everybody answered, mirror implemented? | 3 handlers, 1 client per inbound, fairness |
| `provisioning` | Does what is offered work, are addresses distinct, does a start move anybody, and what keeps it from succeeding, wherever it was cut? | 2 users, a default vless node and a WireGuard node, networks of 2 and of 1 clients, 2 paths, metadata null or not, 11 requests, fairness |

Why the bounds are enough.

- *Ledger*: a violation of the IP limit needs one user with one address more
  than the limit, and the limit edited between admissions (limits one and two,
  two addresses, two rows); the sweep distinguishes only "older than the stale
  limit" from "not older", which three instants show. Traffic of two with a
  quota of one has a heartbeat below, at and above the quota. What this instance
  does not reach (more users, addresses and rows) is covered by the proofs.
- *Transactions*: a race needs two requests, and its context at most one more: a
  reset around a heartbeat, two authorizes and a session that ends between them, a
  cycle of an authorize and a delete whose cascade
  meets a third request's row. `MaxRequests` ends a behaviour; rows are
  interchangeable, hence the symmetry.
- *Edge*: one clock unit is 5 s, so the heartbeat (3), the stale limit (9), the
  failure count (3) and the timeout (2) have the proportions of the defaults
  (15 s, 45 s, 3, 8 s). Connections of a user meet only in the count of
  addresses, so two of them show all of it, and the byte counters of one
  connection never touch another's. `MaxFailures` losses in a row means any
  number, since a third failure ends the relay.
- *Bucket*: rates below, at and above a chunk, and the unlimited rate 0; three
  waiters, one that takes and two that may starve each other.
- *Xray*: a vless and a vmess client give the four commands of a sync; three
  handlers give a holder and two waiters that could be served in the wrong order.
- *Provisioning*: two keys can collide; the two networks overlap and the smaller
  is exhausted by one user; one node is known to
  `seed_database`, one is not; one path is the gateway's, one is not; the
  requests have each port written, left out, or forwarded, under both schemes.

`MaxTime`, `MaxBytes`, `MaxDial`, `Latency`, `LossesInRow` and `MaxRequests` are
the only bounds on behaviour. Deadlock is checked everywhere except in
`Transactions`, where requests are bounded and the control plane can really hang
(section 6); `OnlyTheLoopHangs` says precisely when.

To repeat a run: `tlc -config MCEdge_cut.cfg MCEdge.tla`; to check the proofs:
`tlapm SessionLedgerProofs.tla`, and likewise for the other six modules with
theorems.

## 4. Fairness

- `Edge`: goroutines run (`WF` on the handler's and the heartbeat's steps that
  need nobody's cooperation), the control plane answers a call that reaches it,
  time passes, and *some* user's authorize happens again and again, because the
  sweep has no timer of its own: rows of a dead gateway end only when somebody
  else connects. Clients need never connect, send or leave; a relay is only
  forced to end when its context is done, which unblocks its reads and writes.
  That a dial ends is an assumption (`MaxDial`): the code sets no timeout, the
  operating system and the leaving client do.
- `TokenBucket`: timers fire, goroutines run. Nothing is assumed of `SetRate`.
  What follows is progress of *some* waiting relay (`RelaysProgress`); that each
  one goes on is not true, since a large chunk can be overtaken for ever.
- `XrayRuntime`: the holder's commands end, by themselves or by their timeouts
  (10 s, 15 s, 5 s in `xray.py`), and the event loop runs. No fairness on the
  outcome: commands may always fail.
- `Provisioning`: a start that is not cut goes on, and an operator makes another
  one after a cut or a failure (the compose file sets no restart policy); all these
  are the steps of `Boot`, `SeedFails` included. `BootSucceeds` excludes behaviours
  that are cut again and again, and those that are `LockedOut` for good (section 6).
- `Transactions` has none: its properties are about safety.

## 5. Proofs

Every safety invariant and every action property of the passing runs is also a
theorem, proved for every value of the constants that satisfies the assumptions
named in the modules. Of each module, the types are proved first (`TypeCorrect`).

**SessionLedger.** Assumed: the addresses are finitely many, `NULL` is no user and
no time, the administrator's numbers and the gateway's deltas are naturals, a day
is at least one unit.

- `EndedStaysEnded` and `IpLimitKept` rest on one lemma, `RowLives`: in every step
  a row that has ended stays or is removed with its user, and an open row keeps
  user and address until it ends or is removed. So a live address can only be
  added by the admission, whose guard counted the addresses after its sweep; the
  new address takes the count to at most `max_ips`, which is where `Ip` must be
  finite.
- `NoOrphans` is inductive because it says of rows without a record that they are
  exactly `NoRow` and bounds `started` by the clock. `ValidityRunsOnce` is
  inductive on top of it: a new row's start is not before any other's, and
  deleting a user removes all the user's rows at once.
- `AdmissionsJustified` looks at the record the same transaction commits: starting
  the validity must not make the user expire (`StartedAllowed`, where a day of at
  least one unit matters). `IpDenialsJustified` needs `OpenHeard`: an open row
  always says when it was heard of, so no row that is counted escapes the sweep.
- `UsageIsAccounted` says that the session and the user are charged alike; that a
  session that is over is not charged at all is `RowsPromised` and `EndedStaysEnded`.
  Of a step, only four things matter to the books of a user:
  it changes nothing, charges one session and the user the same amount, opens a
  session with nothing charged, or removes the user with all sessions (`Keeps`,
  `Charges`, `Opens`, `Wipes`). `BooksBalance` carries the sum through each. The
  rows of a user are finitely many in every state: this is a conjunct of the
  invariant, so nothing is assumed of `Session`.

- `ImplementsRows`: an authorize is an `Admit` or, refused, a `Refuse`; heartbeat
  and close are a `Report`, and a stutter when the session is over; edits of users
  are `Edit` or `Delete`, and every other step that leaves rows and time alone is
  an `Edit`; the clock is `Pass`. The sweep of the ledger compares times, that of
  `SessionRows` the silence; they end the same rows because an open row was heard
  of between 0 and `now` (`OpenHeard`).

**SumTheorems.** The sum of the community modules takes elements in an order that
`CHOOSE` fixes, and is defined by a choice of a function on subsets. That it
exists, does not depend on the order, and changes with one summand as expected
would be inductions over finite sets. They are proved without an induction rule:
among the subsets for which the statement fails take a smallest one, which exists
because the subsets of a finite set are well-founded, and look at it with one
element less.

**Transactions.** Assumed: the user's row, connection sessions and administrators'
sessions are different rows, `None` is neither a row nor a request, reports are
naturals. The invariant is built in layers, each used by the next:

1. *Shape*: by kind, which rows a request that runs holds and what its remaining
   statements lock. `Locking` ties locks to requests and the event loop to the one
   async body that waits in it. Nothing else can be said of a request that is
   resumed in the middle.
2. *Claims*: a request has locked, or is going to lock, every row it writes at its
   commit (`Secure`), locked rows exist (`Present`), and a delete misses no
   session (`Sees`). The last is the hard one: before a delete has locked the
   user, an authorize can insert sessions that the delete has not read. Its
   cascade finds them, and nobody else has a claim on them. From this follow
   `SessionsHaveUser`, `EndedSessionsStay` (a heartbeat that has locked an ended
   row returns) and `RevokedSessionsWriteNothing` (a request admitted before a
   logout has a claim on its admin session; the row it holds at the commit exists).
3. *Counting*: a heartbeat or close that holds the user has read what is in the
   counters; a reset knows reports not newer than what it found, and a counter it
   found at zero, which it does not write, has only newer traffic. From this
   `NothingLostOrChargedTwice` and `ResetsLeaveOnlyNewer`.
4. *Reading*: while an authorize holds the user, what it has read of the user's
   sessions stays true (`ReadInv`): every address it counted still has an unended
   session, and every unended session is counted or swept by it. Whoever ends or
   inserts a session must hold the user at its commit (`OthersHoldUser`), and only
   one request does; a session that merely falls quiet changes neither. With finitely
   many sessions this gives `AdmissionsWithinLimit`.
5. *Waiting*: `NothingElseHangs` follows from the shape: if no request has to wait
   for the loop, all that wait wait for each other, which PostgreSQL sees. For
   `OnlySweepsMeet`: the request that has locked the user waits for nothing
   (`UserHolderRuns`: only a delete would, in its cascade, and by `Sees` nobody
   holds those sessions), so no request of a cycle waits for the user. Each of them
   holds a row that another one waits for (`CycleWanted`), and a request that waits,
   not for the user, and holds something is an authorize, a delete or a cleaning
   (`HoldingWaiters`). Two deletes cannot wait, since each would block the loop.

**Edge.** Assumed: finitely many connections, naturals for the limits and times, at
least one failure before a relay is cut, answers within the timeout of a post, and
that timeout less than the heartbeat interval (8 s and 15 s).

- The types need two more facts: a heartbeat on its way and the ticker count the
  same time (`Beat`), and what is counted, about to be counted or posted was
  forwarded (`Balance`). `Order` says what a connection cannot have at each stage.
- `BytesKept` is inductive when the bytes of an answered heartbeat no longer count
  as held (`Kept`): they are charged already, and would be counted twice.
- `OverchargesBounded`: what is charged can only be charged again while it is on
  its way or restored, and each time costs a failure, of which a relay has
  `MaxFailures`; the close may charge it once more. `Owed` is the sum of what each
  byte, where it is now, can still cost: `MaxFailures + 1` times for bytes not yet
  counted, less the failures so far for those in the counter, one less again for
  those of a heartbeat that has been served. `charged + Owed` never exceeds
  `MaxFailures + 1` times what was forwarded, in every step. TLC shows that the bound
  is not reached one lower (`MaxFailures` times is violated).
- `EndedRelaysAreCut`, `RefusedRelaysAreCut`. The time without entitlement is
  bounded by the failures so far: `overtime <= Limit`, with
  `Limit = Missed * HbEvery + (HbEvery - timer)` and `Missed` the failures, one
  more while a heartbeat that will not be answered is on its way. A tick takes
  from the timer what it adds to the time; a failure adds an interval; the last
  failure ends the relay, at most one timeout later (`Grace`). No timing is
  assumed: the bound holds for any dial and any loss.
- `RelaysHaveRow` and `RelayedIpsAreFew` hold under `Prompt`: two answers, a dial
  and the heartbeats that may be lost in a row plus one fit into
  `session_stale_seconds`. With 15 s and 45 s: the answers and the dial may take
  30 s together, 15 s if a heartbeat is lost. The condition is exact: `edge_prompt`
  meets it with equality, and in `edge_slowdial`, where it fails, the addresses
  exceed the limit. The invariant (`Fresh`) bounds the age of a row, stage by
  stage, by the time its connection has taken since it was last served.
- `RowIpsAreFew` needs no such condition: the *rows* never have too many
  addresses. What timing can break is only that a relay still has its row.
- `ImplementsRows`: the calls served are steps of `SessionRows`, late ones and ones
  for ended rows included; what goroutines and the network do leaves the rows
  alone. Needed besides the types are `Order` (an authorize on its way has no row
  yet) and that without a row nothing was charged (`Uncharged`). So `Edge` takes
  nothing for granted of rows beyond what the ledger is proved to keep. The other
  direction, that `Edge` allows whatever the ledger may do, is only as good as its
  constants: one user, and a `max_ips` that is not edited.

**XrayRuntime.** Assumed: the vless clients are clients. The inductive invariant
`IInv` adds to the properties:

- what runs and what is known of it (`Process`, `Booting`);
- in the middle of a sync, Xray accepts the record with the commands that are
  behind applied to it, and the snapshot when none is left (`Synced`, `Halfway`);
- the last handler in the queue has the newest snapshot (`NewestLast`): its commit
  and its place in the queue are one step, and the lock is first come first served.

`RecordIsExact` and `NewestStays` are conjuncts of it. Neither is inductive alone:
what `Book` writes down is true only because of `Halfway`, which a failed command
breaks, and then the way back to "free" leads over a stop. `OthersStay` follows from
`Halfway`: a command touches the difference, which no client that is served and wanted belongs to.
`ImplementsMirror` is the step simulation to `XrayMirror`: handing the lock over
changes the goal and nothing else (`Aim`), each command is an admission or a
withdrawal towards the goal, everything else a fall, a rise or a stutter. The
mirror has no fairness, so this is all of `MirrorKept`.

**TokenBucket.** Assumed: rates are naturals, chunks and `Second` positive. The
limit itself (`level <= Full(rate)`) is not inductive: nothing in it keeps a waiter
from taking tokens. `BurstShared` adds what may still be taken, and is: a clock
unit adds at most `rate` tokens and drains `rate` from the meter, a waiter moves
tokens to the meter, and `SetRate` never adds tokens.

**Provisioning.** Assumed: default nodes are proxied nodes, networks are intervals
of naturals, `None` is no row, no key and no link, `ARENA_PUBLIC_URL` is none or a
URL. `AddressesDistinct` is inductive given the types: `KeysComeFrom` says that a
step deletes a key, keeps its address, or makes a new one while no other key of the
node changes, and the address of a new one is the least of the free ones, which
exists because they are naturals (`LeastNatural`, by well-foundedness), so it is
none that a key has. `OfferedIsServed` follows from `KeysHaveNode`, which holds
because nodes are never deleted, from the types of the rows, null metadata and all
paths among them, and from `ClientsKept`: for users who are allowed, the last
snapshot is what a snapshot would be now. Every handler that can allow a user or
change a node or a key reconciles; `RunOut` alone does not, and it only takes users
out of the comparison. `LockOutLasts` needs `SeededWhole`: a process that is past
its seeding has no default node with null metadata until a handler makes one. `SchemaTold` needs
one more conjunct (`SchemaInv`): tables without a revision are never the newest, or
a stamp would be wrong.

Only proved: `EndedIsFinal`, `RowsHaveUser`, `IpCeiling` and `AdmissionJustified` of
the ledger, and `LockOutLasts`. `ledger` checks in place of the first and third what
`SessionRows` says of sessions that are over and of admissions, and `txn` checks
ended and orphaned rows and the IP limit under the finer interleavings.

Only model-checked: liveness (`RelaysProgress`, `ConnectionWindsUp`, `RowsEnd`,
`RequestsAnswered`, `BootSucceeds`), which is beyond the prover, and the five
properties that are violated.

## 6. What the runs found

1. **A slow dial outlives its session row** (`edge_slowdial`). `websocket.Dial`
   has no timeout and no heartbeat runs during it. After 45 s a sweep ends the
   row; the relay then starts all the same, and another address is admitted. It
   is cut at the third failed heartbeat (`edge_cut` shows this bound).
2. **The close misses bytes** (`edge_miscount`). The handler takes the counters
   without waiting for the other relay goroutine or for a heartbeat that is
   about to restore its deltas. The same property has another side, listed as a
   hazard: a heartbeat that was recorded and whose answer was lost is sent
   again, and its bytes are charged again; `OverchargeBounded` is the most this can
   come to. The run loses no call, so what it shows is the race alone.
3. **A chunk larger than one second of the limit never passes**
   (`bucket_large`): below 0.27 Mbps a relay that reads 32 KiB stops for good.
4. **A delete can hang the control plane** (`txn_hang`). A close of a session
   that has ended returns without a commit and keeps its `FOR UPDATE` lock until
   the event loop closes its database session; `delete_user` waits for that row
   *in* the event loop. PostgreSQL sees no cycle.
5. **Two rotations make one version** (`txn_rotate`). `rotate_subscription` reads
   the version without a lock; the second commit writes the value that is already
   there, and the first new link stays valid.

Two more, for which no document says what should happen; they are the exceptions
that `BootSucceeds` and `OfferedIsServed` name:

6. **Null metadata locks the control plane out.** `update_node` accepts
   `"metadata": null` (`schemas.py:71`) and stores it (`nodes.py:89-90`). For a
   default node, `seed_database` then raises at every later start (`main.py:66-67`),
   and the handler that could undo it does not run: `LockOutLasts`. For any vless or
   vmess node, every subscription with a key for it raises (`profiles.py:52-53`),
   while `authorize` and Xray go on serving all the keys.
7. **A path that nobody serves.** The path of a node can be edited
   (`schemas.py:66`, `nodes.py:91-92`) and is in its links (`profiles.py:47-48`); the
   gateway has a handler for `/edge/` only (`main.go:95`). Other links are offered
   and do not work.

What might have gone wrong and does not, within the models: `txn` shows that the
partial reset of two counters loses no traffic (`CountersKept`), that PostgreSQL
never aborts a heartbeat or a close to break a cycle (`OnlySweepsDeadlock`), and
that a request admitted before a logout does not commit after it.

## 7. Not modelled, and the plan

Not modelled for good: labels, encodings and text of profiles, the audit log, the
dashboard, settings, the frontend, the reverse proxy, cryptography. They have no
state of their own or no behaviour beyond one expression. Conversions of units
(GB, Mbps) are left out of the models; quotas and rates are small numbers.

Next, most important first:

1. `SpeedSync`: limits set out of order by answers of several connections, composed
   with `TokenBucket`.
2. More about `Profiles`: which requests, forwarded headers and settings lead to the
   same links.
3. `SessionRows` from below: that `Transactions`, statement by statement, implements
   it too. It has one user and no addresses now.
