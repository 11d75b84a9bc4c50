# Interagents: specification, model checking and proofs

*Interagents* lets coding agents on one machine send each other messages. Every
agent runs a **listener** (`client.py`) connected by websocket to one **bus**
(`server.py`), which keeps a registry of listeners in memory and every message
in SQLite (`storage.py`); short **helpers** (`send.py`, `list.py`, ...) attach to
a listener to speak in its name; hosts that cannot be pushed to **drain** the
SQLite rows themselves; a **Codex monitor** (`adapters/codex/monitor.py`) answers
requests unattended. The bus is started by whichever listener needs it first.

This directory holds TLA+ modules translated from that code, TLC runs that check
them on small instances, and proofs of their main properties for instances of
any size.

| module | what it is |
| --- | --- |
| `Bus`, `MCBus`, `BusProofs`, `BusDeliveryProofs` | the bus process, its handlers, the store as the bus uses it, the sockets and hosts around it |
| `BusWrites`, `MCBusWrites`, `BusReplayProofs` | Bus with a history of what each socket was written; the proofs about a hello's replay |
| `Ledger`, `MCLedger`, `LedgerProofs` | every function of `storage.py` that writes deliveries, under a clock |
| `RegistryContract` | what the registry promises its listeners, a service that hands out names |
| `DeliveryContract` | what the store promises about a message, for Bus and Ledger alike |
| `RequestContract` | what the Codex adapter promises about one request |
| `CodexMonitor`, `MCCodexMonitor`, `CodexMonitorProofs` | how the adapter keeps that promise: journal, outbox, crashes |
| `Election`, `MCElection`, `ElectionProofs` | how listeners start, find and trust the bus: bind, spawn, identity files, identity check |
| `Session`, `MCSession`, `SessionProofs` | the lock and the state file of one agent session, and the helpers that clean it up |
| `Drain`, `MCDrain`, `DrainProofs` | `drain.py` and `loop.py` against the bus that logs first and stores second |

`PROJECT.json` lists components, runs, mutants, theorems, hazards, and the source
lines each definition stands for.

    tlc -workers 2 -config bus_registry.cfg MCBus
    tlapm BusProofs.tla

## 1. Inventory

Paths are below `skills/interagents/bin/` unless they say otherwise.

| component | state | operations | status |
| --- | --- | --- | --- |
| Bus server, `server.py` | `_registry`: session id -> `ClientState` (websocket, name, nonce); one handler coroutine per connection; the JSONL log | hello (agent, control), send, broadcast, rename, list, ping, bye; replace, unregister; catch-up and queued replay; idle shutdown | Bus |
| Message store, `storage.py` | tables `messages`, `message_deliveries` | store, mark delivered / read / disposition, transport failure and retry, two catch-ups, purge | Ledger; as the bus uses it, in Bus |
| Sessions table, `storage.py` | one row per session id: name, status, last seen | upsert, touch, disconnect, mark stale, latest session of a name | Bus |
| Codex monitor, `adapters/codex/` | journal (`jobs`), the row in hand, the Codex process, the log offset | scan, take, skip, run a turn, send, confirm, close, mark, quarantine after a crash | CodexMonitor |
| Listener client, `client.py` | the name it asks for, session id, back-off, session lock, state file, drain cursor | connect, retry another name, reconnect, stop | the protocol in Bus, start and trust in Election, files in Session, the cursor in Drain |
| Send helper, `send.py` | none | control hello, one frame, one second of waiting for an error | Bus, CodexMonitor |
| Drain and loop, `drain.py`, `loop.py` | byte cursor into the JSONL log | drain SQLite rows, else the log | Drain; the SQLite drain also in Bus |
| MCP server, `mcp_stdio.py` | none of its own | mark read, mark disposition, read tools | its marks in Bus and Ledger |
| Election and identity, `spawn.py`, `shared.py`, `server.py` | bound socket, pid file, identity file | ensure_server_running, publish / verify / unlink identity, idle shutdown | Election |
| Session state and lookup, `discover.py` | one state file and one lock file per session | find, unlink when stale | Session |
| Other commands, `list.py`, `disconnect.py`, `interagents.py` | none | read, signal, clean up, dispatch | the effects on the state file in Session |
| `state.py`, `auto_start.py` | one JSON file each | one-shot reads and writes | not modelled |
| Adapters, manifests, supervisors | none | configuration | not modelled |

**How they interact.** Listeners and helpers send the bus frames; the bus pushes
messages and events to listeners. The bus, the drains, the MCP server and the
Codex monitor are separate processes that write one SQLite file. The monitor
embeds a listener, whose callback persists what it hears, and answers by running
the send helper. Listeners, helpers and servers find each other through files.

**What is hard here.**

- *Interleavings in the bus.* It is one asyncio process: a handler is atomic
  between two awaits of a socket, and a dozen of them interleave at those awaits.
  A replaced handler unregisters after its successor registered; a hello has
  registered its listener while its welcome, the `peer_joined` broadcast and the
  replay are still going out; a target resolved under the lock is used after it.
- *Sockets that lie.* A write to a half-open socket succeeds, and the bus takes
  a successful write for a delivery.
- *Several writers of one row*, none of which holds a transaction across its read
  and its use of it.
- *Names that outlive sessions.* Directs are addressed to names; rows belong to
  session ids. Re-arming a listener, falling back to `luffy-2`, renaming and the
  offline queue all move messages between sessions of a name.
- *Windows and purges.* A row that says "read" is what keeps a message from being
  re-attached, and the purge deletes such rows by age.
- *Two databases.* The monitor's journal and the bus's table cannot be written in
  one transaction, and a turn of Codex has effects that nobody can roll back.
- *Files as a registry of processes.* Pid file, meta file, state file and lock are
  written, read and removed one at a time by processes that know nothing of each
  other; a reader combines reads of different moments.
- *Two records of one message.* The bus logs before it stores; a drain prints
  before it marks, and moves a cursor that two drains and the listener share.
- *Silence.* `send.py` reports success when a second passes without an error.

`PROJECT.json` lists these hazards one by one, at the line where each bites, with
the property that watches it or the reason why none does yet.

**What makes each component correct.**

- *Bus:* names identify listeners; an open listener is reachable; registry and
  sessions table agree; an accepted direct is never lost; whoever takes over a
  name gets its queue; no socket is written a message twice.
- *Store:* rows only move forward; settled rows are not handed out, unsettled
  rows are not purged, and a purge does not bring read messages back.
- *Codex monitor:* a request is run at most once, its sender is told one
  outcome and no other (the same text may be sent again), and a sender that can be reached
  is told it.
- *Election:* every listener ends connected or gives up; where the kernel elects
  one binder it ends connected; a serving server's files name it; a listener is
  turned away only for a reason.
- *Session:* the state file never names a listener that is not the one serving,
  and no helper takes it from one that runs.
- *Drain:* no message is skipped, and one is repeated only for a known reason.

## 2. Modules

### Bus

State. `registry` maps a session to a connection. `conn[c]` is the `ClientState`
together with its handler and its socket: `pc` names the await the handler is suspended
in (`welcome`, `joining`, `replaying`, `idle`, `sending`), `sock` is `open`, `half` (the
peer is gone, writes still succeed) or `closed` (writes raise), `todo` the messages it
still pushes, `peer` the connection it writes to. `known` and `before` are the sessions
table: name and status of each session and the order of `last_seen_at` within a name. A
session's row is written in `Join` but carries the time of its hello, so `before` also
orders the hellos that are still to write their row (`Joining`), and `SeenAtHello` puts
the row where that time belongs. `msgs` and `rows` are the other two tables. `asks[s]`
is the client's side: the name it will ask for next. `reached` and `swallowed` are
history: messages some agent was handed, and messages written to a half-open socket.

Steps. An action is the code between two awaits of a socket. The registry lock is
never held across one, so it adds no step; an await followed by no change of
state ends the action before it.

| action | code |
| --- | --- |
| `HelloAgent`, `HelloNameTaken` | `_handle_hello` up to its first await: nonce and name checks, the pop of the session's former entry, the insert, the close of the replaced socket; `RetryName` is the client's answer to `name_taken` |
| `Welcomed`, `WelcomeFails` | the send of `welcome` returns or raises; when it raises, `_handler` has no state to unregister |
| `Join` | after `peer_joined`: upsert of the session, both catch-ups, selection of the queue, first push |
| `Replayed`, `ReplayFails` | a push of `_replay_queued` returns (mark, push the next) or raises (stop) |
| `HelloControl` | a helper attaches to a registered listener |
| `SendDirect`, `Sent` | `_resolve_send_target` by id, name or prefix; log, store and push; then the mark, unless the write raised |
| `SendQueued` | `_queue_for_offline`: no live match, a known name |
| `Broadcast`, `Rename`, `Ping`, `Leave` | the other frames, and the end of a handler |
| `Restart` | the process ends and another one starts: memory gone, store kept, `mark_stale_sessions` |
| `Drop`, `HostDrains`, `HostReads`, `Age` | the network; the other processes that write rows; the clock |

`Connects` holds what a client does: it opens a new connection only after giving up the
previous one (`async with websockets.connect`), and it may have died before its hello is
read, whether the hello is then accepted or refused. Frames received before a break are
still served, so a handler with a broken socket keeps dispatching until it leaves.

**BusWrites** adds one history variable, `written`: how often the server wrote each
message to each socket that is not closed, whichever handler did. A socket is written to
by its own handler's replay and by the handlers of those who send to its listener, and
none of them looks at what the others are about to push. The history is computed from
each step of Bus and guards nothing.

### Ledger

The store alone, in detail the bus does not need: `delivery_state`, `disposition`,
`read_at`, attempts, creation and expiry times and a clock. Each function commits
before it returns and is called from several processes, so each is one action,
enabled at any time. All sessions listen under one name, since that is where
`catch_up_direct` moves messages. `consumed` is history: who read what.
`TransportRetries` switches the two `transport_failed` functions on: `storage.py`
offers them and no module of the repository calls them.

### RegistryContract

The abstract specification of the registry: for each session the name its entry
carries, if it has one (`held`), and whether a listener of it can still read
(`listening`). A session enters once its former listener reads no more, under a name
that no other session holds; it is renamed to such a name; it falls silent; its entry
goes, together with its reader. Every step concerns one session; only a restart of the
bus clears all. Bus implements it as `RegistryPromise`, with `held` read off `registry`
and the entry's `ClientState`, and `listening` off the sockets, whether the registry
knows them or not: an entry taken from an open listener, by a handler that ends late or
by another session that wants the name, is no step of the contract.

### DeliveryContract

The abstract specification of the store: for each message its kind, and for each
session how far it has come (`absent`, `pending`, `delivered`, `read`). A message is
stored once; a copy moves forward; a message to one agent is `PassedOn` to another
session of the name only while somebody has it unread, and nobody has read it if its
kind is `Remembered`; a broadcast is `CaughtUp` by a session that has not read it; the
text is purged only when nobody has it unread. A step may move several messages, each
by one of these. Two modules implement it, as the property `DeliveryPromise`:

- *Bus* maps `kind` to the kind of a stored message and `state` to its rows, and
  remembers every kind, for it never purges;
- *Ledger* maps `state` to the rows too, but a row that the purge deleted after its
  session read it still counts as `read`: the history `consumed` says so. With that
  mapping a re-attached copy of a message that somebody read is a violation even when
  no row is left to tell, so `Remembered` holds only the kinds for which windows and
  retention exclude it: never `queued`, unless nothing is purged.

### RequestContract and CodexMonitor

`RequestContract` is the abstract specification: for each request, `Run` at most
once, `Tell` its sender one outcome, `answer` only if it was run.
`CodexMonitor` is the process of `monitor.py` with `journal.py` and the turn of
`rpc.py`. `jobs` is the journal, `rows` the delivery rows as the monitor reads
them (`waiting`, `drained` by a person, `decided`), `accepted` the bus's log,
`inflight` replies handed to the bus and not processed, `recorded` what the bus
recorded. `pc` follows `Monitor.work`, `process` and `deliver` from one write to
the next, so a `Crash` falls between any two of them; `Start` runs
`Journal.__init__`, whose quarantine turns jobs left running into replies.
`Accept` may leave a request only in the log (a bus without SQLite);
`BusRecords` and `LoseReply` decide what becomes of a send that heard no error.
The refinement is `Contract == Promise!Spec`, where `Promise` is `RequestContract`
with `runs <- executions` and `told <- recorded`.

### Election

`step` follows each listener through `Client.run`: probe, bind, spawn, wait, the
reads of `verify_server_identity`, connect. `stage` follows each server process
through `Server.serve`: started, pid file written, meta file written, serving, and
the four steps of `_unlink_own_identity` (read, unlink, twice). The kernel is
`CanBind`, `Listening` and `Coming`; process ids are used again once nothing
remembers them, so a behaviour may go through any number of servers while
`MaxAlive` bounds those that live together.
`host` fixes the environment of a behaviour: `exclusive` (does bind() refuse an
address that is bound and not listening: macOS and BSD yes, Linux with
`SO_REUSEADDR` no), `slow` (a server may take longer than its clients wait),
`byHand` (somebody also runs `server.py` directly), and how many faults occur.
`disturbed` and `killed` are history: servers whose files another server wrote or
removed, and servers that had no chance to clean up. A server that was killed and that
its living spawner has not reaped still answers `os.kill(pid, 0)`: whoever reads its pid
may find it dead or alive (`Signalled`).

### Session

`lock` is who holds the flock, `file` whom `<key>.session` names. A listener goes
`off`, `running` (it has the lock), `welcomed` (the bus registered it), `connected`
(it wrote the file), back to `running` on a drop, `released` (`run` closed the
lock) and `gone` (the exit handler removed whatever file is there). Between
`released` and `gone` the process is alive without its lock. A helper looks,
judges by pid or by the bus's answer, and cleans up in the steps of
`unlink_if_matches`: lock, compare, unlink. `disconnect` waits for the process in
between.

### Drain

The unit of the log is a message: `base` is where the current file begins, a cursor
counts messages from there, and a position past the end of a rotated file is read as 0
as in the code. `Log` and `Store` are the two halves of the bus's handling of a message.
A drain selects pending rows (`Begin`), prints and marks them one at a time, then looks
up the end of the log (`Jump`) and sets the cursor to it (`Save`); or opens the log at
the cursor, reads to the limit and saves where it stopped (`Save`). Any step may be its
last (`Kill`). `host` fixes what runs: the database on or off, one undisturbed drain
(`calm`) or several, the limit, the size that rotates the log. `skipped`, `jumped` and
`early` are history: what was logged before a reconnection, what a cursor set after rows
were printed passed although it has no row and was not printed, and what was read from
the log before its row was stored.

### How the modules fit together

Each module takes the others' parts as environment. Bus lets listeners appear with a
hello at any time: Election says when they can. Session's `Welcome` and `Drop` are
Bus's `HelloAgent` and `Leave` as one session sees them. Drain's `Log` and `Store`
are the one action `Stored` of Bus taken apart, for Bus's rows are read by others only
after its handler's next await; `CodexMonitor` needs of the bus only that it records
a reply or loses it. CodexMonitor is composed with its contract by refinement.

## 3. Runs

Every property of a passing run has a mutant: a plausible bug in one definition
(kept beside it, marked as a mutant) under which TLC finds it violated with the
same configuration.

| run | instance | what it shows |
| --- | --- | --- |
| `bus_queue` | 2 connections, sessions `a1`, `a2` of `luffy` and `b` of `zoro`, 1 message, 5 hellos, direct window on; 1.05 M states | `LostOnlyToHalfOpenSockets`, `HelloDrainsQueue`, `RowsMoveForward`, `DeliveryPromise` |
| `bus_registry` | 3 connections, sessions `a1` and `a2` of one name, renames, no message, 4 hellos; 0.85 M states | `TypeOK`, `UniqueNames`, `OpenListenersRegistered`, `ServedListenersActive`, `RegistryPromise` |
| `bus_catchup` (`MCBusWrites`) | 2 connections, 2 sessions, 2 messages, broadcast catch-up on, 3 hellos; 0.53 M states | `WrittenOnce` with sends, broadcasts, drains and drops anywhere between the awaits of a hello and its replay; `HelloDrainsQueue` with several pushes per hello and rows re-attached from broadcasts; `DeliveryPromise` with broadcasts that are caught up |
| `ledger` | 3 sessions, 1 message, windows and retention 1, clock to 5; 187 k states | `TypeOK`, `OutstandingHasMessage`, `ReadStaysRead`, `DeliveryPromise` |
| `ledger_transport` | 2 sessions, transport failures on, clock to 4; 158 k states | `OutstandingUndecided`, `SettledHasReadTime`, `OutstandingKept` |
| `monitor` | a request of a reachable sender, one of a sender that never returns, one that asks for nothing, 2 crashes; 272 k states | `TypeOK`, `DoneIsAcknowledged`, `Contract`, `Answered`, `NotesConsumed` |
| `election` | 2 listeners, 3 process ids, 2 servers at a time; hosts: shared bind and slow servers with 1 fault, exclusive bind with 1 fault, a server by hand; 298 k states | `TypeOK`, `ServingIsPublished`, `OrphansWereKilled`, `BindElects`, `RefusalNeedsDisturbance`, `Settles`, `ElectedServes` |
| `session` | 3 listeners, 2 helpers, unbounded drops, no bound in any guard; 4.5 k states up to symmetry | `TypeOK`, `FileNamesHolder`, `CleanupSparesOthers`, `TakenOnlyByExit` |
| `drain` | 4 messages of which 3 are for the session, a loop and a drain by hand, limits 1 and 2, rotation after 2 messages or never, up to 1 fault; 848 k states | `TypeOK`, `NothingLost`, `ReadOnce`, `Drained` |

**Why the bounds are enough.** Three connections of two sessions of one name are
what it takes for a session's old handler, its replacement and a rival for the
name to be alive together. Two connections and three sessions let a queued
message meet a re-armed session, an older session of the name and a sender;
four hellos let a session leave, be replaced and come back, five leave one for a
rival or a sender in between. A second message
makes a replay have a middle. `ReplayLimit` is at least the number of messages:
beyond the code's limit of 100 rows a hello does not drain its queue, by design.
In Ledger a clock to 5 passes window and retention twice. Two crashes let the
second one strike the recovery from the first; in `monitor` two requests that
ask for work compete for the pass. In
`election` two listeners and two servers are the smallest race, and a third process
id lets a new server start while the files still name a dead one. Three listeners in
`session` let one exit late, one run and one be judged. In `drain` the third message
is somebody else's, so a read passes a line it does not print, and limits 1 and 2
divide the work in different places. `MaxHellos`, `MaxClock`, `MaxCrashes`,
`MaxAttempts`, `MaxAlive`, `MaxMsgs` and the faults of a host are the only bounds in
guards. Connections, the receivers of
Ledger, and listeners and helpers of Session are symmetric; symmetry is used in no run with liveness.
The Bus runs compare states under a view, which leaves out what neither an action nor a
checked property looks at any more. Of the swallowed messages `bus_queue`
(`ModuloHistory`) keeps those that no agent was handed: no action reads `swallowed`, and
the one property that does asks first whether a message is in `reached`, which never
shrinks; `bus_catchup` (`WrittenModuloHistory`) checks no property that reads it. The
sessions table decides where a message is queued, so both forget it once every message
is used (`Addresses`). Without messages the order of `last_seen_at` decides nothing, and
the four variables about messages never change (`WithoutMessages`, in `bus_registry` and
`bus_ghost`).
`CHECK_DEADLOCK FALSE` in the Bus runs: hellos and messages are bounded, so the
system may come to a stop; in `session` every listener process may be gone and no file
left, in `election` every listener may have left or been refused.

**Fairness.** `monitor`, `election` and `drain` state liveness properties, under
`FairSpec`. In `monitor`: weak
fairness of `Process`: the asyncio task goes on, a turn ends because `run_turn`
is under a timeout, and the service "restarts after exit"
(`adapters/codex/README.md`). Strong fairness of `SendAccepted` and of the bus
recording a reply, for reachable senders only: a bus that runs does not refuse or
lose every one of infinitely many attempts. Nothing is assumed of people, of
senders that left, or of the network in Bus. `NotesConsumed` has an exception: after a
crash between the journal's save of `done` and the mark, every later pass returns
early on the job and the row keeps the disposition `none`; for requests the outbox
closes that gap, for informational messages nothing does.
In `election`: weak fairness of every listener's and every server's own steps, for
each is a process the kernel runs and every wait in it has a timeout. Nobody has to
start a listener or stop a server. `ElectedServes` is stated from the moment the
faults are over (`Calm`) and whoever stops has cleaned up.
In `drain`: weak fairness of `Store`, which follows `Log` in one call of the bus, and
of the drain that `loop.py` runs, which drains and sleeps in turn until a drain reports an error.

### What the repository says and the code does not do

These three runs end in a counterexample; each checks one sentence of a doc,
comment or test.

- `bus_ghost` (`EntriesHaveHandlers`): a listener whose socket breaks after its
  registration and before its welcome leaves an entry that no handler will remove.
  Its name stays taken and the bus never becomes idle. `_listener_alive_locked`
  relies on "the handler exits on disconnect".
- `bus_reread` (`NoPushAfterAnyRead`): a queued message that a newer session of
  the name read is pushed again when the older session reconnects, because the
  queue is selected by the session's own rows. The test suite says that a stale
  pending row must not resurrect a message already read.
- `election_shared` (`AlwaysServes`): on Linux two sockets with `SO_REUSEADDR` may
  both bind an address as long as neither listens. Two listeners that start together
  both spawn a server; the second one overwrites the identity files of the first,
  fails to listen and removes them, and a listener that checks the identity then
  refuses the server that serves and stops for good. `spawn.py` says that "bind() is
  still atomic across concurrent peers", and `tests/test_client.py` that exactly one
  caller's bind() succeeds. `ElectedServes` is the same property where that is true.

Four behaviours contradict at most a comment; the models have them and the properties
permit them, naming the step. A server that stops idle reads its identity files and then
unlinks them, so it may remove those that its successor published in between
(`_unlink_own_identity`, whose comment says that it does not): `ServingIsPublished` and
`RefusalNeedsDisturbance` exempt a server so `disturbed`. The exit handler of a listener
removes the state file whosever it is: `TakenOnlyByExit` allows this and nothing else. A
drain that found rows moves the cursor past messages that only the log holds: `NothingLost`
excuses those in `jumped`. A drain that overtakes the bus reads a message from the log, and
the next one finds its row: `ReadOnce` excuses those in `early`.

Two more sentences are exceeded by the models without a run of their own.
`CHANGELOG.md` says that a direct to an offline agent is queued, and Bus's `Matches`
hands one for offline `luffy` to live `luffy-2`, which the tests of unique prefixes
want. A queued message is exempt from the direct window, so Ledger re-attaches it once
the purge deleted the row that says it was read.

## 4. Proofs

All proofs are checked by TLAPS for any sets of connections, sessions, names,
messages, requests, listeners, servers and drains, and any values of the bounds, under
the named assumptions `BusAssumption`, `LedgerAssumption`, `RequestsAssumption`,
`ElectionAssumption`, `SessionAssumption` and `DrainAssumption`: types of
parameters, and null values that are no members. TLC evaluates them in every run.

**BusProofs.** The inductive invariant is `TypeOK`, `EntriesOwned` (an entry of
the registry is the `ClientState` of that session, of a listener, and its
connection was not given to another), `HandlersSpeak` (a running handler has a
session), `UniqueNames` and `OpenListenersRegistered`. `EntriesOwned` is what the
last two need: it makes entries of different sessions different connections, so
that neither a rename (which writes the entry *and* the speaker's own copy) nor a
late `_unregister` touches another session's entry. All steps but a listener's
hello and a rename are shown to keep every surviving entry's identity
(`EntriesKept`) and every open listener's entry (`OpenKept`); those two are
treated by themselves.
Theorems: `TypeInvariant`, `NamesUnique`, `OpenStaysRegistered`. `RowsForward`
(`Spec => RowsMoveForward`) follows from lemmas saying that each operator on rows
only moves a row forward, and that two such operators composed do. `KeepsRegistryPromise`
(`Spec => RegistryPromise`) is the refinement of `RegistryContract`: with `EntriesKept`
and `OpenKept` it is enough to show of which session a step may take an entry or a
reader away (`Spares`); a hello and a rename, which give names, are steps of their own.

**BusDeliveryProofs** builds on that invariant. `ServedAreActive`
(`ServedListenersActive`) is inductive beside it: a row of the sessions table ends only
with the entry of its session. `LossIsToHalfOpenSockets` (`LostOnlyToHalfOpenSockets`)
needs `WritesRecorded`: a handler marks a row after an await, and the write before the
await had reached an agent, or a half-open socket, or a socket that was closed and stays
so, for a connection is not reused while a handler still refers to it. With
`UnusedUnsent` (no rows before the message is stored) every step then keeps a row
outstanding or leaves a trace of the message.

`KeepsDeliveryPromise` (`Spec => DeliveryPromise`) is the refinement of
`DeliveryContract`, message by message (`Keeps`). A hello applies both catch-ups to the
rows, a send stores a new message and marks the one it answers; per message each of
these is one step of the contract or none, which `PromiseJoin`, `PromiseStored` and
`ConsumedMoves` show (`RowMoves` is the case of one copy that moves).
The guard of `PassedOn` follows from `CatchUpDirect`, which looks at every row of the
message; the sender's `Recipients` are stored for a message that has no rows yet
(`UnusedUnsent`).

**BusReplayProofs.** `HelloDrains` proves `HelloDrainsQueue` under two hypotheses, each
of which names a limit of the code. `BacklogFits`: what a joining handler may have to
push is finite and within `ReplayLimit`, for `_replay_queued` takes the first 100 rows.
`NotRenamed`: no helper renames a listener in the middle of its hello; a rename changes
the registry and moves no row, so the rest of the hello would drain the queue of a name
the agent no longer has. `HelloDrainsQueue` speaks of messages from other sessions: a
helper that attached under a session's former name may queue a direct for the name its
own session is asking for, while that session's replay is on its way. The inductive
invariant has three parts. `Held`: a handler in a hello whose socket is not closed holds
its session's entry, under the name the process asked for, so whoever sends to that name
meanwhile is served by the registry and queues nothing. `QueuedKnown`: a queued message
has a row, which is what `catch_up_direct` needs to find it. `Covers`: while the replay
goes on, each message queued for the name is on the handler's list, or out, or read by
somebody. Each step is shown to begin a hello, leave it alone or advance it
(`HelloSteps`), and only what advances it touches the list.

`NoSecondWrite` proves `WrittenOnce` for `SpecW`, without those hypotheses. That a message
is written at most once to a socket is not inductive; `WrittenInv` adds what tells the
handlers' writes apart. What was written was stored before, so a send, whose message is
new, repeats nothing. Of queued messages only those were written to a listener's socket
that its own replay has done with or is pushing; and a replay pushes queued messages only,
for `pending_queued_for_session` selects that kind. This is why a direct that reaches a
listener between its registration and its replay does not come a second time, although its
row may be pending when the replay selects. Each step starts on a new socket, advances a
replay to a message that was on its list and that it has not pushed, or leaves list and
place alone (`Onward`). The property is about one socket: a push that was written and
whose await then raised leaves the row pending, and the session's next socket gets the
message again; there the code prefers twice to never. Nor does it say that what is pushed
was unread: the rows of a replay are read once, and a message that the agent drains from
the database while an earlier push is awaited is pushed all the same.

**LedgerProofs.** `TypeInvariant`; `Undecided` and `Kept` by case analysis of what
one step may do to one row (`RowCases`). `ReadTimes` needs `TimesInv`: unused
messages have no rows, and creation <= reading <= now. `StaysRead` is the deepest
one: under `SafeSettings` (no transport retries; and no purge, or a bounded direct
window and a broadcast window that are no longer than the retention) a direct or
broadcast that was read is never re-attached. Its invariant `SpentInv` adds, to the times, that a consumed message
still has its read row or is out of its window. The assumption is needed: with a
shorter retention the purge deletes that row while the window is open. For queued
messages no setting helps: they are exempt from the window. `HasMessage`
(`OutstandingHasMessage`) holds where no host reports transport failures: the purge
does not count a failed row as outstanding, so it may delete the message of a row that
a later retry makes pending again. `KeepsDeliveryPromise` proves the refinement of
`DeliveryContract` for any windows, retention and clock, where no host takes failed rows
back. It rests on `SpentInv`, stated for the kinds in `Remembered` (`SafelyRemembered`:
the settings of `StaysRead` remember directs and broadcasts), on `OutstandingUndecided`,
and on `ReadsRecorded`: whoever's row says read is in `consumed`.

**CodexMonitorProofs.** `Inv` is `TypeOK`, `Hand` (what the place of the process
says of the job in hand; while it lives no other job is running, which is what the
quarantine establishes) and `Fate(m)` (what the status of a job says of the past:
absent means never run and nobody told; running means nobody told; reply means at
most that text was told or is on its way; done means one outcome is recorded or
the message asked for nothing). Theorems: `TypeInvariant`, `ClosedWhenTold`
(`Spec => []DoneIsAcknowledged`), and `KeepsPromise` (`Spec => Contract`), the
refinement of `RequestContract`, step by step.

**ElectionProofs.** `Inv` is `TypeOK` with, for each server process, `Kept` (what an
undisturbed server published is still there) and `WillClear` (a file that names a
server which was not killed will be looked at again by that server). `TypeOK` says
that a listener remembers a pid exactly while it checks it, which keeps that pid from
being given to another process meanwhile. Theorems: `TypeInvariant`,
`PublishedWhileServing`, `CleansUp`, `MisledOnly`. All four hold on every kind of host:
what shared bind() breaks is only who is elected. `ElectsOne` (`BindElects`) is about
exclusive bind(): one process at a time has the socket (`OneHolder`, with or without
faults); until the first fault no server disturbs another (`Undisturbed`), so what a
listener reads in the files is the server that serves, and whoever lost the bind waits
for a server that comes (`Served`).

**SessionProofs.** The three invariants are inductive together, in this order:
`TypeInvariant` (the lock's holder is the listener that runs or the helper that cleans
up), `OwnFile` (`FileNamesHolder`) and `CleanupIsSafe`: a file can change under a
helper that holds the lock only by the exit handler of a listener that released it,
which leaves no file. `ExitTakesIt` proves `TakenOnlyByExit` from `CleanupIsSafe`.

**DrainProofs.** `NoneIsLost` rests on `Ahead`: rows are marked after they are printed
(`PrintedFirst`), and as long as the log was not rotated no position is past its end
(`Within`) or past a message that is `Owed` (`Behind`): one that only the log has, that
nobody printed, and that was neither logged before a reconnection nor jumped over. A drain
between `Jump` and `Save` may hold a position past such a message, and `Save` records it
in `jumped` as it writes the cursor. `PrintsOnce` rests on `OnlyReader`: of one
undisturbed drain, a message was printed at most once, and if it was its row is
delivered or about to be and it lies behind the point from which the drain reads next.
The latter is where `Jump` matters: without it the rows just printed would be read again
from the log.

**Only model-checked.** `Answered`, `NotesConsumed`, `Settles`, `ElectedServes` and
`Drained`: liveness under fairness is out of the prover's reach. Every invariant and
action property of a passing run is stated by a theorem; those with hypotheses beyond
the named assumptions are `HelloDrains` (above), and `HasMessage`, `StaysRead` and
Ledger's `KeepsDeliveryPromise`, which concern hosts that report no transport failures.

## 5. What is left out

In the modelled components: a bus without SQLite and failing SQLite writes (Bus
only; CodexMonitor has them), token and nonce checks, the broadcast rate limit,
deduplication of listeners by container id, text caps, `list` (it changes
nothing), third-party events other than the await they cost, disconnection by a
control connection (seen as `Drop`), unique prefixes of session ids as targets,
collisions of message ids, more than `ReplayLimit` queued messages. `Ledger` has one
agent name. In CodexMonitor, the creation of the thread, declined approvals,
restriction to allowed peers, rotation of the log (the adapter's documentation
excludes it from its guarantees) and the lock that keeps a second instance out. In
Election, the legacy file names, several endpoints in one data directory, a foreign
program on the port (the case the identity check is for) and the instant in which a
file is truncated and not yet written. In Session, the walk up the process tree and a
pid that the system gave to another program. In Drain, live pushes, `--peek` (it
changes nothing), log lines lost to a disk error, and the rows of other sessions.

**Not modelled.** `state.py` and `auto_start.py` read or write one JSON file in one-shot
commands with nothing running beside them; `interagents.py` dispatches to the other
commands; adapters, manifests and supervisors are configuration. The JSON-RPC framing of
`mcp_stdio.py` is a loop that reads a line and writes a line.

## 6. Plan

Done: Bus, Ledger, RequestContract and CodexMonitor, Election, Session, Drain, with
their runs and the theorems above. Bus came first because every other part talks to it;
Ledger covers the times that Bus abstracts to `fresh`; CodexMonitor is the part whose
promise is strongest; Election, Session and Drain are the parts whose state is files.

What would come next:

1. **Listener**: `client.py` as a component against Bus: frames that overtake the
   welcome, the pong watchdog, reconnecting under an old name after a rename.
2. **Proofs**: abstract specifications of the remaining components, in the manner of
   `DeliveryContract`, and their refinement.
