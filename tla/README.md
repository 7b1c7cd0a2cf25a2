# fubun in TLA+

fubun is a local automation daemon. Clients (the CLI) define *rituals*, fixed
lists of actions; *adapters* (a Linux adapter, a Chromium extension behind a
native messaging host, a VS Code extension) connect to the daemon, carry out
actions and report events about resources the user agreed to have observed.
Core owns every decision: what is approved, what runs, what is stored.

This directory holds TLA+ models of Core and its daemon, of the native messaging
host, and of the browser and VS Code extensions, the TLC instances that check them,
and TLAPS proofs. Everything is translated from the source under `src/`; the docs
are used only as a source of promises to check it against.

Contents

1. Inventory of the system
2. Modules and how they correspond to the code
3. Runs, bounds and what they show
4. Fairness
5. Where the code and its docs disagree
6. Proofs
7. Abstractions, and what is not modelled
8. Plan

## 1. Inventory

### Components, state and operations

| component | source | state | operations |
|---|---|---|---|
| adapter registry and dispatch | `fubun-core/src/adapter.rs`, `handle_adapter_connection` and `serve` in `fubun-core/src/lib.rs` | `connections` (instance id to connection token, hello, channel) and `pending` (request id to token and oneshot), each behind its own async mutex; per socket a bounded channel of 32 messages, a writer task and a reader loop | register (replaces an entry and drains its requests), disconnect_if_current, resolve, execute (select, insert, send, wait with a timeout), the guard of a dropped call, shutdown |
| action policy | `fubun-policy/src/lib.rs` | none: tables | which capability and tool an action needs, which fields of it an approval names |
| ritual lifecycle | `ritual_*_response` in `fubun-core/src/lib.rs`; `rituals`, `ritual_versions`, `ritual_approvals` in `fubun-storage` | rows; a handler's local copies of what it has read | create, update, preview, activate, pause, run |
| ritual execution and recovery | `execute_steps`, `finalize_unfinished_steps`, `start_server`; `executions`, `execution_steps`, `ritual_execution_locks` | rows; a call's loop index and counters | start_execution, update_step, update_execution, abort_running_executions |
| observation and events | `resource_create_response`, `*_observation_enable_response`, `observation_pause`, `ingest_adapter_event`, `ingest_response`; `resources`, `observation_scopes`, `adapters`, `events` | rows | create a resource, enable and pause a scope, store an event |
| storage engine | `fubun-storage/src/lib.rs` | one SQLite connection on one thread, requests through a channel; `schema_migrations` | every operation above, one request at a time; open, migrate, shutdown |
| IPC server | `start_server`, `serve`, `handle_connection` | the socket file, the set of connection tasks, the shutdown signal | remove a stale socket, bind, accept, handshake, route a request, drain on shutdown, remove the socket |
| frame codec, message types | `fubun-protocol/src/lib.rs` | none | length-prefixed JSON frames with a size limit |
| domain types | `fubun-domain/src/lib.rs` | none | validation, URL canonicalization, content hash |
| native messaging host | `apps/fubun-native-host` | pending event acknowledgements, three bounded channels, a loop and one task per event | bridges the browser's stdio frames and Core's socket |
| browser extension | `extensions/browser` | the mappings of observed pages in extension storage (active or pause_pending); in the worker's memory a native port, requests, a reconnect timer, a sequence number | observe, stop, permissions removed, reconcile at the start of a worker, navigation, open tabs; start, reconnect, request |
| VS Code extension | `extensions/vscode` | the current transport, a sequence number, a reconnect timer | establish, emit, reconnect |
| Linux adapter | `apps/fubun-linux-adapter` | none beyond its socket | executes three action types with external programs |
| CLI, daemon, paths | `apps/fubun-cli`, `apps/fubund`, `fubun-core/src/paths.rs` | none | argument parsing, printing, start |

### How they interact

Every connection is a tokio task. A client's task reads a frame, runs the
handler to its end and answers; handlers of different clients interleave at
every `await`, and nothing is locked across two storage requests. Storage is one
thread, so a request is atomic unless it is several statements outside a
transaction and the process dies between two of them. `ritual.run` calls
`AdapterManager::execute` once per action from the client's task; the answer
comes through the adapter's reader loop, which also ingests events and queues
acknowledgements on the channel that carries action requests. On a restart,
`abort_running_executions` runs before the socket is bound.

### What is hard

* Two locks taken one after the other (`register`, `disconnect_if_current`,
  `shutdown`), with reconnects under one instance id and teardowns that run late.
* An answer, a timeout, a disconnect, a dropped future and a shutdown racing for
  one pending entry.
* A bounded channel with two producers, one of which is the task that reads the
  answers.
* Values read in one storage request and used in another: the version that is
  approved, the status that allows a run, the scope that allows an event.
* A process that may die between any two statements, including those of the
  recovery itself.
* A retransmitted event over an old and a new socket.
* JavaScript promises: what a callback decided is applied by a continuation that
  runs later, and commands that interleave at every await.
* Storage of an extension without transactions: a handler reads all mappings, awaits,
  and writes all of them.
* A service worker the browser ends when it is idle, or in the middle of its work.
* A daemon that cannot tell the socket of a dead daemon from that of a live one, and
  a schema version that is read outside the transaction that depends on it.

`PROJECT.json` lists these as hazards, each at its line, with the properties that
would catch them going wrong.

### What makes each component correct

* Registry and dispatch: the pending map is exact, no request is stranded or
  misrouted, a late teardown harms nobody, every call returns, shutdown ends.
* Lifecycle: only content approved for its version is executed; versions are
  append-only and the current one is the newest.
* Execution: one running execution per ritual, no lock is leaked by a crash, the
  history is truthful, written once, and explainable as a simple sequential log.
* Observation: an event is stored at most once, only with consent, and a pause
  takes hold.
* Native host: acknowledgements reach the event they are for, every message is
  answered once.
* VS Code: no socket, timer or pending event leaks, events keep their order, every
  emit settles, a stop holds.
* Browser: a page that was paused is not observed again by itself, Core is told until
  it has paused, a revoked permission ends the observation, the bridge keeps trying.
* Daemon: the schema is whole whoever dies when, what a dead daemon left does not stop
  the next, a daemon alone is reachable, a shutdown ends.

## 2. Modules

| module | models | role |
|---|---|---|
| `AdapterEligibility` | `validate_hello`, `AdapterRequirements`, `connection_satisfies`, the action registry | operators, used by the next two |
| `AdapterManager` | the registry, dispatch, sockets, shutdown | state machine |
| `AdapterManagerProofs` | | TLAPS proofs about `AdapterManager` |
| `ExecutionHistory` | what a client may rely on when it lists executions | abstract specification |
| `RitualExecution` | the executor, its tables, crash and recovery | state machine; implements `ExecutionHistory` |
| `RitualExecutionProofs` | | TLAPS proofs about `RitualExecution` |
| `RitualLifecycle` | versions, approvals, status, up to the start of a run | state machine |
| `RitualLifecycleProofs` | | TLAPS proofs about `RitualLifecycle` |
| `Observation` | resources, scopes, events | state machine |
| `ObservationProofs` | | TLAPS proofs about `Observation` |
| `NativeHost` | the native messaging host after its handshakes | state machine |
| `NativeHostProofs` | | TLAPS proofs about `NativeHost` |
| `VscodeSession` | `VscodeAdapterSession` | state machine |
| `VscodeExtension` | the extension's commands | state machine; extends `VscodeSession` |
| `VscodeProofs` | | TLAPS proofs about both |
| `DaemonServer` | the life of fubund: start, migrations, connections, shutdown, crashes | state machine |
| `DaemonServerProofs` | | TLAPS proofs about `DaemonServer` |
| `BrowserExtension` | `BrowserIntegration` and `BrowserNativeBridge` | state machine |
| `BrowserProofs` | | TLAPS proofs about `BrowserExtension` |
| `MC*` | | constants of the TLC instances |

### AdapterManager

A socket is one run of `handle_adapter_connection`; its name is the connection
token. `connections[i]` is the token of the entry for instance `i`; the rest of
`AdapterConnection` is found through the token (`sock[c].hello`, `queue[c]`).
`open[c]` says that the receiving half of the channel exists. A dispatch is one
call of `execute`; `disp[d]` holds its local variables and its oneshot
(`reply`), `pending` the ids with an entry in the map, whose token is
`disp[d].token`.

Each action is one critical section or one await:

* `Register` and `FinishRegister` are the two halves of `register` (insert under
  one lock, drain the replaced token under the other); `DisconnectIfCurrent` and
  `DrainOwn` those of `disconnect_if_current`; `ShutdownClear` and
  `ShutdownDrain` those of `shutdown`.
* `SelectEligible` or `SelectNone`, `InsertPendingIfCurrent` (under both locks),
  `SendRequest` or `SendFailed`, `ReceiveReply` or `TimeOut` are `execute` in
  order; `Cancel` is the drop of its future and the guard that frees the entry.
* `WriterForward`, `WriterFail` and `AbortWriter` are the writer task;
  `Resolve`, `EventEmit`, `SendAck` and `LeaveLoop` the reader loop, which is
  busy in phase `acking` and reads nothing then, as the code awaits `send`.
* `Finished` lets a system in which every task has ended stand still, so that
  TLC's deadlock check means something everywhere else.

`resolve` removes the entry and then uses the oneshot; as one action this is the
same as a timeout that came just before it, because a timeout between the two
finds no entry to remove. Request ids are random UUIDs, so only a socket that was
sent a request answers it (`delivered`).

### RitualExecution and ExecutionHistory

`exec`, `steps` and `locks` are the three tables, `run` the `execute_steps`
calls in memory, `daemon` where the process stands. `StartExecution` is one
transaction. `BeginStep`, `ActionReturns`, `DeadlineTimeout`, `RecordStep` and
`DeadlinePassed` are the loop; `FinalizeStep` writes one open step per request;
`CommitExecution` and `ReleaseLock` are the two statements of
`update_execution`, which is not in a transaction. `StorageFails` is an error of
any request: the handler returns and leaves the rows. `Crash` is enabled always,
`Restart`, `AbortExecutions`, `AbortSteps` and `DeleteLocks` are the start, and a
crash may come between any two of them.

`ExecutionHistory` has one variable and four actions: a run begins if its ritual
has none running, steps are done in order, a run finishes with a status that is a
function of what was done, and a loss of the daemon aborts what was running.
`HistoryView` is the refinement mapping; locks, calls and recovery statements are
hidden by it.

### RitualLifecycle

`handler[k]` is the request a client connection is serving, with what it has
read. Every action ends with one storage request, so `activate` is four actions
(`BeginActivate`, `Preview`, `CreateApprovals`, `SetActive`) and `run` is
`BeginRun`, `Preflight`, `StartExecution`, `EndExecution`. A definition is a set
of actions with the fields an approval names and the text it does not, so that
two definitions can look the same to an approval and differ in content; the
content hash is the definition itself. `executed` records what was started.

### Observation

`enabling[k]` and `ingesting[s]` hold a handler between its requests. `late`
counts, as history, the events a connection stored in a scope while it was not
active. Synthetic events (`event.ingest` of a client) share the adapters and
events tables with semantic ones and may use any instance id.

### NativeHost

`loop` is the `select!` loop of `run_host`: it waits for Core (`requesting`) or for
room in a channel (`toNative`, `toAdapter`), and takes nothing else meanwhile.
`task[t]` is one `emit_event_and_wait` and its answer, `pending` the map from
request id to the task whose oneshot sender it holds. `DropGuard` is the drop of an
armed guard: it removes whatever is under the id, which closes the channel of
another task if the id was used again. `RouteAck`, `ReadRequest`, `RouteRequest` and
`ReaderEnds` are the single reader of Core's stream. `TakeActionResult` is the answer
to an action that was written to the extension. Core and the extension are open:
they send what they may send at any time.

### VscodeSession and VscodeExtension

JavaScript runs a callback to its end, then all promise continuations that are
ready, then the next callback. `Idle` says that nothing of the first two is in
hand; `Callback` and `Call` need it, `Continuation` needs only that no chunk is
being handled. Continuations that are ready at the same time run in any order,
which covers whatever number of ticks an `await` takes. `attempt[a]` is the promise
of one `establish()`: `resolved` and `rejected` mean that the hello was settled and
the `then` or `catch` has not run yet, which is where a stale decision could be
applied. The catch closes whatever transport is current then, as the code does.
`Thrown` is the promise of an `establish()` whose `createTransport` threw.
`owed[t]` are the requests written to a socket and not answered; a chunk of data is
the answers to a prefix of them, and with `InvalidFrames` a frame the session must
refuse, not behind a hello acknowledgement if `HelloAckAlone`.

`VscodeExtension` adds the calls of `observe`, `stop` and `emitIfRegistered` as
flows with a place each, the three keys of globalState, and the scope in Core. A
request to Core (`core-client.ts`) is handled or not and then answered or not; one whose
client has given up may be handled later (`abandoned`, `CoreHandlesLate`). Activation
starts with a scope an earlier session may have left and any part of the keys, since that
session may have ended between two of their updates.

### DaemonServer

`daemon[d]` is one process of fubund. Its phases follow `start_server`
(`RemoveStaleSocket`, `OpenDatabase`, the migrations, `AbortRunningExecutions`, `Bind`)
and `serve`. `check` is the `n` of the next `if current == n` of `migrate`: the version
is read, then the transaction begins, then its first statement takes SQLite's write
lock (`BeginMigration`, `FirstStatement`, `CommitMigration`), so another daemon may
come in between. `db` is what is committed; `batches` are the DDL batches whose tables
exist, which the first statement of a batch finds in its way. A transaction shows
nothing before its commit and is gone if the process dies (`Crash`, `StartFails`), as
SQLite promises. `BusyTimeout` is its five seconds. `deaf` is a process whose `serve`
returned with an error of `accept` and which waits for Ctrl-C.

`conn[k]` is a connection and the task that serves it. What a request does is left to
the other modules except for `event.ingest` and `events.list`, which meet the rows of
older daemons; `Oversized` is an answer `encode_json_frame` refuses. `overlapped` is
history: nothing in the code keeps two daemons apart, and the properties say what
depends on that.

### BrowserExtension

A handler of `BrowserIntegration` is a task with a place (`at`) for every await at which
another handler, the browser or Core can act: `check` before the second look at the
permission, `read` and `judge` before a decision, `write` and `remove` with the mappings
as they were read (`seen`), `request`, `waiting` and `pending` until a port is there and
the answer has come, `joined` for a reconnect that waits for an attempt.
`onPermissionsRemoved`, `reconcilePermissions`
and `stopCurrentPage` share `affected` (`left`) and `completed` (`done`). `Rejected` is
the difference between them: only `syncPausedScopes` goes on after an error.

`bridge` is `BrowserNativeBridge`, which keeps its port and its attempt (`connecting`)
apart. An attempt is `preparing` while `createHello` is awaited, and `hello` once the
hello is posted (`HelloPosted`). What closes the port ends an attempt whose hello is
posted, and rejects all who wait for it or for an answer (`RejectAll`). An attempt that is
`preparing` outlives its port: requests and reconnects go on joining it, `ReconnectTimer`
leaves it alone, and when `createHello` is done it fails and schedules nothing
(`HelloUnposted`). `Reconnect` closes the port of an attempt under way and then waits for
that attempt; only without one it makes a new one. `Answer` is Core carrying a request out, with the status of
the page's scope; `AnswerLost` and `GiveUp` are the ways a request may end without.
`Recycle` and `Kill` end the worker, whose memory is lost, and start the next one with
`integration.start`. `crossed` is history for the race named in section 5.

## 3. Runs

Every property has a mutant in `PROJECT.json`: a plausible bug in one action or
helper, defined next to it, under which the same instance violates it. The
operators whose comment begins with "Mutant:" are used for nothing else. What is proved
for every instance and follows the shape of the tables (`StatusSummarisesSteps`,
`SequentialSteps`, `VersionsImmutable`, `CommitNeverRefused`, `ApprovalsFaithful`,
`ActiveWasApproved`, the types of `RitualExecution` and `RitualLifecycle`, section 6) is
no longer part of a run. The other modules' `TypeOK` states the domains of the
variables; it was checked on the same instances and is left out of the runs, which are
kept to the properties that say something about the code.

| run | instance | checks |
|---|---|---|
| `adapter_churn` | 2 instance ids, 2 sockets, 1 dispatch, 3 hellos (with and without the permission, and one under the wrong adapter id), channel of 1; 378 thousand states | `PendingExact`, `NoOrphanPending`, `RegistryLive`, `RoutedToEligible`, `StaleTeardownHarmless` |
| `adapter_liveness` | 1 instance id, 2 sockets, 1 dispatch | `DispatchReturns`, `ShutdownCompletes`, as long as adapters read |
| `adapter_stalled` | the same | finding 1 |
| `ritual_execution` | 2 rituals, 2 executions, 3 actions; 560 thousand states | `SingleRunning`, `LocksAccountedFor`, `TerminalStepsClosed`, `HistoryImmutable`, the refinement `ImplementsHistory`, and `RunEnds` |
| `ritual_lifecycle` | 1 ritual, 2 clients, 3 versions, 2 definitions | `ExecutedWasApproved`, `CurrentIsLatest` |
| `stale_activation` | 1 ritual, 2 clients, 2 versions | finding 2 |
| `observation` | 1 browser instance with two sockets and the permission for one page, 1 VS Code socket, 2 locators, sequence numbers 0 and 1; 58 thousand states | `SequencesExact`, `EventsConsented`, `PauseTakesHold` |
| `native_host` | 2 events, 2 ids, 2 messages, 1 request of Core, channels of 1; 155 thousand states | `PendingExact`, `AcksGenuine`, `AnsweredOnce`, `EventAnswered` |
| `vscode_session` | 3 transports, 2 events, chunks of 2 frames, frames to be refused; 102 thousand states | `PendingOnCurrent`, `NoLeakedSocket`, `OneAttemptAtATime`, `StoppedIsQuiet`, `ReconnectArmed`, `EventsInOrder`, `EmitSettles` |
| `vscode_extension` | 2 overlapping flows, 1 transport, 2 events; 2.4 million states | `Throttled`, `OptIn` |
| `daemon` | 2 daemons, 2 clients, 2 events (one of an older daemon), a database that is new, of version 3, or of a newer daemon; 239 thousand states | `SchemaWhole`, `LeftoversHarmless`, `ReachableUnlessOverlapped`, `ShutdownEnds` |
| `browser` | 2 pages (one whose permission comes and goes), 2 handlers at a time, 3 handlers and 1 fault in all; 294 thousand states | `LocalPauseHolds`, `RetryArmed`, `ForgottenWhenPaused`, `RevocationTakesHold`, `PauseNotForever` |

Why the bounds are enough for the cases of interest:

* *Sockets = 2* are a connection and its replacement under one instance id, with the
  teardown of either before or after the other, or two instances to select from.
  Calls of `execute` meet each other only in the bounded channel; *Capacity = 1*
  (32 in the code) lets an acknowledgement fill it, as another request would, so one
  dispatch meets a full channel too. With two dispatches and one instance id
  (1.55 million states) the same properties hold.
* *N = 3* has a first, a middle and a last action, so that failed, partial and
  succeeded differ and a finalization has a running and a pending step to close.
  Two executions of one ritual contend for its lock, of two rituals they do not.
  Crashes are unbounded.
* *MaxVersion = 3* lets two updates that read version 1 race and a third follow;
  the two definitions share every approval field. `next \in Numbers` is the only
  cap, on the number of versions.
* Two sequence numbers are enough for an out-of-order pair and a retransmission.

* *MaxTasks = 2* with two ids has two events with one id, at once or one after the
  other, and with two. The reader may keep the one request of Core for ever, which is
  what it does when its channel is full; two requests and three messages were checked
  for the invariants alone (1.5 million states).
* *MaxTransports = 3* is a connection and two reconnections: a late event of the
  first can meet the second and the third. When the transports are used up,
  `createTransport` throws, which it may always do, so the bound makes no behaviour
  the code does not have. Two events make a chain; with chunks of two frames an
  answer is followed by another frame in the same callback.

* *Daemons = 2* is a daemon and its successor, overlapping or not; crashes are
  unbounded, one per daemon and statement. Version 3 has the migration that rewrites
  rows, a new database all four. The same properties hold from every version 0 to 5
  with one client. *FrameLimit = 1* makes two stored events too many for one
  answer.
* *MaxHandlers = 3* with two at a time: two that overtake each other and one more
  that meets what they left, besides the reconcile of every new worker, which is
  not counted. With two faults (603 thousand states) the three action
  properties and the invariants of section 6 hold as well.
  Grants, revocations and idle workers are not bounded.

Symmetry is used only in runs without liveness, over sockets, dispatches, clients or
flows, none of which any definition tells apart. The runs that check liveness
(`adapter_liveness`, `adapter_stalled`, `ritual_execution`, `native_host`,
`vscode_session`, `daemon`, `browser`) use fairness. Only `native_host` disables the deadlock check: the
host ends.

What the passing runs show, beyond types:

* `PendingExact`: whichever way a call ends, its entry is gone, and no call waits
  without an entry that somebody can answer.
* `NoOrphanPending`: what the comment in `insert_pending_if_current` claims. A
  request on a connection that was replaced or removed always has a task about to
  fail it. Taking both locks for the insertion is what makes it true.
* `RegistryLive` includes a socket that registers after `shutdown` cleared the
  registry: its own teardown removes it.
* `ExecutedWasApproved` holds in the races in which the status check does not:
  the approvals are bound to the version and hash the run carries.
* `ImplementsHistory`: a client that lists executions while the daemon crashes and
  recovers sees nothing a sequential log could not have produced. In particular a
  recovery interrupted after its first statement is finished by the next one.
* `AcksGenuine` and `PendingExact` (NativeHost) hold although the guard removes by
  id: an entry of another task that goes with it leaves that task a closed channel,
  never a silent one.
* `OneAttemptAtATime` is why the catch of `establish` is harmless: `connecting` is
  set until after it ran, so no newer transport can be current.
* `ReconnectArmed`: there is no state in which the session should be connected, does
  nothing and has no timer.
* `SequencesExact`: the events table is a function of instance and number, and the
  adapters row holds the greatest number stored, whatever the order of arrival.
* `SchemaWhole` holds although two daemons may migrate at once: the version is read
  outside the transaction, but the first statement of a batch fails on tables that are
  there. `LeftoversHarmless` says that only such an overlap makes it fail: a socket
  file, a half-done migration or a lock of a dead daemon never stops a start.
* `ReachableUnlessOverlapped` names the price: a second daemon takes the socket away from
  the first, when it starts or when the first one ends after it.
* `ShutdownEnds` needs the strong fairness of section 4, since a client that keeps
  sending could otherwise keep its task from ever seeing the signal.
* `LocalPauseHolds` and `ForgottenWhenPaused` hold for handlers that do not overtake each
  other between a read and a write; `RevocationTakesHold` and `PauseNotForever` hold for
  all, because every new worker reconciles. `PauseNotForever` says that a mapping does not
  stay `pause_pending`; an observe, or a stale write, may end that as well as Core's
  confirmation, which `ForgottenWhenPaused` speaks of.
* `PauseTakesHold` is the part of the documented guarantee that does hold (section 5).

## 4. Fairness

`CoreFairness` (AdapterManager) is weak fairness of Core's own tasks, which the
tokio scheduler polls when they can proceed, and of the timer of a waiting call.
It is strong fairness where the code waits in a queue that another task can
refill: the semaphore of a tokio channel serves its waiters in order, so a send
that finds room again and again succeeds; and `tokio::select!` picks at random
among ready branches, so a reader that returns to its loop again and again takes
the shutdown branch. Nothing is assumed of clients, of when a shutdown is
signalled, or of adapters. `AdaptersRead` says that every adapter keeps reading its
socket; it is the hypothesis of `DispatchReturns` and `ShutdownCompletes`, and
`adapter_stalled` shows that it is needed.

`FairSpec` (RitualExecution) is weak fairness of each `execute_steps` call: it is
a task of the daemon, storage requests are answered, and an action returns or
times out, which is `DispatchReturns`. It thus inherits its assumption on adapters. Crashes, restarts and storage errors have no fairness, and
`RunEnds` excuses them.

`Fairness` (NativeHost) is strong fairness of the event tasks with their timers, which
wait for room in turn as above, and weak fairness of both writers, which need Core to
read its socket and the browser its pipe. Nothing is assumed of the loop, the reader,
Core's answers or the extension's messages.

`Fairness` (VscodeSession) is weak fairness of what the JavaScript runtime does by
itself: it runs ready continuations, finishes a callback and fires timers. Nothing is
assumed of sockets, Core or the user.

`Fairness` (DaemonServer) is weak fairness of a connection's task while it works on a
request, of the write of its answer (that clients read), and of the end of `serve`; it
is strong fairness of `ShutdownConnection`, because `read_request_or_shutdown` selects
at random between a frame and the signal. Starts, signals, requests and errors need
not happen.

`Fairness` (BrowserExtension) is weak fairness of a handler's own steps, an answer of Core
or its timeout among them, of the end of `createHello`, of the hello's answer, and of
`Recycle`: the browser ends
a worker that stays idle, and starts one for the next event. Without it a pause whose
request failed stays pending, as the comment in `reconcilePermissions` says. Nothing is
assumed of the user.

## 5. Where the code and its docs disagree

Each is a run that TLC must find violated. They are disagreements between a
sentence and an interleaving; the passing runs bound their consequences.

1. `adapter_stalled`: `execute` awaits the send into the bounded channel before
   its timer starts (`adapter.rs:385`). An adapter that stops reading lets the
   channel fill, and the next call waits without a bound, past the action's
   timeout and the ritual's deadline. `docs/threat-model.md:47` says every action
   has a timeout. With an adapter that reads, every call returns
   (`DispatchReturns`).
2. `stale_activation`: `set_ritual_status(active)` names the ritual only. An update
   that commits after `activate` read the version leaves the new, unapproved
   version active; ADR-0007 says only an approved version can be. Running it is
   still refused (`ExecutedWasApproved`).

Others are narrower and have no run of their own; the properties say where they begin.

* A run that has passed the status check is not stopped by a pause or an update that
  overtakes it before `start_execution` (`fubun-core/src/lib.rs:1397`), although
  `README.md:14` says draft and paused rituals are not executed. What is executed was
  approved (`ExecutedWasApproved`).
* The scope of an event is read in one request and the event inserted in another
  (`fubun-core/src/lib.rs:702`): a pause acknowledged between them does not stop it,
  although `docs/architecture/overview.md:29` says it is not stored. `PauseTakesHold`
  bounds it to one event per connection.
* `emitIfRegistered` starts the session with a mapping it has read before two awaits
  (`extension.ts:100`), and so does `observe`: a stop in between is undone, and the
  session reconnects with nothing observed, which `docs/threat-model.md:115` excludes.
  Core refuses the events if the pause arrived.
* The `then` of `establish` sets `connected` without looking at the transport
  (`adapter-session.ts:198`): if a frame the session refuses shared the chunk of the
  hello acknowledgement, an event could precede the hello of the next transport. Core
  sends no such frame; the constant `HelloAckAlone` states this, and with `FALSE` TLC
  finds `EventsInOrder` violated.
* In the browser, a handler that has read the mappings before a stop and writes them after
  it makes the stopped page active again (`integration.ts:142`): the stop is lost, which
  the comment at `integration.ts:184` and `docs/threat-model.md:83` exclude.
  `LocalPauseHolds` without `Overtaken` is violated.
* A page observed again while its stop waits for Core loses the new mapping to the end of
  the stop (`integration.ts:163`): the scope stays active in Core and the extension has
  forgotten it. `ForgottenWhenPaused` without `crossed` is violated.
* `native.reconnect` during an attempt closes the attempt's port, waits for the attempt
  and fails with it; its timer was cancelled and none is set (`native-bridge.ts:68`),
  until the next request or worker.
* The same without a reconnect: a port that is lost while `createHello` is awaited
  (`native-bridge.ts:139`) sets the timer, or finds one that an earlier failed attempt left
  set. If that timer fires before `createHello` is done, line 240 does nothing because
  `connecting` is set, and the catch at line 144 schedules nothing because the port is
  another one. The bridge is wanted, has no port and no timer, although
  `docs/threat-model.md:109` says that the connection is tried again after the port is
  lost. `RetryArmed` excuses this case and the one before, and nothing else: both begin
  with an attempt under way that has lost its port or is losing it to a reconnect. Without
  the excuse TLC finds it violated after a start, a loss of the port and the timer.
  Whoever waits for such an attempt is told when it ends (`BridgeInOrder`, section 6).
* ADR-0006 speaks of a single writer. Two daemons started at once both write; SQLite's
  lock keeps the schema whole (`SchemaWhole`), but the second one unbinds the first.

## 6. Proofs

Every safety invariant and every action property that a run checks is also a theorem of
its specification, for every value of the constants that the assumptions allow
(`EventsInOrder` under the hypothesis its run makes too); liveness is not (see the end of
this section). The inductive invariants of `DaemonServer`,
`AdapterManager`, `VscodeSession`, `VscodeExtension`, `NativeHost` and `BrowserExtension`
were checked by TLC on small instances before they were proved.

### RitualExecutionProofs

For every set of rituals and executions and every number of actions N > 0, from
`ConstantsAssumption` (N is positive; `None` is not a ritual, an execution, a
status or a failure code).

* `TypeCorrect`: one step per action.
* `LockInv` is the strengthening for locks. Neither `SingleRunning` nor
  `LocksAccountedFor` is inductive: both speak of the serving daemon, while the
  danger is what a crash leaves. `RunningLocked` (a running row holds the lock of
  its ritual, in every state of the daemon) is what carries the exclusion through
  a crash and an interrupted recovery; `CallsMatchRows` ties calls to rows;
  `RecoveryAlone` says that no call runs during a recovery and that nothing is
  running once its first statement is done, which is why the third may delete
  every lock. `RunsExcludeEachOther` and `LocksNeverLeak` follow.
* `StepInv` is the strengthening for steps, one conjunct per execution:
  `CallMatchesSteps` says that the good steps are those before the loop index, the
  current one is as the pc says and the later ones are untouched. The commit reads
  only the counters, so this is what makes the status it writes true.
  `CallKeepsRow` has one case per action, `RecoveryKeepsRows` one per statement of
  the recovery. `TerminalRunsClosed`, `StatusTruthful`, `StepsSequential` and
  `CommitAlwaysAccepted` follow.
* `HistoryNeverRewritten` and `HistoryRefined`: `StepRefines` maps `RecordStep` of a
  success to `DoStep`, `CommitExecution` to `Finish`, `AbortExecutions` to
  `AbortRunning`, and everything else to a stutter. The lock gives `Begin` its
  guard; `GoodStepsOfCall` gives `DoStep` and `Finish` theirs.


### RitualLifecycleProofs

For every set of rituals, clients and definitions and every bound on versions,
from `ConstantsAssumption` (the bound is positive; `None` is no ritual, client,
definition or status).

* `VersionInv` strengthens `CurrentIsLatest`. An update writes the number after the
  one its handler has read, so the proof needs that what a handler holds is still
  stored under its number, however long ago it was read (`HandlerFaithful`). From
  it: if the next number is free, the version read was still the current one
  (`UpdateKeepsVersions`). `CurrentStaysLatest` and `VersionsNeverRewritten` follow;
  every action is shown to keep the stored versions (`VersionsKept`).
* `ConsentInv` strengthens `ExecutedWasApproved`. Preflight and start are two
  requests, and so are approvals and status; between them a handler carries a
  version whose approvals are complete (`HandlerApproved`). They stay complete
  because approvals only grow and versions are never rewritten (`ConsentKept`).
  Most actions are `Harmless`; the four that are not (approve, set active, pass
  preflight, start) have a step each. `ConsentBeforeExecution`,
  `ApprovalsStayFaithful` and `ActiveOnlyAfterApproval` follow.

### ObservationProofs

For every set of locators, clients and sockets, every assignment of hellos and instances
to sockets and every set of sequence numbers, from `ConstantsAssumption` (sequence numbers
are naturals; hellos have passed `validate_hello`; `None` is no kind, source,
locator or status).

* `Numbers` states `SequencesExact` without sets of numbers and is inductive with the
  types. `OnlyStoreWrites` says that nothing but `insert_event` writes the two tables.
  `NumbersExact` follows.
* `ConsentInv` strengthens `EventsConsented`: the checks of an event and its insertion are
  two requests, so the claim is made of what a handler carries as well. It stays true
  because scopes are never deleted and a resource never changes its kind
  (`ConsentKept`). `CheckedIsConsented` establishes it, `WhatIsStored` says that a semantic
  event comes from no other handler. `ConsentBehindEvents` follows.
* `PauseInv` strengthens `PauseTakesHold`: a connection that has stored a late event in a
  scope that is still paused carries no other one for it, and a new one would have to find
  the scope active. `PausesTakeHold` follows.

### DaemonServerProofs

For every set of daemons, clients and events, every schema version the database may
start with and every frame limit, from `ConstantsAssumption` (versions and the limit are
naturals; `None` is no daemon, client, event or cause of a failure).

* `SchemaInv` strengthens `SchemaWhole`. The version is read before the transaction
  begins, so that a commit is sound only because of what a daemon still knows then:
  it has not passed the version (`NotPassed`), and while it holds the write lock the
  version is the one it read (`LockSound`). `FirstStatement` gives `LockSound`: if the
  version has moved on, the tables of the next batch exist and the statement fails.
  `NoCommitKeepsSchema` covers every step of a daemon but the commit,
  `CommitKeepsSchema` the commit, `ClientKeepsSchema` the tasks, which only add rows in
  the present form (`ClientFrame`). `SchemaAlwaysWhole` and `TypeCorrect` follow.
* `LoneInv` strengthens `LeftoversHarmless` and `ReachableUnlessOverlapped`. `Lone` says
  of a daemon that never met another one that nobody else is alive, that the path has
  been clear since it removed what was there, that the version it read still holds
  and, when it serves, that the socket is its own. A step of one daemon leaves a lone
  other one as it was because that one is not alive (`OthersLone`); for its own steps
  `StartKeepsLone` has one case per action, and needs `SchemaInv` where the first
  statement of a migration must not find its tables. `StartsUnharmed` and
  `LoneDaemonReachable` follow.

### AdapterManagerProofs

For every set of sockets, dispatches, actions and hellos, every set of instances that are
naturals (the order of instance ids is all that is used of them) and every channel
capacity above zero, from `ConstantsAssumption` (`None` is no instance, socket, error or
outcome; `Ack` is no dispatch).

`IInv` is the invariant: the types, what is to be shown, and three strengthenings.

* `DrainsReplaced`: a handler holds a token to drain only between the two critical
  sections of `register` or of the teardown, and then that token has registered, is out of
  the registry and will not be put back, because a socket registers once. Without it
  `NoOrphanPending` is not inductive: a dispatch could insert behind a drain.
* `SelectionKept`: from selection to return a call keeps the token, the instance of the
  token and a hello that satisfies the action, whatever the registry does meanwhile. This
  is what carries `RoutedToEligible` from the lock of `select` to the channel.
* `RequestsInPlace`: what is in a channel or was written from it was sent there by the call
  that chose the channel, so an answer meets the entry of its own call only.

`PendingExact` must hold across four places that take entries out of the map:
`AnswersKeepPendingExact` shows that whoever takes an entry out also decides the oneshot.
`PendingAlwaysExact`, `NeverOrphaned`, `RegistryAlwaysLive` and `AlwaysRoutedToEligible`
follow. `TeardownHarmless` is an action property: by `DrainsReplaced` the only token a
teardown can drain before the shutdown is one the registry no longer names.

### VscodeProofs

For every number of transports and events and every chunk length, from
`BoundsAssumption`; a chunk is any sequence of answers that fits, with or without frames
the session must refuse.

* `SessionInv` is about `VscodeAdapterSession`. `AttemptsInPlace` ties the promise of each
  `establish()` to its socket, to `hello` and to `connecting`: an attempt whose `then` or
  `catch` has still to run is the one under way, and its transport is current or none is.
  That is why the catch, which closes whatever is current, never closes a newer
  transport, and it makes `OneAttemptAtATime` true. `TransportOrTimer` strengthens
  `ReconnectArmed` to every moment, also between a callback and its continuations.
  `ChainInOrder` adds to the order of events that no number is used before it is taken.
* `AckInv` adds `AckedWhenConnected`, under the hypothesis `HelloAckAlone`. The order of
  events on the wire needs it: `connected` must mean that the hello was acknowledged, and
  that fails if a frame the session refuses arrives in the chunk of the
  acknowledgement. Hence `AlwaysInOrder` is `Spec => [](HelloAckAlone => EventsInOrder)`;
  Core sends nothing behind a hello acknowledgement before it has a request of the
  adapter. The other theorems hold without it.
* `ExtInv` is about the extension. `NotEnabled` strengthens `OptIn` with what the flows
  under way have concluded from globalState (none carries a scope if Core never had one),
  `SpacedOut` strengthens `Throttled` with the window being empty once five seconds have
  passed. `CommandsAreCalls` says that a command is a call of the session or leaves it
  alone; by it `SessionUnderCommands` carries all of the session's theorems over.

### NativeHostProofs

For every set of request ids, number of tasks, of actions and of messages and every
capacity above zero, from `ConstantsAssumption` (`None` is no id and no task).

`HostInv` has, besides the types and what is to be shown,

* `TasksInPlace` and `SendersUnused`: a sender in the map is of a task that was told
  nothing. `DropKeepsRouting` is the point of it: the guard removes whatever is under the
  id, so the task that loses its entry must in the same step find its oneshot closed.
* `MessagesNamed`: what is on its way carries the id it answers, so that the counts of
  `AnsweredOnce` balance. A step moves one unit between a channel, the loop and a task:
  `TakingBalances`, `SendingBalances` and `WritingBalances` are these moves, stated for
  the cardinalities once (`PositionsAppend`, `PositionsTail`, `LiveChanges`).

`HostPendingExact`, `AcksAlwaysGenuine` and `AlwaysAnsweredOnce` follow.

### BrowserProofs

For every set of pages, those with a permission the user may revoke among them, every set
of handlers at work and every bound on handlers and faults, from `ConstantsAssumption`.

`BrowserInv` says that a mapping stands for a scope Core knows, and the same of what every
handler has read (`InOrder`): it may write that back much later, over what another one
wrote. `syncPausedScopes` collects in `done` what Core has paused, and `InOrder` says that
these are still paused, or were enabled again in between (`crossed`). A rejected request
adds nothing to `done` (`RejectedInOrder`), an answered one does (`AnsweredInOrder`), and
what Core does for another handler leaves it true (`EffectKeepsOrder`).

`AlwaysPausedBeforeForgotten` and `AlwaysPausedLocally` are action properties of the two
steps that write the mappings; unless the handler was overtaken, what it writes differs
from what is there only as it decided.

`BridgeInOrder` relates the bridge to those who wait for it: a port that is open has an
attempt, one that is ready has none, a posted hello has its port; a handler waits for an
attempt only while there is one that will end, and for an answer only while there is a
port it can come from. `NobodyWaitsInVain` shows it for every interleaving of losses,
reconnects, timers and requests, those that join an attempt whose port is lost among them.
`AlwaysRetries` is `RetryArmed`: a step that leaves the bridge wanted,
without a port and without a timer starts from an attempt that had lost its port, or has a
reconnect in it that closed the port of an attempt; every other loss and every failed
hello leaves the timer set.
`AlwaysKnownToCore` needs no such excuse: overtaken or not, no handler writes a
mapping Core has never heard of.

### Only model-checked

Liveness (`DispatchReturns`, `ShutdownCompletes`, `RunEnds`,
`EventAnswered`, `EmitSettles`, `ShutdownEnds`, `RevocationTakesHold`, `PauseNotForever`)
is out of this prover's reach: it has no rule for fairness and none for ENABLED. TLC has
checked it on the instances of section 3. The two runs that show a violation
(`TimeoutBoundsCall`, `ActiveVersionApproved`) are TLC's as well. Nothing is proved of a
recursive definition, because the models have none.

## 7. Abstractions, and what is not modelled

* Strings, UUIDs, timestamps and messages are model values. `last_seen_at`, the
  name of a ritual, the redacted message of a step and the read-only reports do
  not appear. What validation of a definition or a URL decides is an input.
* Preview and preflight ask for adapters, resources and scopes over several
  requests. In `RitualLifecycle` their answer is one Boolean, taken together with
  the approvals; approvals only grow, so it does not matter when they are read.
* A dispatch error is an outcome of `ActionReturns`; its retry does not exist in
  the code.
* The loss of the daemon is a crash of the process; a torn write is SQLite's
  concern. The database is not shared with another process.
* Of the browser extension: a page is a resource with an origin of its own, so that the
  permission of an origin is that of a page; `reconcilePermissions` judges all permissions
  at once, where the code asks for one after the other (the two checks of an observe are
  steps of their own); a request that was given up is not carried out later; the content of the hello, the number of an event, its deduplication within five
  seconds and its chain, the limit of 64 requests and the execution of an action are left
  out. `stop` of the bridge is called by nobody.
* Of the daemon: the columns of the tables, queries that only report, and what the
  filesystem may do besides failing. Answers to requests are "ok" or "error".
* Not modelled: the bytes of a frame and its JSON, domain validation and URL
  canonicalization (character by character: TLC could only repeat the code), the Linux
  adapter (a sequential loop around external programs, of which `AdapterManager` takes any
  answer), the CLI and paths; of the native host its handshakes and the check of the
  caller, of the VS Code extension `deactivate` and what it shows the user.
  `PROJECT.json` gives the reason for each.
* The delay before a reconnection, the bytes of a frame and frames split over chunks
  are left out of `VscodeSession`: a timer may fire at any time.

## 8. Plan

Done: the state machines of Core, the daemon, the native host, and both extensions,
the abstract history and its refinement, and the proofs of every safety invariant and
action property above. In order:

1. An abstract specification of a dispatch, which returns one outcome and only the answer
   of the instance it names, and the proof that `AdapterManager` implements it; `IInv`
   holds what the mapping needs.
2. `NativeHost` composed with `AdapterManager`: all channels between the two full at
   the same time, each side waiting for room and reading nothing.
3. `RitualExecution` composed with `AdapterManager`: the outcome of a step is the
   outcome of a dispatch, and a disconnect reaches the history.
