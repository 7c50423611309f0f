# Wanda: a TLA+ verification of the server core and its clients

Wanda (see `src/README.md`) is a desktop app whose renderer talks to a server
runtime over HTTP (`/rpc`, mutations and queries) and a WebSocket (`/events`,
change events). Everything a client shows is kept fresh by that event stream,
so the core of the program is: a durable event log, a gateway that joins a
live firehose to replays of that log, a reconnecting client that keeps a resume
cursor, chats that join a scoped replay to live rows, an outbox of mutations, a
shared task board several agents claim work from, a runtime that drives agents
turn by turn and asks the user for permissions, a provider that speaks JSON-RPC
with Codex, a pty host under two kinds of backpressure, and pods whose terminals
are started, stopped and restarted. This directory holds TLA+ models of these,
model-checked with TLC, and proofs about ten of them.

Contents: 1 inventory, 2 plan, 3 modules, 4 runs and bounds, 5 fairness,
6 proofs, 7 disagreements found, 8 what is not modelled.

## 1. Inventory

| component (source) | state it keeps | operations | interacts with |
|---|---|---|---|
| event log (`packages/event-log`) | SQLite `events` with AUTOINCREMENT `seq`; `_meta` rows `epoch_first_seq` and `resource_epoch_first_seq`; read-only flag; open epoch | publish, publishBatch, replayPage, replayAll, replayPageByResource, prune, deleteByResource, enter/exitReadOnly, close, reopen | server runtime publishes; gateway replays |
| boot identity (`electron/server/identity.ts`, `packages/session`) | settings rows `server.id.epoch`, `server.id.crc`; `server_identity.epoch` | two bumps per boot, refusal of a torn identity | log opens under the first; hello-ack carries the second |
| gateway and subscriptions (`packages/gateway`, `packages/subscriptions`, `electron/server/ws-gateway.ts`) | per-connection state, hello timeout, firehose and resource subscribers | upgrade, hello, replay-from, replay-from-resource, subscribe, broadcast, teardown | session store authenticates; log is replayed |
| client transport (`electron/preload/ws-transport.ts`) | `lastSeenSeq`, `lastSeenEpoch` | envelope handlers, full resync | connection drives it; UI invalidates queries on reconnect |
| client connection (`packages/client-connection`) | `_state`, `ws`, `disposed`, `reconnectTimer`, `pendingSend` | start, stop, send, connect, forceReconnect, socket listeners, hello-ack, replay answers, enterReady | consumer callbacks `onFullResyncNeeded`, `onReady`; gateway answers |
| session store (`packages/session`) | server identity, sessions, one-shot tokens | issue/consume tokens, connect, disconnect, expire, revoke | gateway |
| outbox (`electron/shell/outbox-service.ts`, `packages/router`) | tables `outbox` and `outbox_routing` | enqueueAndFire, drainForServer, removeEntry, boot drain | paired server over HTTP, bridge reconnects trigger drains |
| task board (`packages/tasks`, `electron/domains/tasks`) | tasks, projects, context, versions | create, update, delete, publish, claim, complete, fail, block, unblock, release, renew, auto-claim, propagate context, tick | agents through MCP/RPC; a 10 s interval |
| agent runtime (`packages/agent-runtime`) | registry of managed sessions, turn fibers, pending permissions, rows that mirror them | create, prompt, review, cancel, close, eviction, resurrection, respondPermission, timeouts, boot drain | provider subprocesses; event log |
| agent providers (`packages/agent-providers`) | per session: active turn, its Codex name, pending RPC requests, latched transport failure | prompt, startReview, abort, notifications, approvals, transport failure | the codex app-server over two pipes |
| chat store, session subscription (`packages/agent-store`, `electron/preload/api.ts`) | applied seq per session, subscription id, buffer during replay | mount, subscribe, replay, apply, dispose | event stream, gateway |
| terminal engine (`packages/terminal-engine`) | batchers, subscriber lists, unacked bytes, pause flags | create, data, subscribe, ack, stdout backpressure, exit, destroy | server runtime over a child process's stdio |
| pods (`electron/domains/pod`) | pod and terminal rows, `streamMap`, `containerMap`, the pod locks, `transitioning`, sleeping restarts | start, stop, restart, delete, add, remove and start of a terminal, stopAllForWorkspace, exit, restart policy, boot recovery | terminal engine, docker |
| workenvs, git, reviews, settings, plans | rows and subprocesses | CRUD and orchestration | git, docker, VMs |

What is hard, and the properties that make each component correct:

* **event log** - pages of one replay interleave with publishes and prunes; one
  comparison decides whether a cursor is too old; a publish is three
  statements outside a transaction. Correct: a sequence number names one event
  for ever; a replay leaves nothing out without saying so; and it does not say
  so without cause.
* **event stream** - two boot counters in three writes, a firehose that is live
  before the replay is asked for, drops under backpressure, FIFO sockets that
  die. Correct: a connected client with nothing in flight has seen everything
  or was told; a resync happens only for a reason; it always gets back.
* **client connection** - callbacks that outlive the socket they were for, three
  places that arm a timer, a stop at any await, a socket that has fallen and whose
  close event is still to come. Correct: one attempt at a time; accepted sends are
  written once, in order, or there is a reason; after a stop nothing new begins; it
  ends up connected.
* **outbox** - overlapping drains and fires, a crash between two inserts,
  failures classified by text. Correct: nothing leaves the queue unless the
  server has it; order inside a drain; everything settles.
* **task board** - every operation decides on a row it read before an await,
  the tick works through a list while callers change it. Correct: no claim is
  stolen; the tick respects live leases and unmet dependencies; numbers are
  unique; what expired is released.
* **agent runtime** - calls meet at two awaits only (spawning a provider,
  closing one), but there every call believes in the registry it read; a
  permission is a row, an event and a Deferred, written one after the other.
  Correct: a running turn can be cancelled; a session says running only while a
  turn runs; a provider process has an owner; an open prompt is awaited, and
  the provider, the log and the row agree on its outcome.
* **agent providers** - two ordered pipes, a name learnt late, an interrupt for
  a turn without a name, stale notifications, a dead transport. Correct:
  `prompt()` returns; nothing runs in Codex that nobody watches.
* **chat store** - dedup by sequence number against an out-of-order backfill,
  views that share a channel. Correct: no row hidden by a later one; the
  server keeps no subscription nobody wants.
* **terminal engine** - three hands on one switch per pty. Correct: what is over
  its high mark does not read; what is paused reads again.

* **pods** - one lock per pod that two calls do not take, a restart that sleeps
  outside it, exits reported by terminal and not by process. Correct: no process
  outlives its pod or is lost sight of; a pod that is starting or stopping is in
  somebody's hands; a terminal that should come back does.

`PROJECT.json` lists these hazards with their lines.

## 2. Plan

Done, in order of importance: `EventLog` with `EventLogProofs`, `TaskStore` with
`TaskStoreProofs` and `TaskBoard`, the abstract specification it implements,
`EventStream` with `EventStreamProofs` and `ReliableStream`, which it implements,
`ClientConnection`, `OutboxService`; then `AgentRuntime` with
`AgentRuntimeProofs`, which is about `CodexTurns` too, `PermissionFlow` with
`PermissionFlowProofs`, `ChatStream` with `ChatStreamProofs`, which is about
`ClientConnection` too, `TerminalHost`, `MutationQueue`, the abstract specification that
`OutboxService` is shown to implement, with `OutboxProofs`, and `PodLifecycle`;
`TerminalProofs` is about the last and `TerminalHost`.

`ChatStream` is the composition of a session's views with the client's recovery
and the gateway: it repeats of `EventStream` only what a view can tell apart.
`PermissionFlow` stands under the turns of `AgentRuntime`, and `CodexTurns` is
what a provider does with one of them; each sees of the next one what crosses
the call.

Left, in order:

1. Context requests of the task board: two more awaits inside a claimed task.
2. The session store with the gateway's teardown: one-shot tokens, expiry.
3. Next-ready selection, as an operator against a reference definition.
4. `AgentRuntime` composed with `PermissionFlow`: eviction while a prompt is open.
5. Workenvs and their prebuilt machines (`electron/domains/workenv`): rows left
   in a transient state by a crash or a failed start, two builds of one prebuild.

`ChatStream` has no abstract specification of its own: what a view shows starts
over when it is mounted and when the server restarts, so `ReliableStream`, which
promises a client what was ever published, is not what it implements.

## 3. Modules

### EventLog

One row per event: `[seq, ts, epoch, res]`. `rows` is the table, `lastSeq` the
AUTOINCREMENT counter (it survives pruning and restarts), `epochFirst` and
`resFirst` the `_meta` rows written with INSERT OR IGNORE. `Publish`,
`PublishBatch`, `Prune` (age, row count, both, scoped by kind or not),
`DeleteByResource`, `EnterReadOnly`, `ExitReadOnly` and `Reopen` are the methods of
the same names. `PublishTorn` is a disk that fills between publish's three
statements: the row stays though the caller was told it failed, and a first
sequence number may be missing. `AppendRefused` fails on the insert itself.
`ReplayStart`, `ReplayNext` and `ReplayGone` are one reader streaming pages, with any
other call in between. `FloorMoved` is the code's test for a cursor that is too
old, used for the epoch and for a resource. A prune that removes nothing
changes nothing and is not a step.

`committed` remembers everything ever inserted, `phantom` what the caller was not
given, `holes` what a prune scoped to one kind took, `erased` what a resource
delete took. `StreamHasNoGap` exempts phantoms (never announced to anybody),
holes and erased rows: a scoped prune does take rows out of the middle of the
sequence and the whole-stream replay then skips them silently, which is why the
exemption is there and why it is named. `ResourceReplayHasNoGap` exempts only the
deleted resource.

### EventStream

The path of an event from `publishEvent` to one client. A server start is
`BootEpoch`, `BootCrc`, `BootSession` (three writes, a crash between any two);
`ClearIdentity` is the remedy the error message prints. `Publish` appends and
broadcasts in one synchronous stretch; `Broadcast` may drop under backpressure
only when bytes are still unsent. `ServerHello` subscribes the firehose,
`ServerReplay` answers with rows and `complete`, or `gone`. `ClientAck`, `ClientEvent`,
`ClientComplete` and `ClientGone` are the transport's and connection's envelope
handlers. `up` and `down` are the two directions of the socket: FIFO, and gone
with it. Handling one envelope is synchronous in the code, so it is one step.

`covered` means handed to listeners *or announced lost* by a full resync (the
`wanda:replay-lost` event, after which queries are invalidated by
`shared/use-connection-status.ts:17-27`). `dropped` and `skipped` name the two ways
an event is lost in silence: backpressure, and a disruption while the cursor is
ahead of what was received. `QuietIsCaughtUp` says there is no third way. That the
second one happens is described in 7.

`ReliableStream` is what all this promises one client, without sockets, boots or
cursors: numbered events are published; each is *accounted* (handed over, or announced
lost) or *lost* in silence; a client is *at rest* or not. It comes to rest only with
nothing missing that is not lost; at rest it stays, and loses nothing, until an event
is published or its connection goes. `ImplementsStream` is the refinement: published
is the length of the log, accounted is `covered`, lost is `dropped` and `skipped`,
at rest is `Quiet`.

### ClientConnection

`ClientConnection`'s private fields, plus what it holds across awaits: `dials`
(connect calls waiting for a URL or token), `timers` against `handle` (armed timers
against the field that remembers one), `resyncs` (consumer callbacks not yet
returned). Each socket has a ready state and the answer the server still owes.
`Retries` is `scheduleReconnect` with its early return. A socket leaves `open` in two
steps: it is `closing` once the peer or a failed write has brought it down (`Falls`) or
the connection has closed it itself (`Hangs`), and `Closes` is the event that follows,
heard once. In between the connection may still be `connected` (`Dying`). The listeners
compare `this.ws` with their own socket. `Writes` is `writeDirect`, which puts nothing
on a socket that is not open and tells nobody; `Send` uses it when connected, and
`Flushes`, the loop of `enterReady`, for the queue, on whatever `ws` then is.

`accepted` remembers the envelopes `send` took, `written` those put on an open socket,
`unheard` those given to a socket that had fallen unheard. `AcceptedIsWritten` says that
the last is the only way to lose one in silence, short of a stop or a rejection.
`OneAttempt` counts dials, armed timers, and the sockets that open, are open or are
still `this.ws`. A socket the connection itself has told to close is not counted: after
a failed resync (`forceReconnect`) it may be closing while its successor opens, so the
server can see two for that long. `StopIsFinal` says what `stop` promises: no dial and no
timer begins any more, and once the dials and resyncs of before are over and `ws` is
gone, the connection is silent for ever.

`outlived` records that a resync returned after its socket was replaced or closed.
Then `enterReady` or `forceReconnect` runs for the wrong socket, and `OneAttempt` and
`AcceptedIsWritten` no longer hold; both consumers in the repository resync
synchronously, so the properties exclude it by name rather than the model leaving it
out.

### TaskStore

Each API call reads a row, awaits, then checks and writes in one synchronous
stretch under `WHERE version = ?`. So a call is `Read` followed by the operation
that was meant (`Claim`, `Complete`, `UpdateStatus`, ...), deciding on `call[c].seen`;
`Swaps` is the compare-and-swap. `Delete` is the operation that has none. A create is
`ReadProject`, `TakeNumber` (the swap of the project's counter), `Create`. A claim of a
parent goes on through `ListSubtasks`, `ReadSubtask`, `Claim`/`SkipSubtask`. A context
update goes on through `PropagateContext`, child by child, at listed versions. The
tick lists expired leases (`TickStart`), writes them one at a time (`ExpireStale`),
lists pending tasks (`ListPending`), reads each one's dependencies (`ReadDeps`) and
swaps (`Reconcile`); the first conflict throws out of the whole tick, as in
`lease-manager.ts` and `service.ts`. Dependencies are a list, as the caller gave it:
`DepsMet` compares its length with the number of rows found (`GetMany`), so that a
list that names one task twice is never met (7). `Room` is a bound: how far calls may drive
the versions; so is the second guard of `ReadProject`, as ids are finitely many.

`TaskBoard` is the board without any of this: rows without versions, and operations
that read, decide and write at once. `Claim`, `Renew`, `Complete`, `Release` and the
rest have their guards and the transition table there, on the row as it is; `Delete` and
`SetStatus` (`update` with a status) promise as little as the code does. `RowOf` drops
the version of a row. `OperationsAreAtomic` is the step part of the refinement: what
a call with a snapshot, or the tick with a list, does to the table is an operation of
`TaskBoard` on the rows that are there at that moment, or nothing.

### OutboxService and MutationQueue

Entries are numbers in the order they were enqueued. A call is an enqueueAndFire
or a drain; `drains` tells them apart. `todo` is what a drain has left of the
routing rows it listed; its minimum is the next one, as the list is ordered.
`EnqueueTorn` dies between the two inserts, `ServerApplies` separates the server's
effect from the answer, and the three failures are `Rejected` (the server's own
answer), `FailsTransiently` (kept for retry) and `FailsUnrecognised` (a lost
connection or 5xx whose text `isTransientFailure` does not know, so the entry is
deleted as if rejected). `applied` is the set of entries the server has had, once
or more.

`MutationQueue` is what the outbox promises: a mutation is queued until the server
has it or there is a reason to give it up, and does not stay queued for ever.
`ImplementsQueue` is the refinement: an entry is *new* beyond `given`, *queued*
while in the table, *gone* after; a rejected, removed or misread entry is
*excused*; an entry without its routing row is *adrift*, and is the one thing that
may stay.

### AgentRuntime

The runtime runs on one event loop, so what lies between two awaits is one step.
Of one session it keeps the database row, what the registry holds, and every
managed session ever made, each with its state, active turn, scope (the provider
process) and whether its transport has failed. A call awaits in two places only:
spawning a provider (`CallsCold` to `Resurrected` or `ResurrectFails`; a `create`, which
nobody else can know of before it returns, is one step, `Create` or `CreateFails`) and closing a
scope (`Evicts` to `Evicted`, `Close` to `Closed`). What a call does after its await
is what the code does: `registry.put` and `registry.remove` whatever the registry
holds by then. `Interrupts` is the interruption of the turn's fiber, which ends
before the loop serves anybody else. `setMode`, between the check and the start of
a turn, does not await in the one provider the build has, so `CallsHot` is one step.

`replaced`, `revived` and `leaked` name what can go wrong there: a session that left
the registry with its provider alive, a session resurrected while `close()` ran, a
provider whose handshake failed after the spawn, in `create` or in a resurrection. `Cancellable` and `ProvidersOwned`
say that nothing else goes wrong.

### PermissionFlow

A permission prompt is an event in the log, a row in `agent_pending_permissions` and
a Deferred in memory. `AwaitPermission` opens it, `Settles` decides it: by the user or
a timeout (`RespondPermission`), or with a deny for all that waits when a turn is
cancelled or fails (`TurnAborts`, `DrainsPending`). Each is one synchronous stretch;
the actions named `Torn` are what a crash between two of its writes leaves, and put
the request into `torn`. A turn that completes, and a `Close` without a turn, leave
what was asked. The log may go read-only (`LogChanges`): an event is then live-only
and its request is in `unlogged`. `Boot` lists the open rows, `BootDrains` denies them
one by one, the event before the row, and may die in between. `Said` is what was
decided on a request anywhere; `DecisionsStand` has it never change.

### CodexTurns

One Codex session over two pipes that keep order. `stdin` and `stdout` hold frames
(a request, its reply or refusal, notifications, approvals, a line that does not
parse). Codex names its turns; Wanda learns the name from the reply or from
`turn/started`, and until it knows it takes every notification for its own (`Matches`).
`prompt()` is an Effect generator: Effect (^3.19.16) does not resume a generator
whose effect failed or was interrupted, so its `finally` - reset of `turnRef`, removal
of the abort listener - runs after success only (`Finishes`), and `EndsBadly` is what
happens instead: the turn runner denies what is open and fires the abort signal,
whose listener sends `turn/interrupt`, with a name if there is one; the answers of the
denied prompts are written after it, by the fibers that awaited them. `TransportFails` latches
the first failure and rejects the turn. `unnamed` are the turns that ended badly
before their name was known.

Codex itself (`CodexStarts`, `CodexInterrupted`, `CodexAnswered`, `CodexWorks`,
`CodexGarbles`, `CodexDies`) is external and modelled from what the provider expects
of it.

### TerminalHost

A pty has one switch and three hands on it: `Sent` and `Acked` of the terminal's flow
control, `PausedAll` and `ResumedAll` of stdout's backpressure, `Reset` of an
unsubscribe or exit. Output is counted in chunks and goes pty, `pending` (the
handle's deferred callbacks), `batch`, `stdout`, main process, `acks`. Whether a write fills
stdout is a choice. `drained` are terminals a drain switched on above their mark,
`stranded` those unsubscribed while backpressure had them paused.

### ChatStream

Up to two mounts of the chat of one session, in one renderer, over one socket.
`own[s]` says whether row s is of this session; `floor` is the last row of earlier
boots; `agree` says whether the two boot epochs coincide (`EventStream` shows how
they come apart). A view subscribes, is acknowledged with the log's last number,
asks for a scoped replay up to it, holds back live rows beyond it meanwhile
(`Holds`), and applies a row only beyond the last one applied (`Applies`). All views
listen to one channel, so each gets rows that another's replay or the client's
recovery brings. `EnterReady` is the moment of connection: the queue goes out,
then every view subscribes, and at the first connection twice, because
`waitForReady` resolves too. `Connect` handles the hello of both sides in one step;
nothing is read on the socket before it. A replay, and the order in which views
subscribe anew, are the ascending listing of a set of numbers (`Ascending`).

`early`, `dropped`, `skipped`, `agree` name what can cost a view a row: a row that
overtook the view's own replay, backpressure, a socket lost in the middle of a
recovery, epochs apart. `leaked` are views disposed before they knew their
subscription's id. `QuietIsShown` and `SubscriptionsOwned` say there is nothing else.

### PodLifecycle

One pod. `status` and `rows` are the database, `reg` is `streamMap`, `container` what
`containerMap` names, `pending` the restarts that sleep their second or wait for the
lock. `withPodLock` serves its callers one at a time and a caller that waits has done
nothing, so only the holder is state: `job`, its operation and how far it got.
`StartPod`, `StopPod`, `RestartPod`, `DeletePod`, `RemoveTerminal` and `Respawn` take the
lock; `StopOne`, `Stopped`, `Deleted`, `Removed`, `ContainerReady`, `Create`, `Register` and
`Started` are the stretches between their awaits. `StartTerminal` to `TerminalStarted`
and `Sweep` to `WorkspaceDeleted` take none. `ExitReported` is `handleTerminalExit`,
which drops whatever its terminal has registered by then. `Reboot` is a crash and
`resetStalePods` with `recoverContainers`.

`setting` is what a pod does not change: its runtime, whether docker refuses,
whether the controller may move on before it hears of an exit (`late`), and whether
the calls without a lock are made. `NoOrphans`, `StoppedIsTornDown` and `RestartsHappen`
are about an `Orderly` pod, because outside it they do not hold (7); `TransientIsOwned`
is about all. Its one exception is `abandoned`, which a `Reboot` sets when it leaves a
stopped container behind (`recoverContainers` then keeps the status) and which ends
with the next change of the status. Processes are numbered, and a number is free again once its exit was
reported; a process whose creation was answered but not registered cannot be
reported yet, as in `local-target.ts`.

## 4. Runs and bounds

| run | module | what it shows | bounds |
|---|---|---|---|
| `eventlog` | MC_EventLog | no reuse, no silent gap, no false alarm | two resources of two kinds, 3 rows, 2 boots, 1 tick, pages of 2; symmetric in the resources |
| `tasks` | MC_TaskStore | operations are atomic on the row that is there; safety of claims, leases, dependencies, numbers; what is due gets released | a parent and its subtask, which depends on nothing, on the parent or on the parent twice; 2 agents, 2 overlapping calls, versions up to 2 and 3 that add up to 4 |
| `stream` | MC_EventStream | implements `ReliableStream`, caught up or told, resync for cause, always back | 3 events, 4 starts, 1 lost socket |
| `connection` | MC_ClientConnection | one attempt, sends in order and lost for named causes only, nothing new after a stop, ends connected | 4 sockets, 3 faults, 2 sends |
| `outbox` | MC_OutboxService | implements `MutationQueue`, drains in order | 2 calls, 3 mutations, 2 faults or crashes |
| `runtime` | MC_AgentRuntime | turns can be stopped, running means running, providers are owned | 2 calls, 4 spawns, 3 turns, 1 restart; symmetric in the calls |
| `permissions` | MC_PermissionFlow | open prompts are awaited, rows mirror the log, decisions agree and stand, boots settle the rest | 3 prompts, 3 crashes, 2 lapses of the log |
| `codex` | MC_CodexTurns | `prompt()` returns, no Codex turn is forgotten | 2 turns, 1 fault |
| `terminal` | MC_TerminalHost | over the mark is paused, paused reads again | 2 terminals, marks of 1 chunk, 3 chunks |
| `chat` | MC_ChatStream | a quiet view shows every row of the boot, no orphan subscription | 2 rows, 2 mounts, 2 side by side, 1 lost socket, 1 restart |
| `pod` | MC_PodLifecycle | nothing outlives or escapes its pod, transitions are owned, restarts happen | 2 terminals, one with policy always; 2 processes not yet reported ended, 1 waiting restart of a terminal; an orderly local pod, a docker pod with refusals and late exits, a local pod with the calls that take no lock |
| `chat_history` | MC_ChatStream | a violation, see 7 | 1 row, 1 mount, 1 restart |

Why the bounds are enough to mean something. EventLog: a page of 2 with 3 rows
gives a replay of two pages; two kinds let a scoped prune take the middle row;
2 epochs let an epoch start after rows it cannot see; one tick separates rows
by age. EventStream: 4 starts let a torn identity be cleared and the server
come back with counters apart while a client is connected; 3 events let a live
one overtake a replay of two. ClientConnection: one socket more than faults, so
the last attempt can succeed; two sends, so that one can go to a socket that has
fallen and the next to its successor. TaskStore: two calls and the tick are three
writers on one row; the subtask's versions up to 3 let a row be read, changed by
somebody else and written late, and the parent's up to 2 let it be claimed or
completed meanwhile; calls stop once the two add up to 4. Outbox: two drains and a fire over three entries, with a
fault in each. AgentRuntime: two calls both spawn while a third session is
resident or gone, and 4 spawns leave one for after the restart. PermissionFlow:
3 crashes let a boot drain die twice, with one prompt per cause left.
CodexTurns: two turns are what a stale notification needs; one fault at each
point of both. TerminalHost: 3 chunks put one terminal over its mark by two
batches while the other blocks stdout. ChatStream: two rows are what it takes
for one to hide the other, and two views for one to hear the other's replay.
PodLifecycle: one terminal that comes back next to one that does not, and a
process each; a terminal's second process takes the number of its first.
What is never reached with these bounds: three callers on one task, three
sockets with resyncs pending at once, three views, long logs.

EventLog, TaskStore and AgentRuntime are checked for deadlock. The others come
to rest where a bound is used up or nothing is left to do: EventStream (no more
starts, or a refused start), ClientConnection (stopped, rejected), OutboxService
(empty queue), PermissionFlow, CodexTurns, TerminalHost and ChatStream (all
turns, chunks, mounts used and everything delivered), PodLifecycle (a deleted
pod). The program idles or ends there.

`TypeOK` of ClientConnection, OutboxService, CodexTurns, TerminalHost, ChatStream,
PodLifecycle, TaskStore, EventStream and PermissionFlow describes their variables; the runs of
these modules spend their checks on the properties above. It is proved instead (6),
but for ChatStream's, of which the proofs use a part (`ChatTyped`).

## 5. Fairness

Safety properties are checked without fairness except where one run checks both.

* `TaskStore`: `WF(Tick)`. `service.ts` calls `tick()` from a 10 s `setInterval`.
  Callers have no fairness: nobody is obliged to renew, complete or retry.
* `EventStream`: `WF` of the boot steps (a started server finishes starting), of
  `Connect` (the backoff timer always redials), of the server's and the client's
  envelope handling (a socket that stays up delivers). Cuts, crashes and
  publishes are never forced, and are bounded, so what is shown is what holds
  once disruptions stop.
* `ClientConnection`: `WF` of start, of timers and dials, of opening, answering
  and returning resyncs, and of the close event of a socket that is closing (the
  implementation gives up on a silent peer and fires it). A request left unanswered for ever on an open socket is
  excluded.
* `OutboxService`: `WF` of drains (every bridge reconnect and every boot starts
  one), of a drain's next row, and of a request's end.
* `PermissionFlow`: `WF` of `Boot` (the server is started again) and of the boot
  drain's next row. Nobody has to answer a prompt.
* `CodexTurns`: `WF` of reading either pipe, of the event loop resuming
  `prompt()`, of the user's answer, and of Codex ending a turn it was left alone
  with (`CodexWorks`). No deadline has to pass, so `TurnsEnd` does not lean on
  timeouts; that Codex answers what it read is assumed of it.
* `TerminalHost`: `WF` of the drain a refused write is followed by, of reading
  both pipes, of the handle's deferred callbacks and of the batcher's timer. No
  terminal has to produce, subscribe or exit.
* `PodLifecycle`: `WF` of the steps of the call that holds the lock (every await
  returns) and of reported exits; `SF` of a restart, since the lock is a semaphore
  that serves in the order of arrival. No call has to be made, no process to end.
* `EventLog`, `AgentRuntime` and `ChatStream` state no liveness.

## 6. Proofs

All are for every value of the constants, from the modules' named assumptions
alone. Each module first states an inductive invariant, `IInv`, as a conjunction of
named parts (`ChatIInv` of `ChatStream`, and `HostIInv`, `CodexIInv`, `ClientIInv` of the model a
module is about besides its own); TLC checked every one on the run of its model.

`EventLogProofs`: `TypeCorrect` (`Spec => []TypeOK`), `SeqNeverReusedAlways`,
`StreamHasNoGapAlways`, `ResourceReplayHasNoGapAlways`, `TooOldIsRealAlways`. But for the
first none is inductive. A replay page starts at a cursor and trusts one comparison of two
numbers, so one has to know what those numbers say about rows that are gone.
`EpochFloor` says it: of every acknowledged event of the current epoch (not
removed by a scoped operation), the first sequence number on record is at or
below it, and either its row is still there or every row left is later.
`ResourceFloor` says the same per resource. Both survive a prune only because a
prune takes a prefix of its scope: by row count that is lemma `PruneTakesOldest`
(with `LaterCounted` on cardinalities), by age it needs the conjunct of `Recorded`
that timestamps grow with sequence numbers. That conjunct holds because the
model's clock never steps back; a real clock might. `PageHasNoGap` then shows
that a page read at a cursor that is not too old leaves out nothing up to its
last row. `FirstsBehind` and `ReaderBehind` say that everything recorded lies at
or before `lastSeq`, which makes new rows later than all of them. `Inductive` puts
it together, one lemma per action that changes the table. The converse, that
too-old is never said without cause, needs the opposite of a floor: `Numbered`,
that numbers are given out without holes and those from the epoch's first one on to
its events, so that above a cursor older than the oldest row there is a number whose
event is gone.

`PermissionFlowProofs`: `TypeCorrect`, `OpenIsAwaitedAlways`, `RowsMirrorLogAlways`,
`DecisionsAgreeAlways`, `DecisionsStandAlways`. The properties speak of a server that serves, and have to
survive one that is down or in the middle of its boot. What holds then is that
an open prompt nobody awaits has an open row (`OpenIsFound`, `RowsFollowLog`), so
the next boot finds it; that an open row is one nobody decided yet, but for a
boot that died after logging its own deny (`OpenIsUndecided`); and that what waits
or is being drained is open (`PendingIsOpen`, `DrainingIsOpen`). A crash empties
the memory and leaves exactly these; a drain that ends gives the properties back.
That a decision stands: neither log nor row is written once it has one
(`WritesSpareDecided`), who is answered waits and so has no answer yet
(`SettlesSparesDecided`), and what is added to a decision equals it (`NoneIsAdded`).

`TaskStoreProofs`: `TypeCorrect`, `NumbersUnique`, `ClaimsAreNotStolen`,
`LiveLeasesAreSpared`, `DependenciesAreAwaited`, for any number of tasks, agents and
overlapping calls. All but the second turn on one fact, `Snap`: a row somebody read
is not ahead of the row that is there, and is that row if the version is the same.
It holds of every snapshot a call or the tick holds, because each write adds one to
the version (`Replaces`, `ReplaceKeeps`), a deleted row never comes back, and of a
row not yet created nobody has a snapshot. So a guard that was true of what was read
is true of what is written (`HeldIsCurrent`, `ListedIsCurrent`). The numbers need
that the counter has passed every number given out and that no two creates in
flight have one number or one id (`NumbersDiffer`). One lemma per operation.

The same module has `OperationsHappenAtOnce` (`Spec => OperationsAreAtomic`) and
`BoardIsImplemented` (`Spec => Board!Spec`). A swap that succeeds finds the row its
call has read, so the operation the call decided on is enabled on the row that is
there (`HeldIsCurrent`, `ListedIsCurrent`) and writes what `TaskBoard`'s does
(`PutsRow`, `RowsPut`, which also say that no other row changes). The tables of allowed
transitions of the two modules are the same one (`TransitionsAgree`). A context update
and its propagation to the children write what the board does not show
(`ContextIsUnseen`), and so do renewed versions; reads, refused swaps, conflicts and
restarts are stutters. One lemma per operation again.

`OutboxProofs`: `TypeCorrect`, `DrainsInOrderAlways`, and `QueueIsImplemented`
(`Spec => Queue!Safe`, the safety half of `ImplementsQueue`). That a drain is in
order needs that whatever was enqueued after the drain read its list is later
than all of the list (`DrainsAhead`). That an entry may leave needs that an answer
still to be handled is of an entry the server has (`AnsweredIsApplied`). The
refinement then has one lemma per kind of abstract step: `SubmitsNext`, `Reaches`,
`Leaves`, `GivesUp`, `NoQueueStep`.

`EventStreamProofs`: `TypeCorrect`, `QuietIsCaughtUpAlways`, `ResyncNeedsRestartAlways`.
That a quiet client has everything says nothing about the way there, so the
invariant says of each event that is owed (`Owed`: not received, dropped or skipped)
where it is, by how far the client has come: past its cursor while it is away and
past the cursor of the replay it asked for (`Ahead`); on the socket from the end of
the replay on (`Coming`); and, since a replay sends the rows of one epoch only, in
the current epoch unless the client is about to notice that its own is another
(`Findable`). What carries it are `Handshake` (one socket's two ends agree),
`Truthful` (what is on the socket is still true of the log) and `Behindhand` (the client
is never ahead). A replay lists each row once and in order, whatever the number of
rows is (`AscendingLists`); the model therefore writes it as the one ascending
sequence of a set of rows.

`StreamIsImplemented` (`Spec => ImplementsStream`) has one lemma per kind of abstract
step. A publish finds a client that is at rest with nothing unsent on its socket, so it
cannot be dropped (`PublishMaps`); what a lost socket or a crash adds to `skipped` is
missing already, and of a client at rest it is nothing new, by `QuietIsCaughtUp`
(`DisruptMaps`, `QuietHasAll`); the last envelope handled is the one that brings a client
to rest, and that it then lacks only what is lost is `QuietIsCaughtUp` in the new
state (`RestIsHonest`).

`ChatStreamProofs` has two parts. Of `ChatStream`: `SubscriptionsAreOwned` and
`QuietShowsAll`. What `EventStreamProofs` says once of a client is here said of each view
(`Complete`): a row it misses is on its way (`Coming`), by a subscribe still to be
answered, by an acknowledgement or a scoped replay that reaches as far, or on the socket
itself. New is that views share one channel, so a row may come ahead of an earlier one
that is missing, from the client's recovery or another view's replay; then a replay of
the view is still to end behind it (`Owing`), and the view holds back what it
cannot apply yet. That this mends the order rests on `Numbered`: an acknowledgement is
ahead of what was sent before it, behind the live rows sent after it, and ahead of every
replay of its view that it overtakes. `Counted` ties the replays a view waits for to
the frames on the socket, so that a quiet view holds back nothing. While the client
is not connected, what is missing lies beyond the cursor it will replay from
(`Recoverable`). For the subscriptions, `Withdrawn` follows the unsubscribe of a view
that is gone, queued behind each of its subscribes, and `Acquainted` says that an id a
view holds is of this socket, or that a replay is owed to it.

Of `ClientConnection`, which the module instantiates for an arbitrary set of sockets and
arbitrary bounds: `ClientTypeCorrect`, `OneAttemptAlways`, `AcceptedIsWrittenAlways`,
`StopIsFinalAlways`. Everything hangs on the socket in `ws` being the only one that
opens or is open, and not yet closed itself (`SocketGood`, `Single`): then a dial, a
timer and a socket replace each other one for one, and *connected* has a socket that is
open, or has fallen unheard, to write to (`Connected`). A rejected connection has
nothing under way (`Ended`). The order of envelopes needs that what is queued is later
than what is written and that nothing is queued while connected (`Ordered`), so that a
send that bypasses the queue overtakes nothing; `NothingLost` is the rest of
`AcceptedIsWritten`. That a stop is final (`StaysStopped`) needs of the invariant only
the types and that a timer which can be cleared is armed.

`AgentRuntimeProofs` has two parts. Of `AgentRuntime`: `TypeCorrect`,
`CancellableAlways`, `NeverStuckAlways`, `ProvidersOwnedAlways`. Turns and sessions point at each other (`TurnGood`, `RunsGood`):
neither `Cancellable` nor `NeverStuck` is inductive without the other direction. Nearly
every step that touches both only makes one session stop running, so one lemma,
`StopKeeps`, serves them all. Ownership follows a provider from its spawn, which one
call alone knows (`CallGood`), through the registry (`RegistryGood`), to its close
(`ScopeGood`). Of `CodexTurns`, which the module instantiates: `CodexTypeCorrect` and
`AttendedAlways`. Wanda and Codex know of a turn only what the frames between them say,
so the invariant is about what is in the pipes: a start is read once and answered once
(`StartGood`), what Codex said of a turn is true of it (`SaidGood`), what Wanda knows by
name, interrupts or saw the end of exists (`NameGood`). Then a turn that was requested
and that Codex has not ended goes on or has its interrupt under way, but for the
exceptions (`Watched`), before Codex has read the start as much as after. It holds
until Codex is gone; from then on nothing runs in it.

`TerminalProofs` has two parts. Of `PodLifecycle`: `TypeCorrect`,
`TransientIsOwnedAlways`, `NoOrphansAlways`, `StoppedIsTornDownAlways`. The exit of a
process removes whatever its terminal has registered, a newer process too; that it
never does so in an orderly pod rests on `OnePerTerminal`. This is inductive only with
what makes sure that nothing is left of the last process when one is created:
`Creating` (a terminal still to be started has none), `Waiting` (nor has one whose
restart waits, and it waits once, in a running pod) and `TearingDown` (nor what a stop,
delete or remove is through with), with `Honest` on what the status says of the holder
of the lock. `TransientIsOwned` needs only the shape of the calls (`Shaped`) and
holds in every kind of pod: no step lets go of a pod in a transition (`NobodyLetsGo`),
but for the crash, which either resets the status or sets `abandoned`. Of `TerminalHost`, which the module instantiates, the
assumption on its constants being a hypothesis of the theorems: `HostTypeCorrect`
and `OverHighIsPausedAlways`. What links the switch of a PTY to its count is the flow
controller's own flag: above the mark is held (`AboveIsHeld`), and held is paused, but
for what a drain let go (`HeldIsPaused`).

Only model-checked: all liveness (`TicksGetThrough`, `EventuallyAccounted`,
`EndsConnected`, `BootSettles`, `TurnsEnd`, `KeepsFlowing`, `RestartsHappen`, and that a
queued mutation settles), because fairness is out of the proof system's reach.

## 7. Where code and text disagree

One run expects a violation. `chat_history`: `electron/preload/api.ts:407-409` says
of the session replay that it is used on mount "so navigating away and back still
shows the full turn history". The container subscribes instead, and a subscription's
replay names `upToSeq`, with which the gateway replays the running boot only. After
a restart of the server a mounted chat shows nothing logged before it.

The models also show the following, which the properties name as exceptions (the
history variable is given) or leave out:

* Task board: "Unblocking returns to 'ready' (agent must re-claim)"; `update` with a
  status keeps the owner, and nobody can then claim the task
  (`task-manager.ts:121`).
* Event stream: clients "bridge disconnect gaps without losing events"; a live event
  that overtakes a replay moves the cursor, and a socket lost then skips the rows
  not yet replayed (`skipped`).
* Event stream: the log's epoch is "exposed to clients via hello-ack"; it is another
  counter, and a crash between the two bumps leaves them apart (`agree`).
* Task board: a task waits until its dependencies are completed. The tick compares
  the length of the list with the rows found (`task-manager.ts:335-336`) and nothing
  removes duplicates, so a task that names one dependency twice stays pending for
  ever (`TicksGetThrough` speaks of lists without repetition).
* Client connection: after stop, "no new socket created"; a stop during a dial is
  followed by one (`client-connection.ts:144`; `StopIsFinal` lets what was under way
  come through). The callers of stop include
  `features/servers/paired-terminal-bridge.ts:449`.
* Client connection: `send` drops only when "idle / offline / unpaired / stopped"
  (`client-connection.ts:122`); it also drops what it is given while *connected* to a
  socket that is closing, or whose write throws (371-376; `unheard`).
* Agent runtime: a `create` whose handshake fails after the provider was spawned leaves
  the provider running, in a scope nobody closes (`runtime.ts:384-424`; `leaked`).
* Outbox: "the server ledger stores both in dedup checks"; no ledger exists and the
  key is not sent, so an overlapping drain applies an entry twice.
* Codex: a test (`provider-integration.test.ts:520`) "ignores stale notifications
  from a different Codex turn id"; while the new turn's name is unknown they are
  taken for its own (`provider.ts:882`), and the end of a cancelled turn ends the
  next one (the exception of `Attended`).
* Chat: the handshake "fuses into the store without gaps or duplicates" (`dedup.ts`);
  the double subscription at the first connection, another view's replay and a
  leaked subscription each let a row hide an older one (`early`).
* Permissions: an event published while the log is read-only has sequence number 0,
  and `event-fanout.ts:140-142` says it is live-only; the store's dedup drops it
  when anything was applied before.
* Pods: `state.ts:9-11` says "create-and-register of a stream is atomic with respect
  to teardown". `startSingleTerminal` does both without the lock, and a restart that
  slept meanwhile (`terminals.ts:188-226`) asks for the pod's status, not whether the
  terminal runs again: it then has two processes, one registered nowhere (setting
  `unlocked`).
* Pods: a test (`pod-lifecycle.test.ts:85`) has it that "stop kills PTYs, clears
  mapping, sets stopped". A PTY killed by a restart reports its exit when it has
  died; if its terminal's next process is registered by then, that one loses its
  registration (`terminals.ts:131-134`) and outlives the next stop (setting `late`).
* Pods: "stop() keeps the container so a later start() reuses it"
  (`pod-lifecycle.test.ts:375-376`). `startPodTerminals` starts a container only when
  it just created it (`terminals.ts:644-689`); in one that was kept and is stopped
  every exec fails and the pod ends `failed`. And a docker terminal that is restarted
  becomes a PTY of the host (`terminals.ts:217`), which stopping the pod only
  unregisters.
* Session store: a grace window is written on disconnect and read by nothing in
  production.

## 8. Not modelled

* EventLog: backward and all-epoch paging and their upper bounds, `setEpoch`, the
  LIKE pattern of resource deletes and its possible over-match, latency metrics.
* EventStream: pings, binary frames, revocation, the hello timeout. Prune is left
  out because nothing in production calls it.
* ClientConnection: the length of the backoff, pings, live events, and the
  `forceReconnect` on a malformed hello-ack, which no server sends (its effect is
  that of a failed resync).
* TaskStore: projects' own updates and archiving, the contents of context and
  learnings, context requests, next-ready, peers, the event bus.
* OutboxService: methods, inputs, results, the retry count (it decides nothing),
  several servers (each has its own routing rows).
* AgentRuntime: setMode and setModel, questions, fork, list, import; a session's
  events.
* CodexTurns: items and text, models and modes, compaction, rollback, subagents;
  the other providers.
* TerminalHost: input, sizes, snapshots, scrollback, shell integration, and the
  order of the exit frame.
* ChatStream: the reducer, text deltas (they have no sequence number), optimistic
  messages, and the bridge to a paired server, which resubscribes without a replay
  (`features/servers/paired-terminal-bridge.ts:206-260`).
* PodLifecycle: terminals inside a workenv, commands, port forwards, git discovery,
  stopAll and shutdown, agent hooks, policy `on-failure`, several pods (each has its
  own lock), terminal identifiers used again.
* The session store's tokens and expiry, the wire codecs, settings, MCP, CLI.
  Workenvs, git and the renderer are mostly orchestration of external programs
  and presentation.
