# Termex: a TLA+ verification project

Termex is a terminal and SSH client (Rust core, Tauri/Vue and Flutter front
ends). Since v0.71 it has a daemon, **termexd**, that runs AI command-line
tools as supervised tasks on a remote host. Clients connect to it by WebSocket,
assign and cancel tasks, subscribe to their events, replay what they missed and
hand tasks over between devices.

This directory models the daemon, the client SDK and the bridge that connect an
app to it, the SSH sessions of the desktop backend and the download of local AI
models in TLA+, checks the models with TLC and proves their safety properties
with TLAPS. These parts were chosen because they are where the concurrency of
the program is: threads, futures, connection loops and calls of a user interface
share maps, queues, a database, a pool of connections and a file on disk, and
almost none of their interleavings is reached by a test.

Paths below are relative to `src/`; `supervisor.rs` and the like are files of
`crates/termexd/src/`.

## 1. Inventory

### 1.1 The daemon

| Part | State | Operations | Talks to |
|---|---|---|---|
| Task supervisor (`supervisor.rs`) | `active` map under a tokio mutex; per task a PTY master, a child, a reader thread and a waiter thread | `spawn`, `cancel`; the two threads and the futures they spawn | database (status, tail), event bus (output, status) |
| Request handler (`handler.rs`) | none of its own | one arm per client message | supervisor, database, bus, log, handoff |
| Event bus (`event_bus.rs`) | `next_seq`, one broadcast channel per task, the attached log | `next_seq`, `subscribe`, `broadcast` | event log, subscription pumps |
| Event log (`event_log.rs`) | hot ring of 512 events; table `events_log` | `push`, `replay_since`, hourly retention job | database |
| Connection loop (`server.rs`) | subscriptions, the mpsc channel into the loop, the device of the connection | one request *or* one event at a time | handler, bus, handoff |
| Handoff runtime (`handoff.rs`) | device -> sink, task -> watchers, under one lock | `on_connect`, `on_disconnect`, `register_device`, `subscribe`, `unsubscribe`, `send_handoff`, `try_take_over`, `broadcast_state` | channels of other connections, database |
| Ownership, registry (`crates/termex-core/src/handoff`) | `tasks.primary_device_id`, `devices` | `try_takeover` (one immediate transaction), `upsert` | SQLite |
| Database (`db.rs`) | `tasks`, `events_log`, `devices` | inserts, updates, queries; one connection under a tokio mutex | |
| MCP client (`mcp/`) | a buffered reader and the PTY writer | `handshake`, `next_notification` | the child |

What is hard there:

* *Threads against requests.* `spawn` starts the reader and waiter before it
  registers the task; the waiter of a child that exits at once, a cancel that
  comes early and the rest of `task.assign` overlap.
* *Locks held over awaits.* A sigint cancel holds the `active` mutex over a
  blocking write; everybody else queues behind it.
* *Several stores for one fact.* The end of a task goes to the table, to the
  bus and out of the map, and each step may fail or be overtaken.
* *Two tiers of one log*, filled in steps by concurrent broadcasts, re-fed by
  replays, trimmed by two different rules and surviving a restart only in part.
* *Bounded queues* that drop, lag or block: broadcast channels (1024),
  connection channels (256).
* *Connections that come and go*, some without their clean-up, while maps
  refer to them by device and requests remember what the maps said.
* *Restarts*: tables stay; maps, numbers, queues and children do not.

What makes each part correct: a running row has somebody who will end it; a
terminal row has a cause; the end of a task is stored before it is announced
and announced before it is forgotten; every exit is reported and every request
answered; what subscribers saw can be replayed; ownership passes from hand to
hand with one winner per race; the maps do not keep what is gone.

### 1.2 Client SDK and bridge

| Part | State | Operations | Talks to |
|---|---|---|---|
| Client SDK (`crates/termex-core/src/daemon/client.rs`) | a command queue (128), the map of pending requests, a local broadcaster per task (256), one task that owns the socket | a method per request with a time-out, `subscribe`, `close`; dropping the handle, a receiver or the future of a call | the daemon's connection loop (`server.rs`) by WebSocket |
| Bridge (`crates/termex-flutter-bridge/src/api/daemon.rs`) | connection handles, the `SUBSCRIBED` map of pump tasks, an event queue per handle | `daemon_connect`, `daemon_subscribe`, `daemon_drain_events`, `daemon_disconnect`; the pumps | the client SDK, the app |

What is hard there: the loop of the SDK and the loop of the daemon each write
before they read; a time-out leaves its request in the map; a command can be
queued after the map was drained; the daemon replaces a subscription that a
client repeats; a pump, a drain and a disconnect share one queue, and looking
up an entry and making it are two steps with an await between them. What makes
them correct: a caller gets the answer to its own request and no other, a call
that was refused is never carried out, nobody waits on a connection that is
over, and no event disappears between daemon and app without a named reason.

### 1.3 SSH sessions of the desktop backend

State: `sessions`, `proxy_sessions` (a bastion connection with a `ref_count`,
under a read-write lock) and `pending_host_key_decisions` in
`src-tauri/src/state.rs`. Operations: `ssh_connect`, `ssh_test`,
`ssh_disconnect`, `ssh_host_key_respond` (`src-tauri/src/commands/ssh.rs`), which
connect over a chain of hops (`src-tauri/src/ssh/chain_connect.rs`), and the
relay that reports the exit of the server. Hard: the lock is held over some
network waits and released over others, so that two connections can insert the
same bastion; a chain may fail at any hop; the entry found by server id may have
been reached by another route; tests and sessions release what they counted at
different times. Correct means: counts are the number of users, and no
connection is closed under somebody who uses it.

### 1.4 Model download

State: the partial file and the model on disk
(`crates/termex-core/src/local_ai/downloader.rs`), the map of cancel senders
(`src-tauri/src/commands/local_ai.rs`). Operations: download with resumption and
a mirror, cancel, delete. Hard: the length of the partial file is read before
the request and used after it; tokio's file writes go on in the background when
their handle is dropped; a server may ignore the range, end its answer early or
hide the size; the application may die at any point; several calls share the
path. The hash that would reveal what went wrong is a placeholder for every model
of the shipped catalogue (`crates/termex-flutter-bridge/src/local_ai_state.rs:64-271`,
`src/assets/local-models.json`), and a placeholder is not compared after a download.
Correct means: what is in place is the whole model as far as the downloader can
tell, and what is left behind can be continued.

### 1.5 The rest of the repository

`PROJECT.json` lists every component with its status and the reason. Parts that
have control of their own and are not modelled yet: the backup scheduler
(`backup/scheduler.rs`), the recorder (`recording/recorder.rs`), the registry of
reverse forwards, SFTP transfers and the llama-server process. The remaining crates are CRUD on SQLite,
parsers, wrappers of libraries and of the operating system, generated bridge code
and user interface; they have no concurrent state of their own to check.

## 2. Modules

| Module | What it is |
|---|---|
| `TaskLife` | abstract: what a client may count on about the status of a task |
| `TaskSupervisor` | task.assign, task.cancel, the child, reader and waiter threads, `active`, the tasks table; implements `TaskLife` |
| `EventStream` | numbers, bus, both tiers of the log, subscriptions, stream.replay, retention |
| `OwnershipRegister` | abstract: the owner of a task as a register with compare-and-swap, and its notices |
| `Handoff` | connections, device and watcher maps, messages between devices, ownership; implements `OwnershipRegister` |
| `RequestReply` | abstract: what the SDK promises of a request |
| `DaemonClient` | the client SDK with the daemon's connection loop at the other end of a socket; implements `RequestReply` |
| `DaemonBridge` | the bridge composed with `DaemonClient`, whose actions it conjoins with its own |
| `SshSessions` | chains of hops, the pool of bastions, host-key decisions, exit relays, disconnects and tests |
| `ModelDownload` | downloads with a partial file, resumption, mirror, cancel, hash, crashes |
| `MC_*` | instances for TLC (constants, symmetry, constraints that bound which accidents meet) |
| `*Proofs` | inductive invariants and theorems, extending the component's module |

The modules split the system where its parts meet through a narrow interface.
`TaskSupervisor` publishes an event in one step and without a number;
`EventStream` takes that step apart and knows nothing of what the events say;
`Handoff` shares the tables and the connection loops with both, but no event of
its messages goes through the bus (`seq_of` gives them no number). `DaemonClient`
sees of the daemon what a connection shows of it: requests handled one at a time,
events of one task, and a loop that reads nothing while it writes. The desktop
backend and the downloader share no state with the daemon.

All modules follow one convention: a process is modelled by a program counter
whose values are the points where another process can run (a lock, an await, a
blocking call, a future handed to the runtime). Code between two such points is
one action. A test helper (`spawn_disabled`, `insert_task_for_test`) is not
modelled. Variables marked "ghost" are history for the properties; no guard
reads them, except where one caps itself with a bound (`mixed`, `short`, `pages`).

### 2.1 TaskSupervisor

| Variables | Code |
|---|---|
| `row`, `tail` | `tasks.status`, `tasks.output_tail` (as a number of chunks) |
| `assign` | progress of the request in `handler.rs:131-187` and `TaskSupervisor::spawn` |
| `child`, `sigs`, `wrote` | the subprocess, as the daemon can see it |
| `reader`, `consumed`, `pumped`, `writerTaken` | `run_reader`, the two pumps, `take_writer()` |
| `waiter` | `run_waiter` and the future it spawns |
| `active`, `lockedBy` | `SupervisorInner.active` and a holder of its mutex across an await |
| `req` | task.cancel requests |
| `queued`, `published` | output futures not yet run; what was broadcast in this run of the daemon |

Actions by part: `AssignInsert(Fails)`, `Spawn(Fails)`, `Register`,
`AssignReplies`; `ChildWrites`, `ChildExits`; `ReaderStarts`, `ReaderGivesUp`,
`Handshake*`, `PumpReads`, `PublishOutput`, `McpPump*`, `PumpPanics`,
`PumpEnds`, `ReaderSaveTail(Fails)`; `Waiter*`; `Cancel*`; `Restart`. A lock
that is held for one synchronous statement is part of the action that takes it;
`lockedBy` only records the one holder that waits with the lock held. Text is
abstracted to chunks: one read of the PTY. Platforms without a pid for the
child are left out (`process_id()` is always there on Unix).

`TaskLife` knows rows, runs, cancel requests and announced ends, and none of the
threads, locks and maps. `TaskSupervisor!Life` instantiates it: `run` is computed
from the program counters of task.assign and of the waiter (`RunOf`; a run has
ended when the waiter stored it), `stop` from that of the cancel request
(`StopOf`), `told` is what was broadcast of ends, `unsure` that a write failed.

### 2.2 EventStream

| Variables | Code |
|---|---|
| `nextSeq` | `EventBus.next_seq` |
| `casts` | broadcasts in progress, of threads and of replays, each with its stage: `numbered`, `pushed` (in the ring), `logged` (inserted) |
| `hot`, `cold` | the ring of `event_log.rs`, newest last; the table `events_log` |
| `subs`, `ring`, `pipe` | subscriptions of a connection, the broadcast receiver of each, the mpsc channel into the connection loop |
| `got` | what the client has read |
| `replay` | the stream.replay the connection works on: reading the table, sending a page, answering |

Actions: `Number`, `NumberUnused`; `PushHot`, `InsertCold(Fails)`, `FanOut`;
`Subscribe`, `Unsubscribe`, `Pump`, `Disconnect`, `Deliver`; `ReplayAsks`
(served from the ring at once, or to be read from the table), `ReplayQueries`
(which leaves out rows of earlier runs that do not decode, `Decoded`),
`ReplayQueryFails` (answered like a replay of nothing), `ReplaySends`,
`ReplayAnswers`; `Prune`, `Restart`. A row is written by the daemon's own
serializer, so only one that an earlier run, perhaps of another version, wrote
may fail to decode. An event is known by the run
of the daemon that numbered it, so that a number used again after a restart is a
different event. What a replay reads is a *page*: the first `Limit` events after
the cursor in the order of the ring or of the table (`Pages`, a set of sequences,
which keeps recursion out of the module). Sequence numbers are `Width` bits wide
where the code converts them (`last_seq + 1` in u64 as a release build computes
it, `as i64` in the query). A pump holds one message while it waits for room in
the channel; the model leaves it in `ring`, which only makes the ring one
shorter. `fanned`, `pruned`, `unlogged` (events an insert of which failed),
`lagged` (events a receiver of the client skipped since it last asked) and the
fields `want` and `via` of a replay are history: `want` is what the client missed
when it asked, cut to the end of a full page, for the rest the client asks again;
`via` is the tier that served it, or `failed`.

### 2.3 Handoff

`up` is the life of a connection: `closed` ran `on_disconnect`, `aborted`
returned early at a `?`. `sink` and `watchers` are the two maps, `ident` the
device a connection registered last, `owner` the column `primary_device_id`,
`rows` and `known` the tables, `inbox` the channel of a connection, `req` the
request its loop is in the middle of: after `on_connect` and before the upsert,
after reading the sink and before sending, after the takeover transaction and
before the notice. `ids` (every device a connection ever registered) and `wins`
(the takeovers that wrote a row) are history variables. A connection without a
device acts as `Self`, the placeholder "self" of `handler.rs`.

`OwnershipRegister` has the assigned tasks, their owners, the takeovers (a set of
task, from, by, expected) and the notices somebody holds. `Handoff!Register`
instantiates it: takeovers are the members of `wins`, notices the `taken_over`
messages in the channels. A connection that breaks off or a restart only loses
notices; the two steps of a takeover (transaction, notice) are a `Take` and,
perhaps much later, a `Tell`.

### 2.4 DaemonClient and RequestReply

| Variables | Code |
|---|---|
| `pc`, `slot`, `result` | a call of a request method or of `subscribe`: where it waits, its oneshot, what it returned |
| `handle` | the `DaemonClient` value: held, closing, dropped |
| `cmds`, `loop`, `inHand`, `pending`, `casting` | the command queue, `connection_task`, the frame it writes, its map of pending requests, its broadcaster |
| `recv`, `inbox`, `lagged` | receivers of the local broadcaster, what they hold, which of them lagged |
| `up`, `down`, `link` | the two directions of the socket and whether it is up |
| `daemon`, `dOut`, `backlog`, `emitted` | the loop of `server.rs` for this connection, the frame it writes, the events on their way to it (the channel of the connection, the hand of the pump and the broadcast channel of the task, in one sequence) |

A call that subscribes makes its receiver first (`EnqueueSubscribe`,
`TakeSubscribe`, `GotReceiver`) and then is a request like any other
(`EnqueueSend`, `TakeSend`, `Written` or `WriteFails`, `Answered`, `Failed`,
`Closed`, `TimesOut`). `Abandon` is a caller that drops its future, `StartClose`,
`EnqueueClose` and `DropHandle` end the use of the handle. The loop also reads
(`ReadAnswer`, `ReadEvent`, `ReadEnd`) and ends through `Break` and `Finish`,
between which a command can still be queued (`NoMoreHandles`, `CloseSent` and the
failures lead there). Receivers take events, lag and are dropped (`RecvEvent`,
`RecvLagged`, `DropReceiver`). At the other end `Emit`, `EmitOverwrites`,
`DaemonReads`, `DaemonTakesEvent`, `DaemonWrites`, `DaemonEnds`; `CutLink` cuts
the socket and may lose what it holds. `backlog` does not say where in it the
channel of the connection (`PipeCap`) ends and the broadcast channel (`CastCap`)
begins: the pump may be anywhere it can be. So an event fits as long as all of
`CastCap + 1 + PipeCap` do, the oldest in the broadcast channel may be overwritten
as soon as that channel can be full, which the pump meets as a lagged receiver
and passes over (`server.rs:382-384`), and a second subscription keeps what the
pump had passed on (`Piped`). `skipped` is what the daemon dropped in one of these
two ways. What a payload says is left out: an answer is that of a
call.

`RequestReply` has three variables (what was asked, how often it ran, what the
caller was told) and says which answers are honest. `DaemonClient!Promise`
instantiates it: `runs` is `ran`, the outcome is a function of `result` (closed
and given up before sending are *refused*; a time-out or an error is *unknown*).

### 2.5 DaemonBridge

The module extends `DaemonClient`: a call of `daemon_subscribe` *is* the SDK call
it makes, so that `BSubscribe` conjoins `Start`, `PumpPushes` conjoins
`RecvEvent`, `PumpEnds` and the abort in `DisconnectCleans` conjoin
`DropReceiver`, and `Disconnect` and `DisconnectClosed` are `StartClose` and
`EnqueueClose`. `keyed` is the entry of the task in `SUBSCRIBED`, `pump` the pump
tasks, `queue` the event queue of the handle, `drained` what the app took,
`disc` the steps of `daemon_disconnect`. `BSubscribeAgain` is a call that finds
the entry. `overlap` is a ghost.

### 2.6 SshSessions

| Variables | Code |
|---|---|
| `pc`, `chain`, `pos`, `held`, `under` | a call of `ssh_connect` or `ssh_test`: its hops, the one it is at, `proxy_chain_ids`, the connections its tunnel runs through |
| `pool`, `writer`, `readers` | `proxy_sessions` and its read-write lock, where it is held over a wait |
| `base` | the connections a pooled connection runs through |
| `sessions`, `asking`, `relay` | `sessions`, `pending_host_key_decisions`, the exit relay of a session |

`Reuse`, `OpenDirect` (under the write lock until `DirectDone` or `DirectFails`),
`Miss`, `Lookup`, `ViaDone` and `Insert` (the lock is given up between looking
and inserting), `OpenChannel`, `ChannelOpened` and `RetryTls` (proxies behind a
bastion), `ReachProxy`, `ReachTarget`, `ReadFails`, `HopFails`; then `TargetDone`,
`KeyTrusted`, `KeyChanged`, `HostKeyRespond`, `HostKeyTimeout`, `Store`,
`StartRelay`, `AttachRelay`, `ExitFails`, `Disconnect` for a session, `TestDone`
and `TestFails` for a test, and `Release` for both. A connection is named by the
call that made it and its bastion, so that two connections to one bastion are
told apart. `raced` and `dead` are ghosts.

### 2.7 ModelDownload

| Variables | Code |
|---|---|
| `pc`, `attempt`, `start`, `next`, `handle` | a call of `local_ai_download_model` in `download_with_progress`: first address or mirror, `start_byte`, what the response delivers next, the open file |
| `cancel`, `active` | the cancel receiver of a call, `active_downloads` |
| `tmp`, `dest`, `content`, `late` | the two paths, the files, writes of dropped handles on their way |

`Call`, `Probe`, `Complete` (only if HEAD told the size), `GetRange` or `GetWhole`
(a server without ranges), `Piece`, `StreamEnds`, `Verify`, `Move` or `Remove`;
`RequestFails`, `Cancelled`, `Lands`, `Retry` (the mirror), `Finish`;
`CancelDownload`, `DeleteModel`, `Crash`. Files have names apart from paths, as a
handle stays with the file it opened; a file that nobody refers to is forgotten,
which keeps the model finite.

Two constants of a behaviour are chosen in `Init`: `known`, whether the catalogue
has the hash or a placeholder, and `told`, whether HEAD tells the size. With a
placeholder a finished download is moved as it is (`AfterStream`,
`downloader.rs:237-239`), while a complete partial file is compared with it all the
same (`downloader.rs:116-117`) and always removed (`Verify`). A hash that is known
is compared by comparing pieces. Untold, a complete partial file is asked for from
its end on, which a server refuses (`RequestFails`). Three odd answers are counted
by ghosts: `mixed` (a range answered with the whole model, `GetWhole`), `short` (an
answer without a length that ended early, `StreamEndsEarly`: `downloaded` is
compared with nothing) and `pages` (HEAD answered with the length of an error page,
whose status is not looked at, `HeadMisleads`). Apart from these a server answers
with the pieces of the model.

## 3. Runs

States are distinct states; times are of a run with two workers.

| Run | Instance | Size | Shows |
|---|---|---|---|
| `supervisor` | 1 MCP task, 2 cancels (int or kill) that contend for the mutex, 2 chunks, 1 restart or 1 failing write | 104 467, 2 min | the properties of 3.1, `TaskLife` among them |
| `events` | 1 client, every queue of capacity 1, pages of 1, cursors 0 and 1, 2 events per run of the daemon, 1 replay, 1 restart, 1 failing insert or query or 1 run of the retention job | 423 778, 2.5 min | the properties of 3.2 |
| `handoff_safety` | 3 connections, 2 devices, 1 task, channels of 1, 3 takeovers, 2 registrations or messages, 1 restart | 318 348 (up to symmetry), 30 s | the properties of 3.3, `OwnershipRegister` among them |
| `client_calls` | 2 subscribers, every queue and both channels of the daemon of capacity 1, 2 events | 398 357, 2 min | the properties of 3.4, `RequestReply` among them |
| `bridge_safety` | the same with two calls of `daemon_subscribe` | 658 391, 30 s | the properties of 3.5 |
| `ssh_pool` | 1 session, 2 tests, 2 bastions; chains of two bastions, of a bastion and a proxy behind it, of a proxy and a bastion behind it | 369 114, 2 min | the properties of 3.6 |
| `download_resume` | 2 callers, 2 pieces, hash known or not, size told or not, 1 late write; 1 crash with 1 mixed or short answer, or 1 of cancel, deletion, error page | 393 406, 2.5 min | the properties of 3.7 |
| `supervisor_waiter_clears_active`, `events_restart`, `bridge_pump_runs`, `ssh_tunnel_stands`, `download_cancel_stops` | the smallest instance that shows it | | a sentence of the repository the code does not keep (section 5) |

*Why the bounds are enough.* The theorems of section 4 hold for any values; the
bounds matter for what is only model-checked, and for showing that the cases
happen at all.

* Two tasks of the supervisor share only the mutex of `active` and the database;
  a second task does nothing to the first that a cancel or a failing write does
  not do. Two chunks are the answer to the MCP handshake and one read of the pump
  that follows it; a third repeats that read. The second cancel of the task is what
  makes one request wait for the mutex while another holds it over its write
  (`supervisor.rs:192`); a third would wait in the same line. `FewAccidents` in
  `MC_TaskSupervisor` bounds what meets in one behaviour: two reads of output; or
  one, with a restart or a failing write; or none, with the second cancel or a
  cancel of an unknown task. It cuts off no step that fairness makes happen: only
  requests, reads of output, restarts and failures are counted.
* In `EventStream` a ring of one forces a replay into the table with two events, a
  receiver of one lags with the second, a page of one is full with the first,
  and one restart gives a reused number and rows that may not decode. A failing
  statement and the retention job occur in separate behaviours (`FewAccidents`).
* In `Handoff` three connections let one device be connected twice while the other
  takes the task, and three takeovers let a task be lost and won back.
  Registrations and messages share a bound: what a message does to the properties
  is to fill a channel, which it does with one device registered.
* A subscribe call of `DaemonClient` contains a request, so two of them cover what
  requests do to each other; with a socket of one frame each way both loops can be
  writing at once, a queue of one makes the second call wait for room, and a
  receiver of one lags at the second event, at either end.
* In `SshSessions` two tests and a session let two of them miss a bastion together
  while the third uses it; bastions and proxies occur first and behind each other.
  A local command starts a tunnel anew, like a first hop; no instance has one, the
  theorems cover it.
* Two pieces of a model have a beginning that is neither empty nor whole; two
  callers can work on the file together. A crash meets an odd answer in one
  behaviour; a cancel, a deletion and an error page occur by themselves
  (`FewAccidents`), because each only ends an attempt or a file that the other
  accidents end as well.

`download_resume` has the constraint `Undisturbed`: in a state where two calls, or
a call and a write of an earlier one, were at the partial file, the properties
claim nothing any more and the state is not explored further; the states
themselves are checked. Symmetry is used in `handoff_safety` only, a run without
liveness, for sets no action tells apart. Deadlock is checked in the runs of
`ModelDownload`, where somebody can always call again; elsewhere the bounds on
requests, events, calls and restarts let an instance come to a legitimate rest.

### 3.1 TaskSupervisor

* `RunningIsWatched`: a row that says running has a request about to spawn its
  child or a waiter that will end it, unless the spawn was refused, the daemon
  restarted or a write failed.
* `EntryOutlivesChild`: a registered task leaves `active` only after its end
  was stored and published.
* `MutexHeldByWriter`: the mutex is held over an await only by a request that
  is writing Ctrl-C.
* `StoredBeforePublished`: no client hears of an end before the table has it.
* `EndHasCause`: succeeded and failed come from the exit of the child,
  cancelled from a cancel request.
* `ExitReported`, `KillEnds`, `CancelAnswered`, `TailSaved`: every exit is
  stored and published, a sigkill answered with success ends its task, every
  cancel is answered (two of them contend for the mutex, one writing its Ctrl-C
  while the other waits), and the tail of the output is saved.
* `KeepsLife`: the module implements `TaskLife`. The run of a task ends once and its
  end is stored once, over whatever the row says; a cancel request stores at most
  once; nothing else ends a task, nothing makes an ended one run again, no end is
  announced before it was stored (or its write was lost), and a restart leaves the
  table as it is.

*Fairness*: weak fairness of every thread and future that can run, of
task.assign once its request is in hand, of a cancel once sent, and of the exit
of a child that sigkill reached. The tokio runtime and the operating system
schedule what is ready, tokio mutexes are FIFO, and no process survives
SIGKILL. Nothing is assumed of requests arriving, of a child that was not
killed, of a handshake while the child is alive (it has no time-out, although
`mcp/client.rs:69-71` mentions one), or of errors.

### 3.2 EventStream

* `LoggedBeforeFanOut`: what was fanned out was stored, as the event itself and
  not only under its number, however broadcasts overlap and across a restart. Two
  things keep it out of the table and are named: its insert failed (`unlogged`), or
  a row of an earlier run has its number and `INSERT OR IGNORE` drops it (`Reused`).
  That the second happens is what `events_restart` shows.
* `ColdReplayHeals`: a replay that read the table leaves the client with
  every event it missed when it asked, up to the end of a full page, delivered
  or queued for it, also on a table with rows that do not decode. Named as
  exceptions are events its receivers skipped meanwhile (`lagged`) and events
  without a row: pruned, `unlogged` or `Reused`. A replay whose query failed is
  answered as one that found nothing (`event_log.rs:123-127`) and heals nothing;
  the client cannot tell the two apart.
* `ReplayAnswered`: a replay is answered although the connection that asked reads
  none of its channels meanwhile (`send` of a broadcast channel never waits).
* `EventArrives`: an event in a channel of a connection reaches the client unless
  the receiver skipped that very event, or the client subscribed again,
  unsubscribed or lost the connection: a receiver that lagged goes on with what it
  still holds.

*Fairness*: weak fairness of broadcasts, pumps, connection loops and of the
steps of a replay. The client is assumed to read its socket. None of request
arrival, of numbering, of retention or of restarts.

### 3.3 Handoff

* `KeepsRegister`: the module implements `OwnershipRegister`. A request that names
  the owner it expects takes the task from just that owner, one that names nobody
  only if the task is free or its own; nothing else moves or frees a task, neither
  a disconnect nor a restart; no notice is of a takeover that did not happen.
* `NoDoubleWin`: of two takeovers that expect the same owner, both win only if
  that owner won the task back in between.
* `NoticeFollowsLoss`: whoever is told of a takeover did lose the task to the
  device named. (It may have won it back since: the notice is sent after the
  transaction.)
* `SinkOutlives`, `WatchersOutlive`: the maps keep a connection that is over
  only if it broke off without its clean-up, or had registered another device.

### 3.4 DaemonClient

* `KeepsPromise`: the module implements `RequestReply`. A request runs at most
  once; who is told "answered" has the answer of its own run; who is told
  "closed" has not been served and never will be, so that asking again is safe.
* `WaiterIsServed`: a caller that waits on its oneshot has its command in the queue
  or its entry in the map, and then its request or answer is in the hand of the
  loop or in a frame on the way, or the socket is cut; the connection task has not
  returned; and it or the daemon's loop can move, unless both write to a full
  socket (`Stuck`). It is what `CallReturns` needs of every state, the command
  queued after the drain included.
* `NoEventLost`: an event of the task since the daemon served a subscription was
  taken, is in the receiver, is on its way, or was lost in one of three named ways:
  the receiver of the SDK was full (`missed`, 256 events), the receiver of the
  daemon's own pump had lagged (`skipped`, 1024 events, `server.rs:382-384`), or a
  second subscription replaced the first at the daemon (`skipped` as well).
* `CallReturns`: every call returns, and needs no time-out for it, unless both
  ends write to a full socket (`Stuck`).

*Fairness*: weak fairness of the steps of a call, of the receivers, of a close
that was started, of both loops. Nothing is assumed of time-outs, of events or
of the socket being cut.

### 3.5 DaemonBridge

* `PumpsOverlapped`: until the handle is disconnected, a task has a second pump
  only if two calls looked for its entry before either had made it.
* `ShownInOrder`: with one pump, the app is shown the events in order, none twice,
  across drains and a disconnect.
* `NothingMissed`: while a pump runs, every event since its subscription was
  shown, is queued or on its way, but for the losses of `NoEventLost`, the lag of
  the daemon's receiver among them.

Safety only; the liveness that matters below it is `CallReturns`.

### 3.6 SshSessions

* `CountIsExact`: the count of a bastion is the number of calls that counted
  themselves at it, those that failed later included, never more, and less only
  after two connections raced for the entry.
* `CountedTunnelStands`: no bastion is disconnected under a session that is counted
  at it, unless there was such a race.
* `DisconnectEnds`: a disconnect gives its bastions back, unless some call holds the
  lock of the pool over an authentication or the opening of a channel, which no
  time-out bounds.

*Fairness*: weak fairness of the steps that a time-out bounds or that wait for
nothing. None of authentications, of users who are asked about a host key, or of
disconnects being asked for.

### 3.7 ModelDownload

* `PlacedIsWhole`: a model in place is whole, through failures, crashes,
  resumption and the mirror. With a known hash it is so whatever the servers
  answer. With a placeholder, as every shipped model has, nothing is compared: it
  is so only if no server answered a range with the whole model (`mixed`) and none
  ended an answer without a length early (`short`); with either, the code puts a
  file in place that is not the model.
* `PartialIsPrefix`: while no server answered a range with the whole model, the
  partial file, with the write that may still be on its way, is a beginning of the
  model.
* `RetriesPlaceModel`: a user who calls again after every failure gets a file in
  place, however often requests fail or break off, unless a server mixed its
  answer, or the partial file is complete, HEAD does not tell its size and every
  request for the rest is refused (`Refused`): then no call ever gets further. A
  complete partial file that is removed because its hash is a placeholder only
  costs another download, although `local_ai_state.rs:64-65` says that the
  downloader "recognises the `placeholder_` prefix and skips verification".

All three except a disturbed file: two calls at work on it, or a length that was
read before a late write landed.

*Fairness*: weak fairness of the user's next call, of the local steps of a call and
of writes reaching the file; strong fairness of a request being answered (or found
unnecessary) and of each piece, or the end of the stream, arriving, because any of
them may fail in between and must succeed again and again for a download to end.
Nothing is assumed of odd answers, failures or crashes. A request past the end of
the model is refused always, so that strong fairness does not apply to it.

Every property of a passing run has a mutant in its module, marked "Mutant" in
the comment: a plausible slip of the code under which TLC finds the property
violated. Mutants are no part of any next-state relation.

## 4. Proofs

Every invariant of a passing run is proved for all values of the constants: any
sets of tasks, clients, devices, connections, calls, bastions and files, any
capacities and bounds, any chains. So are the three refinements (`RequestReply`,
`TaskLife`, `OwnershipRegister`). The assumptions are those named in the modules: the placeholder
names are none of the real ones (`TasksAssumption`, `NamesAssumption`,
`ThreadAssumption`, and parts of `ClientAssumption`, `SessionsAssumption` and
`DownloadAssumption`), capacities are positive and bounds natural numbers
(`CapsAssumption`, `BoundsAssumption`), and sets that are counted are finite
(`Devices` in `Handoff`, the calls in `SshSessions`). Chains name a bastion at
most once, as `SessionsAssumption` says.

Each proof module defines an inductive invariant, shows that the initial states
satisfy it and that every step keeps it, with one lemma per conjunct and one
step per action, and concludes by PTL.

* `TaskSupervisorProofs`: the invariants of 3.1 are not inductive by
  themselves. They need what each program counter implies: an unassigned task
  has no row (`NewIsAbsent`), a child runs only after the spawn
  (`SpawnStartsChild`), what the waiter has done at each of its points
  (`WaiterProgress`: reaped means exited, stored means terminal in the table,
  published means on the bus), and that a request is for a task with a row and
  keeps it terminal once flipped (`RequestProgress`). Theorems: `Invariance`,
  `TypeCorrect`, `RunningWatched`, `EntryOutlives`, `MutexHeld`, `StoredFirst`,
  `CauseOfEnd`.

  The refinement of `TaskLife` needs in addition that a restart leaves nothing of a
  task's run (`LostIsGone`), from which the abstract run is known at each program
  counter (`RunFacts`); then each action is matched with the abstract step it makes
  or with a stutter. `EndsAreReplaced` says how a stored end can change: the exit of
  the child is stored over a cancel recorded in between, or a cancel that found no
  entry stores over whatever is there, and nothing else. Theorems:
  `ImplementsTaskLife`, `EndsAreReplaced`.
* `EventStreamProofs`: one invariant, `GapInv`. In one run of the daemon a number
  names one event (`NumberedOnce`), and what an earlier run numbered is known from
  the table only (`OldKept`), so that a row in the way of an insert is the event
  itself or one of an earlier run. An event past its insert therefore is stored, was
  pruned, had a failing insert or has a reused number (`RowKept`, which contains
  `LoggedBeforeFanOut`). What a client misses stays fanned out and subscribed
  (`WantFanned`); and from the query on, each such event within the page has reached
  the client, is in one of its channels, is left to be sent, is being broadcast for
  it, was skipped, or has no row (`Covered`). The query is where `Covered` starts: a
  page contains every row after the cursor up to its own end, and of the rows it
  leaves out as undecodable none is of this run. `CursorPastEnd` is about the
  boundary of the width: with the cursor 2^Width - 1 the sum in `event_log.rs:100`
  is 0 and the parameter of the query -1, so that the ring never covers it and the
  table is read from its beginning. It needs that numbers start at 1 (part of
  `TypeOK`) and that a power of two exceeds its half, shown by counting subsets.
  Theorems: `Invariance`, `LoggedFirst`, `TypeCorrect`, `ColdReplayCloses`,
  `CursorPastEnd`.
* `HandoffProofs`: a pending notice is backed by a win (the request remembers the
  owner the transaction replaced), messages are only appended, histories only grow,
  so a notice stays true; `NoDoubleWin` follows from the chain, as the expected
  owner of the later win is the winner before it. The clean-up properties need that
  a connection's device is among those it registered. `MessagesReachAddressee` joins
  the two: a send that looked at the map and then waited for the database holds a
  connection that registered the addressee (`RouteHeld`), because connections never
  forget a device, so that the message cannot end up with anybody else. The
  refinement of the register splits a step by what it does to the tables
  (`TablesChange`): an assignment, a takeover of a task with a row, or nothing, in
  which case every notice is an old one or that of a request whose takeover is on
  record. Theorems: `Invariance`, `TypeCorrect`, `OwnershipPassesOn` (each winner
  took the task from the winner before it), `OneWinner`, `NoticesAreTrue`,
  `SinksAreLive`, `WatchersAreLive`, `MessagesReachAddressee`, `ImplementsRegister`.
* `DaemonClientProofs`: the promise rests on a request being in one place at a time:
  in the queue, in the hand of the loop, on the wire, or served (`OneCopy`); on what
  each state of a call says about that (`CallKnows`); on answers in flight being of
  requests that ran (`AnswersAreRun`); and on each open oneshot being held by the
  queue or the map (`WaiterIsHeld`), with the map empty from the drain on
  (`LoopShape`). `NoEventLost` needs `EventInv`, that each event of a subscription
  is somewhere between daemon and receiver or was dropped at one of the three places
  that drop; the proof is for every `CastCap`, `PipeCap` and `RecvCap`, and wherever
  the pump is between the two channels. The refinement is proved step by step: each
  action is a step of `RequestReply` or leaves its three variables alone.
  `WaitersServed` needs `ServedInv`: the request of a pending call is carried by the
  loop's hand, a frame to or from the daemon or a cut socket, and the daemon's loop
  is gone only with the socket; that somebody can move follows from where the frame
  is. `OrderInv` keeps events in the order of the daemon through the places they
  pass (backlog, frame at hand, socket, receiver, taken): each place is ascending
  and wholly before the places behind it, whatever is lost in between. Theorems:
  `Invariance`, `TypeCorrect`, `WaitersServed`, `ImplementsRequestReply`,
  `NothingLost`, `OrderInvariance`, `YieldsInOrder`.
* `DaemonBridgeProofs`: every step of the bridge is a step or a stutter of the
  client (`BridgeUsesClient`), so that the client's invariants hold in the
  composition and are used there. On top come what a pump holds and has shown
  (`PumpShows`) and that entry and pumps agree (`KeyGuards`). `ShownInOrder` follows
  from `OrderInv` of the client and `ShownOrder`: one pump shows a part of what its
  receiver yielded, in that order. With `NothingMissed` it gives `GapsAreCounted`:
  an event missing before one that was shown was lost by a full receiver of the SDK,
  a lagged one of the daemon, or a new subscription. Theorems: `BridgeInvariance`,
  `BridgeUsesClient`, `BridgeTypeCorrect`, `SecondPumpOverlapped`,
  `BridgeMissesNothing`, `ShownInTheirOrder`, `GapsAreCounted`.
* `SshSessionsProofs`: a call is counted only at bastions it has passed
  (`HeldIsPassed`), so that counting at the next one adds one to the set whose size
  the count is; an entry is for its own bastion and goes with its last reference
  (`PoolShape`); a tunnel stands from the answer of the target on (`TargetStands`),
  because a counted entry has a count of at least one. Theorems: `Invariance`,
  `TypeCorrect`, `CountsAreExact`, `CountedTunnelsStand`.

  `LockInv` ties the lock of the pool to the program counters of its holders and
  `SessionInv` the map of sessions and the exit relays to the calls
  (`LocksAndSessions`). From the first follows `DisconnectWaits`, the part of
  `DisconnectEnds` that is about states: a call that cannot give its bastions back
  waits for another call that is connecting, never for a leaked lock or itself.
* `ModelDownloadProofs`: unless disturbed, one call is at work on the file, its
  handle is the file at the path, no write is late while one works, and what is
  moved or in place is whole if the hash is known or no answer was mixed or short
  (`DiskInv`, `Vouched`). For a known hash that comes from the comparison, for a
  placeholder from where the stream ended (`ResumeInv`). Then where a call goes on
  is where the file ends (`ResumeInv`); a name that is used again is of an empty
  file (`Clean`). Theorems: `Invariance`, `TypeCorrect`, `PlacedWhole`,
  `PartialResumable`. `CancelInv` says what each cancel receiver can still tell and
  whose sender the map has; `FirstAttemptCancellable` follows: a call at its first
  address can be cancelled or already is, so that the attempt at the mirror is the
  only one a cancel does not reach (section 5).

Only model-checked: all liveness (`ExitReported`, `KillEnds`, `CancelAnswered`,
`TailSaved`, `ReplayAnswered`, `EventArrives`, `CallReturns`, `DisconnectEnds`,
`RetriesPlaceModel`), because fairness and ENABLED are outside the prover's reach.
What these properties need of every state is proved where it can be said without
them: `WaitersServed` for `CallReturns`, `DisconnectWaits` for `DisconnectEnds`.
Theorems without a run of their own (`EndsAreReplaced`, `MessagesReachAddressee`,
`OwnershipPassesOn`, `CursorPastEnd`, `OrderInvariance`, `YieldsInOrder`,
`GapsAreCounted`, `LocksAndSessions`, `DisconnectWaits`, `FirstAttemptCancellable`)
were model-checked on the instances of section 3 before they were proved.

## 5. Where the code departs from what the repository says

| Run | The code | The text |
|---|---|---|
| `supervisor_waiter_clears_active` | the waiter may run before the entry is inserted; the entry then stays for ever | `supervisor.rs:40-41` |
| `events_restart` | numbers start over, `INSERT OR IGNORE` drops the new event | `event_bus.rs:75-77` |
| `bridge_pump_runs` | a receiver that lagged ends the pump for good, while the connection lives and the task stays registered | `crates/termex-flutter-bridge/src/api/daemon.rs:531-532` |
| `ssh_tunnel_stands` | who reuses a pooled bastion is not counted at the bastions below it, which a test then closes under the session | `src-tauri/src/state.rs:25`, `54` |
| `download_cancel_stops` | a cancellation is retried at the mirror, where nothing can cancel it | `src-tauri/src/commands/local_ai.rs:313` |

Four more have a configuration beside the models, to be run by hand with the `MC_`
module of the name's first part; TLC finds each of them violated:

| Configuration | The code | The text |
|---|---|---|
| `TaskSupervisor_RecordedCancelHolds.cfg` | a cancel before registration is recorded, the child runs on, its exit overwrites the row | `handler.rs:211-213` |
| `TaskSupervisor_StdoutTailPersisted.cfg` (temporal, under `FairSpec`) | `tail.drain` at a byte inside a character panics the reader thread; no tail is stored | `supervisor.rs:381-383` |
| `EventStream_hot.cfg` | the ring is in push order; its front is not its oldest number | `event_log.rs:92-94` |
| `Handoff_OnlineHasSink.cfg` | the clean-up of an old connection removes the sink of the device's new one | `handoff.rs:88`, `108-109` |

The passing properties name these cases as exceptions where they would meet
them (`TailSaved`, `LoggedBeforeFanOut`, `ColdReplayHeals`, `SinkOutlives`,
`CountedTunnelStands`).
Other exceptions that are written into a property are defects or limits of the
code with no text to contradict: the race for a pool entry (`raced`), a failed
chain that keeps its counts, a lock held over an authentication (`LockHeld`), two
loops that write to each other (`Stuck`), a lagged receiver of the daemon whose
events are gone with a debug message (`skipped`), a failing query that is answered
as success (`via` is `failed`), a disturbed partial file (`Disturbed`), answers that
are appended or cut and that no hash reveals for a placeholder (`mixed`, `short`), a
complete partial file that is for ever refused (`Refused`).

One more departs from a text and shows in no property, because the next call makes
up for it: `local_ai_state.rs:64-65` says that verification of a placeholder is
skipped, which `downloader.rs:237-239` does, but a complete partial file is verified
against the placeholder (`downloader.rs:116-117`) and removed.

## 6. Not modelled, and why

* TaskList, TaskGet, TaskDecide and Ping change no state; the cost recorder
  writes a table the daemon never reads; the token file is read once.
* The socket and TLS/SSH below it: a connection works, ends, or breaks off. The
  handshakes of proxies and SSH authentication are library calls that succeed or
  fail.
* Where the end of an answer without a length is noticed: HTTP libraries tell a cut
  connection from an end when the answer has a length or is chunked; `short` stands
  for the answers that have neither.
* Replays repeat old events to every subscriber of the task (`handler.rs:377`):
  `DaemonClient` has no replays, and nothing promises that a client sees an event
  once.
* A replay cursor of 2^64 - 1 (`event_log.rs:100`, `db.rs:301`): the model has
  the conversions and `CursorPastEnd` proves what they do with it; the runs do not
  send it.
* Answers of handoff.send (`queued` although nothing is queued) are not
  modelled as state.
* The shell channel of a session, the output it streams and its recording; the
  llama-server process; the copy of a local test file (`local://`).
* `session/pool.rs`: the pool of termex-core is constructed by the Flutter bridge for
  its statistics only (`session_pool_singleton.rs:3-5`). Nothing acquires or releases
  an entry, so there is no behaviour to check. The pool in use is that of the desktop
  backend (`SshSessions`).
* `backup/scheduler.rs`, `recording/recorder.rs`, reverse forwards and SFTP: one
  loop, one map or one transfer each; next in the plan.
* Everything else with status `not_modelled` in `PROJECT.json`: CRUD on SQLite,
  parsers, command-line and HTTP wrappers, migrations, generated bridge code
  (`frb_generated.rs` alone is nearly a third of the code), user interface. A module
  about them would restate assignments.

## 7. Plan

1. Done: the daemon in three modules, its runs and proofs.
2. Done: `DaemonClient` with the abstract `RequestReply` it implements,
   `DaemonBridge` composed with it, `SshSessions`, `ModelDownload`, their proofs;
   type correctness and the replay of `EventStream` proved.
3. `BackupScheduler`, `Recorder`: a loop that must stop (`scheduler.rs:381`), a map
   that is emptied before a write can fail (`recorder.rs:112`).
4. Done: `TaskLife` and `OwnershipRegister` with their refinements proved, the order
   of events (`ShownInOrder`), the safety cores of two liveness properties.
5. Another abstract specification: a log that can be replayed, implemented by
   `EventStream` within one run of the daemon.
6. Replays through `DaemonClient`, reverse forwards, SFTP transfers.
