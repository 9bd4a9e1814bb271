--------------------------- MODULE TaskSupervisor ---------------------------
(***************************************************************************)
(* The task supervisor of the daemon (termexd): task.assign and            *)
(* task.cancel requests, the child process each task runs on a PTY, the    *)
(* reader and waiter threads beside it, the map of active tasks and the    *)
(* tasks table.                                                            *)
(*                                                                         *)
(* Every request, thread and spawned future is a process of its own: its   *)
(* program counter is the state between two points where another one can   *)
(* run (a lock, an await, a blocking call, a hand-over to the runtime).    *)
(* Publishing an event is one step here and events carry no sequence       *)
(* number: EventStream opens the event bus up.                             *)
(***************************************************************************)
EXTENDS Integers, FiniteSets

CONSTANTS
    Tasks,          \* task ids: each is the fresh uuid of one task.assign
    NoTask,         \* an id the daemon never made, as a client may send one
    McpTasks,       \* the tasks whose CLI is sent an MCP handshake
    Cancels,        \* task.cancel requests, each sent at most once
    Signals,        \* the signals those requests ask for
    MaxChunks,      \* bound: reads' worth of output one child writes
    MaxRestarts,    \* bound: times the daemon process is restarted
    MaxDbErrors     \* bound: times a write to tasks.db fails

ASSUME TasksAssumption == NoTask \notin Tasks /\ McpTasks \subseteq Tasks
AllSignals == {"int", "term", "kill"}

ASSUME SignalsAssumption == Signals \subseteq AllSignals
ASSUME BoundsAssumption ==
    /\ MaxChunks \in Nat
    /\ MaxRestarts \in Nat
    /\ MaxDbErrors \in Nat

VARIABLES
    row,            \* tasks.status, "absent" before the insert
    tail,           \* tasks.output_tail, as the number of chunks it was made of
    assign,         \* where the task.assign of the task is
    child,          \* the subprocess
    waiter,         \* the waiter thread and the future it spawns
    reader,         \* the reader thread and the future it spawns
    wrote,          \* chunks the child has written to the PTY
    consumed,       \* chunks taken off the PTY by the daemon
    pumped,         \* chunks that went into the rolling tail
    writerTaken,    \* take_writer() succeeded on the task's master
    sigs,           \* signals that reached the child
    active,         \* keys of SupervisorInner.active
    lockedBy,       \* the request that holds active's mutex over an await
    req,            \* the task.cancel requests
    queued,         \* output chunks in futures that will broadcast them
    published,      \* what this run of the daemon has published
    restarts,
    dbErrors

requests == <<req, lockedBy>>
process  == <<child, sigs, wrote>>
reading  == <<reader, consumed, pumped, writerTaken, tail>>
events   == <<queued, published>>
bounds   == <<restarts, dbErrors>>
vars == <<row, assign, waiter, active, requests, process, reading, events, bounds>>

Terminal == {"succeeded", "failed", "cancelled"}
Exited   == {"exitedOk", "exitedBad"}
Free     == "free"

(* Mutant: the exit is stored as the kernel reports it.                    *)
RawStatus(t) == child[t]

(* The status the waiter gives a task from the exit of its child.          *)
FinalStatus(t) == IF child[t] = "exitedOk" THEN "succeeded" ELSE "failed"

-----------------------------------------------------------------------------
Init ==
    /\ row = [t \in Tasks |-> "absent"]
    /\ tail = [t \in Tasks |-> 0]
    /\ assign = [t \in Tasks |-> "new"]
    /\ child = [t \in Tasks |-> "none"]
    /\ waiter = [t \in Tasks |-> "none"]
    /\ reader = [t \in Tasks |-> "none"]
    /\ wrote = [t \in Tasks |-> 0]
    /\ consumed = [t \in Tasks |-> 0]
    /\ pumped = [t \in Tasks |-> 0]
    /\ writerTaken = [t \in Tasks |-> FALSE]
    /\ sigs = [t \in Tasks |-> {}]
    /\ active = {}
    /\ lockedBy = Free
    /\ req = [c \in Cancels |-> [pc |-> "unsent", task |-> NoTask, sig |-> "int"]]
    /\ queued = [t \in Tasks |-> {}]
    /\ published = {}
    /\ restarts = 0
    /\ dbErrors = 0

(* broadcast(); chunk tells the output events of a task apart.             *)
Publish(t, kind, chunk) ==
    published' = published \cup {[task |-> t, kind |-> kind, chunk |-> chunk]}

DbError == dbErrors < MaxDbErrors /\ dbErrors' = dbErrors + 1

-----------------------------------------------------------------------------
(* task.assign.                                                            *)

AssignInsert(t) ==
    /\ assign[t] = "new"
    /\ assign' = [assign EXCEPT ![t] = "inserted"]
    /\ row' = [row EXCEPT ![t] = "running"]
    /\ UNCHANGED <<waiter, active, requests, process, reading, events, bounds>>

AssignInsertFails(t) ==
    /\ assign[t] = "new"
    /\ DbError
    /\ assign' = [assign EXCEPT ![t] = "refused"]
    /\ UNCHANGED <<row, waiter, active, requests, process, reading, events, restarts>>

(* Mutant: the waiter thread is not started.                               *)
SpawnWithoutWaiter(t) ==
    /\ assign[t] = "inserted"
    /\ assign' = [assign EXCEPT ![t] = "spawned"]
    /\ child' = [child EXCEPT ![t] = "alive"]
    /\ reader' = [reader EXCEPT ![t] = "cloning"]
    /\ UNCHANGED <<row, waiter, active, requests, sigs, wrote, consumed, pumped,
                   writerTaken, tail, events, bounds>>

(* openpty and spawn_command succeed; both threads start BEFORE the entry  *)
(* is put in the active map.                                               *)
Spawn(t) ==
    /\ assign[t] = "inserted"
    /\ assign' = [assign EXCEPT ![t] = "spawned"]
    /\ child' = [child EXCEPT ![t] = "alive"]
    /\ reader' = [reader EXCEPT ![t] = "cloning"]
    /\ waiter' = [waiter EXCEPT ![t] = "waiting"]
    /\ UNCHANGED <<row, active, requests, sigs, wrote, consumed, pumped,
                   writerTaken, tail, events, bounds>>

(* The CLI is not installed, or no PTY is left: `?` answers the client     *)
(* with the error and leaves the row as it was inserted.                   *)
SpawnFails(t) ==
    /\ assign[t] = "inserted"
    /\ assign' = [assign EXCEPT ![t] = "refused"]
    /\ UNCHANGED <<row, waiter, active, requests, process, reading, events, bounds>>

(* Mutant: the status is set to running once the task is registered.       *)
RegisterSetsRunning(t) ==
    /\ assign[t] = "spawned"
    /\ lockedBy = Free
    /\ active' = active \cup {t}
    /\ assign' = [assign EXCEPT ![t] = "registered"]
    /\ row' = [row EXCEPT ![t] = "running"]
    /\ UNCHANGED <<waiter, requests, process, reading, events, bounds>>

Register(t) ==
    /\ assign[t] = "spawned"
    /\ lockedBy = Free
    /\ active' = active \cup {t}
    /\ assign' = [assign EXCEPT ![t] = "registered"]
    /\ UNCHANGED <<row, waiter, requests, process, reading, events, bounds>>

(* The broadcast of the initial status, then the answer to the client.     *)
AssignReplies(t) ==
    /\ assign[t] = "registered"
    /\ assign' = [assign EXCEPT ![t] = "replied"]
    /\ Publish(t, "running", 0)
    /\ UNCHANGED <<row, waiter, active, requests, process, reading, queued, bounds>>

-----------------------------------------------------------------------------
(* The child, as the daemon sees it.                                       *)

ChildWrites(t) ==
    /\ child[t] = "alive"
    /\ wrote[t] < MaxChunks
    /\ wrote' = [wrote EXCEPT ![t] = @ + 1]
    /\ UNCHANGED <<row, assign, waiter, active, requests, child, sigs, reading,
                   events, bounds>>

(* A child may ignore sigint and sigterm; one that sigkill reached does    *)
(* not exit with success.                                                  *)
ChildExits(t) ==
    /\ child[t] = "alive"
    /\ \E how \in Exited :
        /\ "kill" \in sigs[t] => how = "exitedBad"
        /\ child' = [child EXCEPT ![t] = how]
    /\ UNCHANGED <<row, assign, waiter, active, requests, sigs, wrote, reading,
                   events, bounds>>

-----------------------------------------------------------------------------
(* The reader thread: run_reader, then one of the two pumps.               *)

ReaderStarts(t) ==
    /\ reader[t] = "cloning"
    /\ LET mcp == t \in McpTasks /\ ~writerTaken[t] IN
        /\ reader' = [reader EXCEPT ![t] = IF mcp THEN "handshake" ELSE "stdoutPump"]
        /\ writerTaken' = [writerTaken EXCEPT ![t] = @ \/ mcp]
    /\ UNCHANGED <<row, assign, waiter, active, requests, process, consumed,
                   pumped, tail, events, bounds>>

(* try_clone_reader() fails, here or on the way back from MCP: the thread  *)
(* returns and nobody reads this PTY any more.                             *)
ReaderGivesUp(t) ==
    /\ \/ reader[t] = "cloning"
       \/ reader[t] = "handshake" /\ (consumed[t] > 0 \/ child[t] \in Exited)
    /\ reader' = [reader EXCEPT ![t] = "failed"]
    /\ UNCHANGED <<row, assign, waiter, active, requests, process, consumed,
                   pumped, writerTaken, tail, events, bounds>>

(* Lines that are not the answer to `initialize` are skipped.              *)
HandshakeSkips(t) ==
    /\ reader[t] = "handshake"
    /\ consumed[t] < wrote[t]
    /\ consumed' = [consumed EXCEPT ![t] = @ + 1]
    /\ UNCHANGED <<row, assign, waiter, active, requests, process, reader,
                   pumped, writerTaken, tail, events, bounds>>

HandshakeSucceeds(t) ==
    /\ reader[t] = "handshake"
    /\ consumed[t] < wrote[t]
    /\ consumed' = [consumed EXCEPT ![t] = @ + 1]
    /\ reader' = [reader EXCEPT ![t] = "mcpPump"]
    /\ UNCHANGED <<row, assign, waiter, active, requests, process, pumped,
                   writerTaken, tail, events, bounds>>

(* An error answer, too many frames before the answer, or end of file: the *)
(* McpClient is dropped, with what its BufReader had read ahead.           *)
HandshakeFails(t) ==
    /\ reader[t] = "handshake"
    /\ consumed[t] > 0 \/ child[t] \in Exited
    /\ \E n \in consumed[t]..wrote[t] : consumed' = [consumed EXCEPT ![t] = n]
    /\ reader' = [reader EXCEPT ![t] = "stdoutPump"]
    /\ UNCHANGED <<row, assign, waiter, active, requests, process, pumped,
                   writerTaken, tail, events, bounds>>

(* One read of either pump: the chunk goes into the tail, and a future is  *)
(* spawned to broadcast the event.                                         *)
PumpReads(t) ==
    /\ reader[t] \in {"stdoutPump", "mcpPump"}
    /\ consumed[t] < wrote[t]
    /\ consumed' = [consumed EXCEPT ![t] = @ + 1]
    /\ pumped' = [pumped EXCEPT ![t] = @ + 1]
    /\ queued' = [queued EXCEPT ![t] = @ \cup {consumed[t] + 1}]
    /\ UNCHANGED <<row, assign, waiter, active, requests, process, reader,
                   writerTaken, tail, published, bounds>>

(* Nobody awaits those futures: the runtime runs them in any order.        *)
PublishOutput(t) ==
    /\ \E n \in queued[t] :
        /\ queued' = [queued EXCEPT ![t] = @ \ {n}]
        /\ Publish(t, "output", n)
    /\ UNCHANGED <<row, assign, waiter, active, requests, process, reading, bounds>>

(* A notification that maps to no event (done, unknown): in the tail only. *)
McpPumpDropsEvent(t) ==
    /\ reader[t] = "mcpPump"
    /\ consumed[t] < wrote[t]
    /\ consumed' = [consumed EXCEPT ![t] = @ + 1]
    /\ pumped' = [pumped EXCEPT ![t] = @ + 1]
    /\ UNCHANGED <<row, assign, waiter, active, requests, process, reader,
                   writerTaken, tail, events, bounds>>

(* A line that is no notification (not JSON, a stray answer): skipped.     *)
McpPumpSkips(t) ==
    /\ reader[t] = "mcpPump"
    /\ consumed[t] < wrote[t]
    /\ consumed' = [consumed EXCEPT ![t] = @ + 1]
    /\ UNCHANGED <<row, assign, waiter, active, requests, process, reader,
                   pumped, writerTaken, tail, events, bounds>>

(* Mutant: the pump stops when the child is gone, drained or not.          *)
PumpEndsAtExit(t) ==
    /\ reader[t] \in {"stdoutPump", "mcpPump"}
    /\ child[t] \in Exited
    /\ reader' = [reader EXCEPT ![t] = "eof"]
    /\ UNCHANGED <<row, assign, waiter, active, requests, process, consumed,
                   pumped, writerTaken, tail, events, bounds>>

(* End of file (or EIO) once the child is gone and the PTY is drained.     *)
PumpEnds(t) ==
    /\ reader[t] \in {"stdoutPump", "mcpPump"}
    /\ child[t] \in Exited
    /\ consumed[t] = wrote[t]
    /\ reader' = [reader EXCEPT ![t] = "eof"]
    /\ UNCHANGED <<row, assign, waiter, active, requests, process, consumed,
                   pumped, writerTaken, tail, events, bounds>>

(* The rolling tail is cut at a byte count: `drain` panics when that byte  *)
(* is inside a character, and the thread is gone with the chunk it read.   *)
PumpPanics(t) ==
    /\ reader[t] \in {"stdoutPump", "mcpPump"}
    /\ consumed[t] < wrote[t]
    /\ consumed' = [consumed EXCEPT ![t] = @ + 1]
    /\ reader' = [reader EXCEPT ![t] = "panicked"]
    /\ UNCHANGED <<row, assign, waiter, active, requests, process, pumped,
                   writerTaken, tail, events, bounds>>

(* A line that is not UTF-8 is an error of read_line: the pump ends as at  *)
(* end of file, whatever the child still writes.                           *)
McpPumpBreaks(t) ==
    /\ reader[t] = "mcpPump"
    /\ consumed[t] < wrote[t]
    /\ consumed' = [consumed EXCEPT ![t] = @ + 1]
    /\ reader' = [reader EXCEPT ![t] = "broken"]
    /\ UNCHANGED <<row, assign, waiter, active, requests, process, pumped,
                   writerTaken, tail, events, bounds>>

ReaderSaveTail(t) ==
    /\ reader[t] \in {"eof", "broken"}
    /\ reader' = [reader EXCEPT ![t] = IF @ = "eof" THEN "saved" ELSE "savedPart"]
    /\ tail' = [tail EXCEPT ![t] = pumped[t]]
    /\ UNCHANGED <<row, assign, waiter, active, requests, process, consumed,
                   pumped, writerTaken, events, bounds>>

ReaderSaveTailFails(t) ==
    /\ reader[t] \in {"eof", "broken"}
    /\ DbError
    /\ reader' = [reader EXCEPT ![t] = "failed"]
    /\ UNCHANGED <<row, assign, waiter, active, requests, process, consumed,
                   pumped, writerTaken, tail, events, restarts>>

-----------------------------------------------------------------------------
(* The waiter thread and the future it spawns: status in the table, event  *)
(* on the bus, entry out of the map, in that order.                        *)

WaiterReaps(t) ==
    /\ waiter[t] = "waiting"
    /\ child[t] \in Exited
    /\ waiter' = [waiter EXCEPT ![t] = "reaped"]
    /\ UNCHANGED <<row, assign, active, requests, process, reading, events, bounds>>

WaiterStores(t) ==
    /\ waiter[t] = "reaped"
    /\ waiter' = [waiter EXCEPT ![t] = "stored"]
    /\ row' = [row EXCEPT ![t] = FinalStatus(t)]
    /\ UNCHANGED <<assign, active, requests, process, reading, events, bounds>>

(* A failed update_status is logged; the event is broadcast all the same.  *)
WaiterStoreFails(t) ==
    /\ waiter[t] = "reaped"
    /\ DbError
    /\ waiter' = [waiter EXCEPT ![t] = "stored"]
    /\ UNCHANGED <<row, assign, active, requests, process, reading, events, restarts>>

(* Mutant: the event goes out before the table is written.                 *)
WaiterPublishesFirst(t) ==
    /\ waiter[t] = "reaped"
    /\ waiter' = [waiter EXCEPT ![t] = "published"]
    /\ Publish(t, FinalStatus(t), 0)
    /\ UNCHANGED <<row, assign, active, requests, process, reading, queued, bounds>>

WaiterPublishes(t) ==
    /\ waiter[t] = "stored"
    /\ waiter' = [waiter EXCEPT ![t] = "published"]
    /\ Publish(t, FinalStatus(t), 0)
    /\ UNCHANGED <<row, assign, active, requests, process, reading, queued, bounds>>

(* Mutant: the entry is dropped as soon as the child is reaped.            *)
WaiterRemovesFirst(t) ==
    /\ waiter[t] = "reaped"
    /\ lockedBy = Free
    /\ active' = active \ {t}
    /\ UNCHANGED <<row, assign, waiter, requests, process, reading, events, bounds>>

WaiterRemoves(t) ==
    /\ waiter[t] = "published"
    /\ lockedBy = Free
    /\ waiter' = [waiter EXCEPT ![t] = "done"]
    /\ active' = active \ {t}
    /\ UNCHANGED <<row, assign, requests, process, reading, events, bounds>>

-----------------------------------------------------------------------------
(* task.cancel: TaskSupervisor::cancel, then the database fall-back.       *)

CancelSends(c, t, s) ==
    /\ req[c].pc = "unsent"
    /\ t \in Tasks => row[t] # "absent"       \* ids come from task.list
    /\ req' = [req EXCEPT ![c] = [pc |-> "sent", task |-> t, sig |-> s]]
    /\ UNCHANGED <<row, assign, waiter, active, lockedBy, process, reading,
                   events, bounds>>

(* Mutant: every hard cancel is sent as sigterm.                           *)
CancelTerms(c) ==
    LET t == req[c].task IN
    /\ req[c].pc = "sent"
    /\ lockedBy = Free
    /\ t \in active
    /\ req[c].sig \in {"term", "kill"}
    /\ sigs' = [sigs EXCEPT ![t] = IF child[t] = "alive" THEN @ \cup {"term"} ELSE @]
    /\ req' = [req EXCEPT ![c].pc = "signalled"]
    /\ UNCHANGED <<row, assign, waiter, active, lockedBy, child, wrote, reading,
                   events, bounds>>

(* Mutant: the row is set to cancelled when the signal is sent.            *)
CancelKillsAndFlips(c) ==
    LET t == req[c].task IN
    /\ req[c].pc = "sent"
    /\ lockedBy = Free
    /\ t \in active
    /\ req[c].sig \in {"term", "kill"}
    /\ row' = [row EXCEPT ![t] = "cancelled"]
    /\ req' = [req EXCEPT ![c].pc = "signalled"]
    /\ UNCHANGED <<assign, waiter, active, lockedBy, process, reading, events, bounds>>

(* sigterm and sigkill go to the pid; no process behind it is no error.    *)
CancelKills(c) ==
    LET t == req[c].task  s == req[c].sig IN
    /\ req[c].pc = "sent"
    /\ lockedBy = Free
    /\ t \in active
    /\ s \in {"term", "kill"}
    /\ sigs' = [sigs EXCEPT ![t] = IF child[t] = "alive" THEN @ \cup {s} ELSE @]
    /\ req' = [req EXCEPT ![c].pc = "signalled"]
    /\ UNCHANGED <<row, assign, waiter, active, lockedBy, child, wrote, reading,
                   events, bounds>>

(* The pid was reaped and now names another user's process.                *)
CancelKillRefused(c) ==
    LET t == req[c].task IN
    /\ req[c].pc = "sent"
    /\ lockedBy = Free
    /\ t \in active
    /\ req[c].sig \in {"term", "kill"}
    /\ waiter[t] \notin {"none", "waiting"}
    /\ req' = [req EXCEPT ![c].pc = "error"]
    /\ UNCHANGED <<row, assign, waiter, active, lockedBy, process, reading,
                   events, bounds>>

(* sigint: the write of Ctrl-C is awaited with the map locked.             *)
CancelLocks(c) ==
    /\ req[c].pc = "sent"
    /\ lockedBy = Free
    /\ req[c].task \in active
    /\ req[c].sig = "int"
    /\ lockedBy' = c
    /\ req' = [req EXCEPT ![c].pc = "writing"]
    /\ UNCHANGED <<row, assign, waiter, active, process, reading, events, bounds>>

(* Mutant: an early return when the writer is gone leaves the map locked.  *)
CancelWritesKeepsLock(c) ==
    LET t == req[c].task IN
    /\ req[c].pc = "writing"
    /\ sigs' = [sigs EXCEPT ![t] =
                  IF ~writerTaken[t] /\ child[t] = "alive" THEN @ \cup {"int"} ELSE @]
    /\ writerTaken' = [writerTaken EXCEPT ![t] = TRUE]
    /\ lockedBy' = IF writerTaken[t] THEN lockedBy ELSE Free
    /\ req' = [req EXCEPT ![c].pc = "signalled"]
    /\ UNCHANGED <<row, assign, waiter, active, child, wrote, reader, consumed,
                   pumped, tail, events, bounds>>

(* take_writer() works once per PTY; when it fails nothing is written and  *)
(* the answer is the same.                                                 *)
CancelWrites(c) ==
    LET t == req[c].task IN
    /\ req[c].pc = "writing"
    /\ sigs' = [sigs EXCEPT ![t] =
                  IF ~writerTaken[t] /\ child[t] = "alive" THEN @ \cup {"int"} ELSE @]
    /\ writerTaken' = [writerTaken EXCEPT ![t] = TRUE]
    /\ lockedBy' = Free
    /\ req' = [req EXCEPT ![c].pc = "signalled"]
    /\ UNCHANGED <<row, assign, waiter, active, child, wrote, reader, consumed,
                   pumped, tail, events, bounds>>

CancelMisses(c) ==
    /\ req[c].pc = "sent"
    /\ lockedBy = Free
    /\ req[c].task \notin active
    /\ req' = [req EXCEPT ![c].pc = "missed"]
    /\ UNCHANGED <<row, assign, waiter, active, lockedBy, process, reading,
                   events, bounds>>

(* The fall-back does not look at the status it overwrites.                *)
CancelFlips(c) ==
    /\ req[c].pc = "missed"
    /\ req[c].task \in Tasks
    /\ row' = [row EXCEPT ![req[c].task] = "cancelled"]
    /\ req' = [req EXCEPT ![c].pc = "flipped"]
    /\ UNCHANGED <<assign, waiter, active, lockedBy, process, reading, events, bounds>>

CancelUnknown(c) ==
    /\ req[c].pc = "missed"
    /\ req[c].task \notin Tasks
    /\ req' = [req EXCEPT ![c].pc = "error"]
    /\ UNCHANGED <<row, assign, waiter, active, lockedBy, process, reading,
                   events, bounds>>

(* Mutant: a flip that failed is logged, and the event goes out.           *)
CancelFlipFailsSilently(c) ==
    /\ req[c].pc = "missed"
    /\ req[c].task \in Tasks
    /\ DbError
    /\ req' = [req EXCEPT ![c].pc = "flipped"]
    /\ UNCHANGED <<row, assign, waiter, active, lockedBy, process, reading,
                   events, restarts>>

CancelFlipFails(c) ==
    /\ req[c].pc = "missed"
    /\ req[c].task \in Tasks
    /\ DbError
    /\ req' = [req EXCEPT ![c].pc = "error"]
    /\ UNCHANGED <<row, assign, waiter, active, lockedBy, process, reading,
                   events, restarts>>

CancelPublishes(c) ==
    /\ req[c].pc = "flipped"
    /\ req' = [req EXCEPT ![c].pc = "recorded"]
    /\ Publish(req[c].task, "cancelled", 0)
    /\ UNCHANGED <<row, assign, waiter, active, lockedBy, process, reading,
                   queued, bounds>>

-----------------------------------------------------------------------------
(* The daemon dies and is started again: the table stays, the rest is      *)
(* gone.  The children lose their terminal and die with it.                *)
Restart ==
    /\ restarts < MaxRestarts
    /\ restarts' = restarts + 1
    /\ assign' = [t \in Tasks |-> IF assign[t] = "new" THEN "new" ELSE "lost"]
    /\ child' = [t \in Tasks |-> "none"]
    /\ waiter' = [t \in Tasks |-> "none"]
    /\ reader' = [t \in Tasks |-> "none"]
    /\ wrote' = [t \in Tasks |-> 0]
    /\ consumed' = [t \in Tasks |-> 0]
    /\ pumped' = [t \in Tasks |-> 0]
    /\ writerTaken' = [t \in Tasks |-> FALSE]
    /\ sigs' = [t \in Tasks |-> {}]
    /\ active' = {}
    /\ lockedBy' = Free
    /\ req' = [c \in Cancels |-> IF req[c].pc = "unsent" THEN req[c]
                                 ELSE [req[c] EXCEPT !.pc = "lost"]]
    /\ queued' = [t \in Tasks |-> {}]
    /\ published' = {}
    /\ UNCHANGED <<row, tail, dbErrors>>

AssignStep(t) ==
    AssignInsert(t) \/ AssignInsertFails(t) \/ Spawn(t) \/ SpawnFails(t)
        \/ Register(t) \/ AssignReplies(t)
ChildStep(t) == ChildWrites(t) \/ ChildExits(t)
ReaderStep(t) ==
    ReaderStarts(t) \/ ReaderGivesUp(t) \/ HandshakeSkips(t) \/ HandshakeSucceeds(t)
        \/ HandshakeFails(t) \/ PumpReads(t) \/ McpPumpDropsEvent(t) \/ McpPumpSkips(t)
        \/ PumpPanics(t) \/ McpPumpBreaks(t) \/ PumpEnds(t)
        \/ ReaderSaveTail(t) \/ ReaderSaveTailFails(t)
WaiterStep(t) ==
    WaiterReaps(t) \/ WaiterStores(t) \/ WaiterStoreFails(t) \/ WaiterPublishes(t)
        \/ WaiterRemoves(t)
CancelStep(c) ==
    CancelKills(c) \/ CancelKillRefused(c) \/ CancelLocks(c) \/ CancelWrites(c)
        \/ CancelMisses(c) \/ CancelFlips(c) \/ CancelUnknown(c) \/ CancelFlipFails(c)
        \/ CancelPublishes(c)

Next ==
    \/ \E t \in Tasks :
        AssignStep(t) \/ ChildStep(t) \/ ReaderStep(t) \/ PublishOutput(t) \/ WaiterStep(t)
    \/ \E c \in Cancels, t \in Tasks \cup {NoTask}, s \in Signals : CancelSends(c, t, s)
    \/ \E c \in Cancels : CancelStep(c)
    \/ Restart

Spec == Init /\ [][Next]_vars

(* The runtime and the operating system run every thread and future that   *)
(* can run; active's mutex is FIFO.  Nothing forces a request to come, a   *)
(* child to exit unless it is killed, a handshake to end while the child   *)
(* lives, or an error to happen.                                           *)
Fairness ==
    /\ \A t \in Tasks :
        /\ WF_vars(assign[t] # "new" /\ AssignStep(t))
        /\ WF_vars("kill" \in sigs[t] /\ ChildExits(t))
        /\ WF_vars((reader[t] = "handshake" => child[t] \in Exited) /\ ReaderStep(t))
        /\ WF_vars(WaiterStep(t))
        /\ WF_vars(PublishOutput(t))
    /\ \A c \in Cancels : WF_vars(CancelStep(c))

FairSpec == Spec /\ Fairness

-----------------------------------------------------------------------------
(* Type invariant.                                                         *)
Kinds == {"running", "output"} \cup Terminal
AssignStates ==
    {"new", "inserted", "spawned", "registered", "replied", "refused", "lost"}
ChildStates == {"none", "alive"} \cup Exited
WaiterStates == {"none", "waiting", "reaped", "stored", "published", "done"}
ReaderStates == {"none", "cloning", "handshake", "stdoutPump", "mcpPump", "eof",
                 "broken", "saved", "savedPart", "panicked", "failed"}
CancelStates == {"unsent", "sent", "writing", "missed", "flipped", "signalled",
                 "recorded", "error", "lost"}
Event == [task : Tasks, kind : Kinds, chunk : Nat]

TypeOK ==
    /\ row \in [Tasks -> {"absent", "running"} \cup Terminal]
    /\ tail \in [Tasks -> Nat]
    /\ assign \in [Tasks -> AssignStates]
    /\ child \in [Tasks -> ChildStates]
    /\ waiter \in [Tasks -> WaiterStates]
    /\ reader \in [Tasks -> ReaderStates]
    /\ wrote \in [Tasks -> Nat]
    /\ consumed \in [Tasks -> Nat]
    /\ pumped \in [Tasks -> Nat]
    /\ writerTaken \in [Tasks -> BOOLEAN]
    /\ sigs \in [Tasks -> SUBSET AllSignals]
    /\ active \subseteq Tasks
    /\ lockedBy \in Cancels \cup {Free}
    /\ req \in [Cancels -> [pc : CancelStates, task : Tasks \cup {NoTask}, sig : AllSignals]]
    /\ queued \in [Tasks -> SUBSET Nat]
    /\ published \subseteq Event
    /\ restarts \in Nat
    /\ dbErrors \in Nat

(* A row that says "running" has somebody who will end it: the request     *)
(* that is about to spawn the child, or the waiter of a child not yet      *)
(* accounted for.  The exceptions are named: the spawn was refused, the    *)
(* daemon was restarted, a write of the table failed.  (An interleaving of *)
(* insert, spawn, exit and cancel that drops a task shows here.)           *)
RunningIsWatched ==
    \A t \in Tasks : row[t] = "running" =>
        \/ assign[t] \in {"inserted", "refused", "lost"}
        \/ waiter[t] \in {"waiting", "reaped"}
        \/ dbErrors > 0

(* A registered task leaves the active map only after its end was stored   *)
(* and published: a request that finds no entry never races the waiter of  *)
(* a task whose child still has to be reported.                            *)
EntryOutlivesChild ==
    \A t \in Tasks :
        assign[t] \in {"registered", "replied"} /\ t \notin active =>
            /\ waiter[t] = "done"
            /\ \E e \in published : e.task = t /\ e.kind = FinalStatus(t)

(* The map's mutex is only ever held over an await by a request that is    *)
(* still writing its Ctrl-C: task.assign, the waiter and the other cancels *)
(* that queue behind it get their turn.                                    *)
MutexHeldByWriter == lockedBy # Free => req[lockedBy].pc = "writing"

(* The table is written before the event goes out: a client that hears of  *)
(* an end and then asks task.get never reads "running".                    *)
StoredBeforePublished ==
    \A e \in published : e.kind \in Terminal /\ dbErrors = 0 => row[e.task] \in Terminal

(* Nothing but the exit of the child ends a task as succeeded or failed,   *)
(* and only a cancel request that was answered (or is still in hand) as    *)
(* cancelled: the row never shows an end nobody caused.                    *)
EndHasCause ==
    \A t \in Tasks :
        /\ row[t] \in {"succeeded", "failed"} /\ assign[t] # "lost" =>
              child[t] \in Exited /\ row[t] = FinalStatus(t)
        /\ row[t] = "cancelled" =>
              \E c \in Cancels : req[c].task = t /\
                  req[c].pc \in {"flipped", "recorded", "lost"}

(* Once the child is gone and the daemon keeps running, its end is in the  *)
(* table and on the bus and its waiter got through the map's mutex,        *)
(* whatever cancel requests do meanwhile.                                  *)
ExitReported ==
    \A t \in Tasks : child[t] \in Exited ~>
        \/ assign[t] = "lost"
        \/ /\ waiter[t] = "done"
           /\ \E e \in published : e.task = t /\ e.kind = FinalStatus(t)
           /\ row[t] \in Terminal \/ dbErrors > 0

(* A sigkill answered with success ends the task.                          *)
KillEnds ==
    \A c \in Cancels, t \in Tasks :
        req[c].pc = "signalled" /\ req[c].sig = "kill" /\ req[c].task = t ~>
            row[t] \in Terminal \/ assign[t] = "lost" \/ dbErrors > 0

(* Every cancel request is answered, although it may wait for the map's    *)
(* mutex behind another cancel, which holds it over its write of Ctrl-C,   *)
(* and the waiter and task.assign want the mutex as well.                  *)
CancelAnswered ==
    \A c \in Cancels : req[c].pc = "sent" ~>
        req[c].pc \in {"signalled", "recorded", "error", "lost"}

(* What the pumps took off the PTY ends up in output_tail, and a pump that *)
(* ended with the child took all the child wrote.  The exceptions are      *)
(* named: no reader could be cloned, the thread panicked, the MCP pump     *)
(* stopped at a line that is not UTF-8.                                    *)
TailSaved ==
    \A t \in Tasks : child[t] \in Exited ~>
        \/ reader[t] \in {"failed", "panicked"} \/ assign[t] = "lost"
        \/ tail[t] = pumped[t] /\ reader[t] = "savedPart"
        \/ tail[t] = pumped[t] /\ reader[t] = "saved" /\ consumed[t] = wrote[t]

-----------------------------------------------------------------------------
(* The tasks as the abstract specification sees them.                      *)
RunOf(t) ==
    IF waiter[t] \in {"stored", "published", "done"} THEN FinalStatus(t)
    ELSE IF assign[t] = "new" THEN "none"
    ELSE IF assign[t] = "inserted" THEN "accepted"
    ELSE IF assign[t] \in {"refused", "lost"} THEN "gone" ELSE "open"

StopOf(at) ==
    IF at = "unsent" THEN "unsent"
    ELSE IF at \in {"sent", "writing", "missed"} THEN "asked"
    ELSE IF at = "flipped" THEN "stored" ELSE "closed"

Life == INSTANCE TaskLife WITH
    run <- [t \in Tasks |-> RunOf(t)],
    stop <- [c \in Cancels |-> StopOf(req[c].pc)],
    target <- [c \in Cancels |-> req[c].task],
    told <- {<<e.task, e.kind>> : e \in {x \in published : x.kind \in Terminal}},
    unsure <- dbErrors > 0

(* However requests, threads and futures interleave, and across restarts,  *)
(* the status of a task moves as a client may count on: its run ends and   *)
(* is stored once, a cancel request stores once, an ended task never runs  *)
(* again, and no end is announced that was not stored or lost.             *)
KeepsLife == Life!Spec

-----------------------------------------------------------------------------
(* What the repository says and the code does not do.                      *)

(* "Held by the [TaskSupervisor] until the child exits (the waiter removes *)
(* the entry)".                                                            *)
WaiterClearsActive == \A t \in Tasks : waiter[t] = "done" => t \notin active

(* "fall back to a DB-only status flip so the user's intent is recorded".  *)
RecordedCancelHolds ==
    \A c \in Cancels : req[c].pc = "recorded" => row[req[c].task] = "cancelled"

(* "persists a rolling tail to the DB on EOF": the stdout pump does so     *)
(* once the child is gone (no restart and no failing write among them).    *)
StdoutTailPersisted ==
    \A t \in Tasks : reader[t] = "stdoutPump" /\ child[t] \in Exited ~>
        reader[t] \in {"saved", "failed"} \/ assign[t] = "lost"

=============================================================================
