---------------------------- MODULE DaemonClient ----------------------------
(***************************************************************************)
(* The client SDK of the daemon, and the daemon's connection loop as the   *)
(* SDK meets it.                                                           *)
(*                                                                         *)
(* Callers put commands into a bounded queue and wait for a oneshot.  One  *)
(* task owns the socket: it takes a command or a frame at a time and, like *)
(* the daemon's loop at the other end, reads nothing while it writes.      *)
(* Requests and subscriptions are identified with the call that makes      *)
(* them; there is one task to subscribe to.                                *)
(***************************************************************************)
EXTENDS Integers, Sequences, SequencesExt

CONSTANTS
    Requests,       \* calls of task_assign, task_list, ..., stream_replay
    Subscribers,    \* calls of subscribe
    NoCall,
    QueueCap,       \* COMMAND_QUEUE_CAPACITY (128)
    WireCap,        \* frames one direction of the socket buffers
    RecvCap,        \* SUBSCRIBE_CHANNEL_CAPACITY (256)
    CastCap,        \* PER_TASK_CHANNEL_CAPACITY of the daemon (1024)
    PipeCap,        \* SUBSCRIPTION_CHANNEL_CAP of the daemon (256)
    MaxEvents       \* bound: events of the task

Calls == Requests \cup Subscribers

ASSUME ClientAssumption ==
    /\ Requests \cap Subscribers = {} /\ NoCall \notin Requests \cup Subscribers
    /\ QueueCap \in Nat \ {0} /\ WireCap \in Nat \ {0} /\ RecvCap \in Nat \ {0}
    /\ CastCap \in Nat \ {0} /\ PipeCap \in Nat \ {0} /\ MaxEvents \in Nat

VARIABLES
    pc,         \* where a call is
    slot,       \* the oneshot it waits on
    result,     \* what it returned
    handle,     \* the DaemonClient value itself: held, closing, dropped
    cmds,       \* the command queue
    loop,       \* the connection task: select, writing, closing, draining, over
    inHand,     \* the call whose frame it is writing
    pending,    \* calls in its map of pending requests
    casting,    \* it has a local broadcaster for the task
    recv,       \* calls whose receiver exists
    inbox,      \* events in a receiver
    lagged,     \* receivers that skipped events and have not said so
    up, down,   \* the two directions of the socket
    link,       \* up or cut
    daemon,     \* its connection loop: select, writing, gone
    dOut,       \* the frame it is writing
    backlog,    \* events on their way to it, Off when not subscribed: in the
                \* channel of the connection, then in the hand of the pump
                \* of the subscription, then in the broadcast channel
    emitted,    \* events of the task so far
    ran,        \* ghost: how often the daemon handled a request
    taken,      \* ghost: events a receiver yielded
    skipped,    \* ghost: events the daemon dropped: they were overwritten in
                \* the broadcast channel, or it subscribed again
    missed,     \* ghost: events a full receiver lost
    since       \* ghost: events emitted before a subscribe call was handled

caller == <<pc, slot, result, handle>>
task   == <<cmds, loop, inHand, pending, casting>>
stream == <<recv, inbox, lagged, taken, missed>>
wire   == <<up, down, link>>
remote == <<daemon, dOut, backlog, emitted, ran, skipped, since>>
vars   == <<caller, task, stream, wire, remote>>

Cmd ==
    [op : {"send"}, call : Calls] \cup [op : {"subscribe"}, call : Subscribers]
    \cup [op : {"close"}, call : {NoCall}]
UpFrame == [kind : {"request"}, call : Calls] \cup [kind : {"close"}, call : {NoCall}]
DownFrame == [kind : {"answer"}, call : Calls] \cup [kind : {"event"}, seq : 1..MaxEvents]
Off == <<-1>>
NoFrame == [kind |-> "none"]

Init ==
    /\ pc = [c \in Calls |-> "idle"]
    /\ slot = [c \in Calls |-> "none"]
    /\ result = [c \in Calls |-> "none"]
    /\ handle = "held"
    /\ cmds = <<>> /\ loop = "select" /\ inHand = NoCall
    /\ pending = {} /\ casting = FALSE
    /\ recv = {} /\ inbox = [c \in Subscribers |-> <<>>] /\ lagged = {}
    /\ up = <<>> /\ down = <<>> /\ link = "up"
    /\ daemon = "select" /\ dOut = NoFrame
    /\ backlog = Off /\ emitted = 0 /\ ran = [c \in Calls |-> 0] /\ skipped = {}
    /\ taken = [c \in Subscribers |-> {}] /\ missed = [c \in Subscribers |-> {}]
    /\ since = [c \in Subscribers |-> MaxEvents]

-----------------------------------------------------------------------------
(* The callers.                                                            *)

Become(c, p) == pc' = [pc EXCEPT ![c] = p]
Signal(S, v) == slot' = [c \in Calls |-> IF c \in S /\ slot[c] = "open" THEN v ELSE slot[c]]

Start(c) ==
    /\ pc[c] = "idle" /\ handle = "held"
    /\ Become(c, IF c \in Subscribers THEN "subQueueing" ELSE "queueing")
    /\ UNCHANGED <<slot, result, handle, task, stream, wire, remote>>

(* cmd_tx.send(..).await with room, before the connection task is over.    *)
Enqueue(c, from, op, to) ==
    /\ pc[c] = from /\ loop # "over" /\ Len(cmds) < QueueCap
    /\ cmds' = Append(cmds, [op |-> op, call |-> c])
    /\ Become(c, to)
    /\ slot' = [slot EXCEPT ![c] = "open"]
    /\ UNCHANGED <<result, handle, loop, inHand, pending, casting, stream, wire, remote>>

EnqueueSend(c) == Enqueue(c, "queueing", "send", "waiting")
EnqueueSubscribe(c) == Enqueue(c, "subQueueing", "subscribe", "subWaiting")

GotReceiver(c) ==
    /\ pc[c] = "subWaiting" /\ slot[c] = "receiver"
    /\ Become(c, "queueing")
    /\ UNCHANGED <<slot, result, handle, task, stream, wire, remote>>

(* The call returns r; a receiver is only handed out with an answer.       *)
Return(c, r) ==
    /\ Become(c, "done")
    /\ result' = [result EXCEPT ![c] = r]
    /\ slot' = [slot EXCEPT ![c] = "gone"]
    /\ recv' = IF r = "answered" THEN recv ELSE recv \ {c}
    /\ inbox' = [s \in Subscribers |-> IF s = c /\ r # "answered" THEN <<>> ELSE inbox[s]]
    /\ UNCHANGED <<handle, task, lagged, taken, missed, wire, remote>>

Answered(c) == pc[c] = "waiting" /\ slot[c] = "answer" /\ Return(c, "answered")
Failed(c) == pc[c] = "waiting" /\ slot[c] = "error" /\ Return(c, "error")
Closed(c) ==
    /\ \/ pc[c] \in {"queueing", "subQueueing"} /\ loop = "over"
       \/ pc[c] \in {"waiting", "subWaiting"} /\ slot[c] = "lost"
    /\ Return(c, "closed")
TimesOut(c) == pc[c] = "waiting" /\ slot[c] = "open" /\ Return(c, "timeout")

(* The caller drops the future of its call; while it waits for an answer   *)
(* this is no different from a time-out.                                   *)
Abandon(c) == pc[c] \in {"queueing", "subQueueing", "subWaiting"} /\ Return(c, "dropped")

StartClose ==
    /\ handle = "held" /\ handle' = "closing"
    /\ UNCHANGED <<pc, slot, result, task, stream, wire, remote>>

EnqueueClose ==
    /\ handle = "closing"
    /\ IF loop = "over" THEN UNCHANGED cmds
       ELSE Len(cmds) < QueueCap /\ cmds' = Append(cmds, [op |-> "close", call |-> NoCall])
    /\ handle' = "dropped"
    /\ UNCHANGED <<pc, slot, result, loop, inHand, pending, casting, stream, wire, remote>>

DropHandle ==
    /\ handle = "held" /\ handle' = "dropped"
    /\ UNCHANGED <<pc, slot, result, task, stream, wire, remote>>

-----------------------------------------------------------------------------
(* The connection task.                                                    *)

Take(op) == loop = "select" /\ cmds # <<>> /\ Head(cmds).op = op /\ cmds' = Tail(cmds)

TakeSend ==
    /\ Take("send")
    /\ inHand' = Head(cmds).call
    /\ pending' = pending \cup {Head(cmds).call}
    /\ loop' = "writing"
    /\ UNCHANGED <<caller, casting, stream, wire, remote>>

TakeSubscribe ==
    /\ Take("subscribe")
    /\ casting' = TRUE
    /\ LET c == Head(cmds).call
       IN  /\ recv' = IF slot[c] = "open" THEN recv \cup {c} ELSE recv
           /\ Signal({c}, "receiver")
    /\ UNCHANGED <<pc, result, handle, loop, inHand, pending, inbox, lagged, taken, missed, wire, remote>>

TakeClose ==
    /\ Take("close")
    /\ loop' = "closing"
    /\ UNCHANGED <<caller, inHand, pending, casting, stream, wire, remote>>

(* The frame fits into the socket, or is lost because the socket is cut.   *)
Written ==
    /\ loop = "writing"
    /\ \/ link = "up" /\ Len(up) < WireCap /\ up' = Append(up, [kind |-> "request", call |-> inHand])
       \/ link = "cut" /\ UNCHANGED up
    /\ loop' = "select" /\ inHand' = NoCall
    /\ UNCHANGED <<caller, cmds, pending, casting, stream, down, link, remote>>

(* Mutant: the loop ends without waking the pending callers.               *)
BreakSilently ==
    /\ loop' = "draining" /\ inHand' = NoCall
    /\ UNCHANGED <<slot, pending>>

(* break: every pending caller gets an error.                              *)
Break ==
    /\ loop' = "draining" /\ inHand' = NoCall
    /\ Signal(pending, "error")
    /\ pending' = {}

WriteFails ==
    /\ loop = "writing" /\ link = "cut"
    /\ Break
    /\ UNCHANGED <<pc, result, handle, cmds, casting, stream, wire, remote>>

CloseSent ==
    /\ loop = "closing"
    /\ \/ link = "up" /\ Len(up) < WireCap /\ up' = Append(up, [kind |-> "close", call |-> NoCall])
       \/ link = "cut" /\ UNCHANGED up
    /\ Break
    /\ UNCHANGED <<pc, result, handle, cmds, casting, stream, down, link, remote>>

(* recv() yields None when no clone is left: none in a call, none held.    *)
NoMoreHandles ==
    /\ loop = "select" /\ cmds = <<>> /\ handle = "dropped"
    /\ \A c \in Calls : pc[c] \in {"idle", "done"}
    /\ Break
    /\ UNCHANGED <<pc, result, handle, cmds, casting, stream, wire, remote>>

Read(kind) == loop = "select" /\ down # <<>> /\ Head(down).kind = kind /\ down' = Tail(down)

(* Mutant: the answer goes to whichever request waits.                     *)
ReadAnswerUnmatched ==
    /\ Read("answer")
    /\ LET c == IF pending = {} THEN Head(down).call ELSE CHOOSE p \in pending : TRUE
       IN  pending' = pending \ {c} /\ Signal({c} \cap pending, "answer")
    /\ UNCHANGED <<pc, result, handle, cmds, loop, inHand, casting, stream, up, link, remote>>

(* An answer to a request that is no longer pending is dropped.            *)
ReadAnswer ==
    /\ Read("answer")
    /\ LET c == Head(down).call
       IN  pending' = pending \ {c} /\ Signal({c} \cap pending, "answer")
    /\ UNCHANGED <<pc, result, handle, cmds, loop, inHand, casting, stream, up, link, remote>>

(* Mutant: a receiver takes every event, full or not.                      *)
ReadEventUnbounded ==
    /\ Read("event")
    /\ inbox' = [c \in Subscribers |->
                    IF c \in recv THEN Append(inbox[c], Head(down).seq) ELSE inbox[c]]
    /\ UNCHANGED <<caller, task, recv, lagged, taken, missed, up, link, remote>>

(* Mutant: one receiver takes the event from the others.                   *)
ReadEventOnce ==
    /\ Read("event")
    /\ inbox' = IF recv = {} THEN inbox
                ELSE LET c == CHOOSE r \in recv : TRUE
                     IN  [inbox EXCEPT ![c] = IF Len(@) < RecvCap THEN Append(@, Head(down).seq) ELSE @]
    /\ UNCHANGED <<caller, task, recv, lagged, taken, missed, up, link, remote>>

(* A full receiver loses its oldest event and is told so.                  *)
ReadEvent ==
    /\ Read("event")
    /\ LET Full(c) == c \in recv /\ Len(inbox[c]) >= RecvCap
           e == Head(down).seq
       IN  /\ inbox' = [c \in Subscribers |->
                          IF Full(c) THEN Append(Tail(inbox[c]), e)
                          ELSE IF c \in recv THEN Append(inbox[c], e) ELSE inbox[c]]
           /\ lagged' = lagged \cup {c \in Subscribers : Full(c)}
           /\ missed' = [c \in Subscribers |->
                           IF Full(c) THEN missed[c] \cup {Head(inbox[c])} ELSE missed[c]]
    /\ UNCHANGED <<caller, task, recv, taken, up, link, remote>>

(* Mutant: the end of the stream is skipped like a frame of no interest.   *)
ReadEndSkipped ==
    /\ loop = "select" /\ down = <<>> /\ link = "cut"
    /\ UNCHANGED vars

ReadEnd ==
    /\ loop = "select" /\ down = <<>> /\ link = "cut"
    /\ Break
    /\ UNCHANGED <<pc, result, handle, cmds, casting, stream, wire, remote>>

(* The task returns: its socket closes, the commands it did not take are   *)
(* dropped with their oneshots, and so are the local broadcasters.         *)
Finish ==
    /\ loop = "draining"
    /\ loop' = "over"
    /\ Signal({c \in Calls : \E k \in DOMAIN cmds : cmds[k].call = c}, "lost")
    /\ cmds' = <<>> /\ casting' = FALSE
    /\ link' = "cut"
    /\ UNCHANGED <<pc, result, handle, inHand, pending, stream, up, down, remote>>

(* The owner of a receiver takes an event, or learns that it lagged.       *)
RecvEvent(c) ==
    /\ c \in recv /\ c \notin lagged /\ inbox[c] # <<>>
    /\ inbox' = [inbox EXCEPT ![c] = Tail(@)]
    /\ taken' = [taken EXCEPT ![c] = @ \cup {Head(inbox[c])}]
    /\ UNCHANGED <<recv, lagged, missed, caller, task, wire, remote>>

RecvLagged(c) ==
    /\ c \in recv \cap lagged
    /\ lagged' = lagged \ {c}
    /\ UNCHANGED <<recv, inbox, taken, missed, caller, task, wire, remote>>

(* Dropping the receiver is how one unsubscribes.                          *)
DropReceiver(c) ==
    /\ pc[c] = "done" /\ c \in recv
    /\ recv' = recv \ {c}
    /\ inbox' = [inbox EXCEPT ![c] = <<>>]
    /\ UNCHANGED <<lagged, taken, missed, caller, task, wire, remote>>

-----------------------------------------------------------------------------
(* The daemon's connection loop, and the network.                          *)

(* An event of the task; those nobody subscribed to are not numbered.      *)
Emit ==
    /\ emitted < MaxEvents /\ backlog # Off /\ Len(backlog) <= CastCap + PipeCap
    /\ emitted' = emitted + 1
    /\ backlog' = Append(backlog, emitted + 1)
    /\ UNCHANGED <<caller, task, stream, wire, daemon, dOut, ran, skipped, since>>

(* The broadcast channel is full: the pump will find its receiver lagged,  *)
(* and go on behind the event that was the oldest there.                   *)
EmitOverwrites ==
    /\ emitted < MaxEvents /\ backlog # Off /\ Len(backlog) >= CastCap
    /\ emitted' = emitted + 1
    /\ LET k == Len(backlog) - CastCap + 1
       IN  /\ backlog' = Append(RemoveAt(backlog, k), emitted + 1)
           /\ skipped' = skipped \cup {backlog[k]}
    /\ UNCHANGED <<caller, task, stream, wire, daemon, dOut, ran, since>>

(* How many events may be in the channel of the connection.                *)
Piped == {k \in 0..Len(backlog) : k <= PipeCap /\ Len(backlog) - k <= CastCap + 1}

(* A request is handled and answered.  A subscription replaces an earlier  *)
(* one: events its pump has not passed on yet are gone.                    *)
DaemonReads ==
    /\ daemon = "select" /\ link = "up" /\ up # <<>> /\ Head(up).kind = "request"
    /\ LET c == Head(up).call
       IN  /\ dOut' = [kind |-> "answer", call |-> c]
           /\ ran' = [ran EXCEPT ![c] = @ + 1]
           /\ IF c \in Subscribers
              THEN \E k \in Piped :
                     /\ backlog' = IF backlog = Off THEN <<>> ELSE SubSeq(backlog, 1, k)
                     /\ skipped' = skipped \cup
                          IF backlog = Off THEN {} ELSE {backlog[i] : i \in (k + 1)..Len(backlog)}
                     /\ since' = [since EXCEPT ![c] = emitted]
              ELSE UNCHANGED <<backlog, skipped, since>>
    /\ up' = Tail(up)
    /\ daemon' = "writing"
    /\ UNCHANGED <<caller, task, stream, down, link, emitted>>

DaemonTakesEvent ==
    /\ daemon = "select" /\ link = "up" /\ backlog \notin {Off, <<>>}
    /\ dOut' = [kind |-> "event", seq |-> Head(backlog)]
    /\ backlog' = Tail(backlog)
    /\ daemon' = "writing"
    /\ UNCHANGED <<caller, task, stream, wire, emitted, ran, skipped, since>>

DaemonWrites ==
    /\ daemon = "writing" /\ link = "up" /\ Len(down) < WireCap
    /\ down' = Append(down, dOut)
    /\ dOut' = NoFrame
    /\ daemon' = "select"
    /\ UNCHANGED <<caller, task, stream, up, link, backlog, emitted, ran, skipped, since>>

(* A close frame, a failing read or a failing write ends the loop; frames  *)
(* it wrote before may still reach the client.                             *)
DaemonEnds ==
    /\ daemon # "gone"
    /\ link = "cut" \/ (daemon = "select" /\ up # <<>> /\ Head(up).kind = "close")
    /\ daemon' = "gone" /\ link' = "cut"
    /\ dOut' = NoFrame /\ backlog' = Off
    /\ UNCHANGED <<caller, task, stream, up, down, emitted, ran, skipped, since>>

CutLink ==
    /\ link = "up" /\ link' = "cut"
    /\ up' = <<>> /\ down' \in {down, <<>>}
    /\ UNCHANGED <<caller, task, stream, remote>>

-----------------------------------------------------------------------------
CallStep(c) ==
    \/ EnqueueSend(c) \/ EnqueueSubscribe(c) \/ GotReceiver(c)
    \/ Answered(c) \/ Failed(c) \/ Closed(c)

LoopStep ==
    \/ TakeSend \/ TakeSubscribe \/ TakeClose
    \/ Written \/ WriteFails \/ CloseSent \/ NoMoreHandles
    \/ ReadAnswer \/ ReadEvent \/ ReadEnd \/ Finish

DaemonStep == DaemonReads \/ DaemonTakesEvent \/ DaemonWrites \/ DaemonEnds

Next ==
    \/ \E c \in Calls : Start(c) \/ CallStep(c) \/ TimesOut(c) \/ Abandon(c)
    \/ \E c \in Subscribers : RecvEvent(c) \/ RecvLagged(c) \/ DropReceiver(c)
    \/ StartClose \/ EnqueueClose \/ DropHandle
    \/ LoopStep \/ DaemonStep \/ Emit \/ EmitOverwrites \/ CutLink

Spec == Init /\ [][Next]_vars

(* Tasks of both runtimes that can run are run.  Nothing makes a caller    *)
(* start, give up or drop what it holds, and no timer is needed.           *)
FairSpec ==
    /\ Spec
    /\ \A c \in Calls : WF_vars(CallStep(c))
    /\ \A c \in Subscribers : WF_vars(RecvEvent(c) \/ RecvLagged(c))
    /\ WF_vars(EnqueueClose) /\ WF_vars(LoopStep) /\ WF_vars(DaemonStep)

-----------------------------------------------------------------------------
TypeOK ==
    /\ pc \in [Calls -> {"idle", "subQueueing", "subWaiting", "queueing", "waiting", "done"}]
    /\ slot \in [Calls -> {"none", "open", "receiver", "answer", "error", "lost", "gone"}]
    /\ result \in [Calls -> {"none", "answered", "error", "closed", "timeout", "dropped"}]
    /\ handle \in {"held", "closing", "dropped"}
    /\ cmds \in Seq(Cmd) /\ Len(cmds) <= QueueCap
    /\ loop \in {"select", "writing", "closing", "draining", "over"}
    /\ inHand \in Calls \cup {NoCall}
    /\ pending \subseteq Calls /\ casting \in BOOLEAN
    /\ recv \subseteq Subscribers /\ lagged \subseteq Subscribers
    /\ inbox \in [Subscribers -> Seq(1..MaxEvents)]
    /\ \A c \in Subscribers : Len(inbox[c]) <= RecvCap
    /\ up \in Seq(UpFrame) /\ Len(up) <= WireCap
    /\ down \in Seq(DownFrame) /\ Len(down) <= WireCap
    /\ link \in {"up", "cut"} /\ daemon \in {"select", "writing", "gone"}
    /\ dOut \in DownFrame \cup {NoFrame}
    /\ backlog = Off \/ (backlog \in Seq(1..MaxEvents) /\ Len(backlog) <= CastCap + PipeCap + 1)
    /\ emitted \in 0..MaxEvents /\ ran \in [Calls -> Nat] /\ skipped \subseteq 1..MaxEvents
    /\ taken \in [Subscribers -> SUBSET (1..MaxEvents)]
    /\ missed \in [Subscribers -> SUBSET (1..MaxEvents)]
    /\ since \in [Subscribers -> 0..MaxEvents]

Commanded(c) == \E k \in DOMAIN cmds : cmds[k].call = c

(* What the connection task and the daemon's loop can do next.             *)
TaskMoves ==
    \/ loop = "select" /\ (cmds # <<>> \/ down # <<>> \/ link = "cut")
    \/ loop \in {"writing", "closing"} /\ (link = "cut" \/ Len(up) < WireCap)
    \/ loop = "draining"
DaemonMoves ==
    \/ daemon = "select" /\ link = "up" /\ up # <<>>
    \/ daemon = "writing" /\ (link = "cut" \/ Len(down) < WireCap)

(* Both ends write to a full socket, and neither reads.                    *)
Stuck ==
    /\ loop \in {"writing", "closing"} /\ Len(up) >= WireCap
    /\ daemon = "writing" /\ Len(down) >= WireCap

Frames == ToSet(up) \cup {dOut} \cup ToSet(down)

(* The oneshot of a caller is in a command of the queue, or in the map of  *)
(* pending requests with the request or its answer still on the way, or    *)
(* the end of the connection still to be noticed.                          *)
Underway(c) ==
    \/ Commanded(c)
    \/ /\ c \in pending
       /\ \/ inHand = c \/ link = "cut"
          \/ {[kind |-> "request", call |-> c], [kind |-> "answer", call |-> c]} \cap Frames # {}

(* Whoever waits on a oneshot waits for something: its call is under way,  *)
(* and the connection task, which has not returned ("so callers wake up"), *)
(* or the daemon's loop can move, unless both write to a full socket.  A   *)
(* command may be queued between the drain of the map and the return.      *)
WaiterIsServed ==
    \A c \in Calls : slot[c] = "open" =>
        Underway(c) /\ loop # "over" /\ (TaskMoves \/ DaemonMoves \/ Stuck)

(* The calls as the abstract specification sees them.  A call that returns *)
(* Closed, or was given up before its request was sent, counts as refused. *)
Outcome(r) ==
    IF r \in {"none", "answered"} THEN r ELSE IF r \in {"closed", "dropped"} THEN "refused" ELSE "unknown"

Promise == INSTANCE RequestReply WITH
    asked <- {c \in Calls : pc[c] # "idle"},
    runs <- ran,
    outcome <- [c \in Calls |-> Outcome(result[c])]

(* Whatever is timed out, given up, answered late or cut: the daemon       *)
(* handles a request at most once, a call succeeds only with the answer to *)
(* its own request, and one that returns Closed was not and will not be    *)
(* handled, so that it can be made again.                                  *)
KeepsPromise == Promise!Spec

EventsIn(frames) == {frames[k].seq : k \in {i \in DOMAIN frames : frames[i].kind = "event"}}
OnTheWay == EventsIn(down) \cup EventsIn(<<dOut>>)
            \cup (IF backlog = Off THEN {} ELSE ToSet(backlog))

(* After subscribe has returned its receiver, every later event of the     *)
(* task is on the way to it, in it or out of it, unless the receiver was   *)
(* full, the daemon dropped the event (its own receiver of the task lagged *)
(* or the subscription was replaced), or the connection is cut.            *)
NoEventLost ==
    \A c \in recv : result[c] = "answered" /\ link = "up" =>
        \A e \in (since[c] + 1)..emitted :
            e \in taken[c] \cup ToSet(inbox[c]) \cup missed[c] \cup OnTheWay \cup skipped

(* Every call returns without the help of its time-out, however the        *)
(* connection ends, unless both ends of it write to a full socket.         *)
CallReturns ==
    \A c \in Calls :
        pc[c] \in {"queueing", "subQueueing", "waiting", "subWaiting"} ~> (pc[c] = "done" \/ Stuck)
=============================================================================
