---------------------------- MODULE DaemonBridge ----------------------------
(***************************************************************************)
(* The bridge between the app and the client SDK, composed with the SDK:   *)
(* one connection handle, the calls of daemon_subscribe for one task, the  *)
(* pump each of them spawns, the event queue the app drains, and           *)
(* daemon_disconnect.  A call of daemon_subscribe is the SDK call it makes *)
(* (or would make: it returns at once when the task is registered).        *)
(***************************************************************************)
EXTENDS DaemonClient

VARIABLES
    bpc,        \* where a call of daemon_subscribe is
    keyed,      \* the SUBSCRIBED entry of the task: whose JoinHandle, or NoCall
    pump,       \* the pump a call spawned: none, running, ended, aborted
    queue,      \* the event queue of the handle, Off once it is removed
    drained,    \* events the app has drained
    disc,       \* daemon_disconnect: none, closing, closed, done
    overlap     \* ghost: calls that found no entry while another was under way

bridge == <<bpc, keyed, pump, queue, drained, disc, overlap>>
allVars == <<vars, bridge>>

BridgeInit ==
    /\ Init
    /\ bpc = [c \in Subscribers |-> "idle"]
    /\ keyed = NoCall
    /\ pump = [c \in Subscribers |-> "none"]
    /\ queue = <<>> /\ drained = <<>>
    /\ disc = "none"
    /\ overlap = {}

BBecome(c, p) == bpc' = [bpc EXCEPT ![c] = p]
Calling == {c \in Subscribers : bpc[c] = "calling"}

(* Mutant: the entry is not looked up.                                     *)
BSubscribeUnchecked(c) ==
    /\ bpc[c] = "idle" /\ Start(c)
    /\ BBecome(c, "calling")
    /\ overlap' = IF Calling = {} THEN overlap ELSE overlap \cup Calling \cup {c}
    /\ UNCHANGED <<keyed, pump, queue, drained, disc>>

(* The handle is there and the task has no entry: the SDK is called.       *)
BSubscribe(c) ==
    /\ bpc[c] = "idle" /\ keyed = NoCall /\ Start(c)
    /\ BBecome(c, "calling")
    /\ overlap' = IF Calling = {} THEN overlap ELSE overlap \cup Calling \cup {c}
    /\ UNCHANGED <<keyed, pump, queue, drained, disc>>

BSubscribeAgain(c) ==
    /\ bpc[c] = "idle" /\ keyed # NoCall /\ handle = "held"
    /\ BBecome(c, "done")
    /\ UNCHANGED <<vars, keyed, pump, queue, drained, disc, overlap>>

(* The receiver is there: spawn the pump and enter it, over an older entry *)
BSpawn(c) ==
    /\ bpc[c] = "calling" /\ result[c] = "answered"
    /\ BBecome(c, "done")
    /\ pump' = [pump EXCEPT ![c] = "running"]
    /\ keyed' = c
    /\ UNCHANGED <<vars, queue, drained, disc, overlap>>

BFails(c) ==
    /\ bpc[c] = "calling" /\ result[c] \notin {"none", "answered"}
    /\ BBecome(c, "done")
    /\ UNCHANGED <<vars, keyed, pump, queue, drained, disc, overlap>>

(* Mutant: the pump does not ask whether the queue is still there.         *)
PumpPushesBlindly(c) ==
    /\ pump[c] = "running" /\ RecvEvent(c)
    /\ queue' = Append(queue, Head(inbox[c]))
    /\ UNCHANGED <<bpc, keyed, pump, drained, disc, overlap>>

(* Mutant: the pump puts its event in front.                               *)
PumpPushesFront(c) ==
    /\ pump[c] = "running" /\ RecvEvent(c)
    /\ queue' = IF queue = Off THEN Off ELSE <<Head(inbox[c])>> \o queue
    /\ UNCHANGED <<bpc, keyed, pump, drained, disc, overlap>>

PumpPushes(c) ==
    /\ pump[c] = "running" /\ RecvEvent(c)
    /\ queue' = IF queue = Off THEN Off ELSE Append(queue, Head(inbox[c]))
    /\ UNCHANGED <<bpc, keyed, pump, drained, disc, overlap>>

(* recv() returns an error, lagged or closed: the loop of the pump is over *)
PumpEnds(c) ==
    /\ pump[c] = "running"
    /\ c \in lagged \/ (loop = "over" /\ inbox[c] = <<>>)
    /\ DropReceiver(c)
    /\ pump' = [pump EXCEPT ![c] = "ended"]
    /\ UNCHANGED <<bpc, keyed, queue, drained, disc, overlap>>

(* Mutant: a drain of some events clears the queue.                        *)
DrainClears ==
    /\ queue \notin {Off, <<>>}
    /\ \E k \in 1..Len(queue) : drained' = drained \o SubSeq(queue, 1, k)
    /\ queue' = <<>>
    /\ UNCHANGED <<vars, bpc, keyed, pump, disc, overlap>>

Drain ==
    /\ queue \notin {Off, <<>>}
    /\ \E k \in 1..Len(queue) :
         /\ drained' = drained \o SubSeq(queue, 1, k)
         /\ queue' = SubSeq(queue, k + 1, Len(queue))
    /\ UNCHANGED <<vars, bpc, keyed, pump, disc, overlap>>

Disconnect ==
    /\ disc = "none" /\ StartClose
    /\ disc' = "closing"
    /\ UNCHANGED <<bpc, keyed, pump, queue, drained, overlap>>

DisconnectClosed ==
    /\ disc = "closing" /\ EnqueueClose
    /\ disc' = "closed"
    /\ UNCHANGED <<bpc, keyed, pump, queue, drained, overlap>>

(* The queue goes, and the pump of the entry is aborted with it.           *)
DisconnectCleans ==
    /\ disc = "closed" /\ disc' = "done"
    /\ queue' = Off
    /\ keyed' = NoCall
    /\ IF keyed # NoCall /\ pump[keyed] = "running"
       THEN /\ pump' = [pump EXCEPT ![keyed] = "aborted"]
            /\ DropReceiver(keyed)
       ELSE UNCHANGED <<pump, vars>>
    /\ UNCHANGED <<bpc, drained, overlap>>

BridgeStep(c) == BSpawn(c) \/ BFails(c) \/ PumpPushes(c) \/ PumpEnds(c)
SdkStep ==
    /\ (\E c \in Calls : CallStep(c) \/ TimesOut(c)) \/ LoopStep \/ DaemonStep
       \/ Emit \/ EmitOverwrites \/ CutLink
    /\ UNCHANGED bridge

BridgeNext ==
    \/ \E c \in Subscribers : BSubscribe(c) \/ BSubscribeAgain(c) \/ BridgeStep(c)
    \/ Drain \/ Disconnect \/ DisconnectClosed \/ DisconnectCleans
    \/ SdkStep

BridgeSpec == BridgeInit /\ [][BridgeNext]_allVars

-----------------------------------------------------------------------------
BridgeTypeOK ==
    /\ bpc \in [Subscribers -> {"idle", "calling", "done"}]
    /\ keyed \in Subscribers \cup {NoCall}
    /\ pump \in [Subscribers -> {"none", "running", "ended", "aborted"}]
    /\ queue = Off \/ queue \in Seq(1..MaxEvents)
    /\ drained \in Seq(1..MaxEvents)
    /\ disc \in {"none", "closing", "closed", "done"}
    /\ overlap \subseteq Subscribers

Pumps == {c \in Subscribers : pump[c] # "none"}

(* The app may ask for a task as often as it likes: a second pump exists   *)
(* only if both calls looked for the entry before either had made it (or   *)
(* the handle was disconnected meanwhile).                                 *)
PumpsOverlapped == \A c, d \in Pumps : c # d /\ disc = "none" => {c, d} \subseteq overlap

(* With one pump, the app gets the events in the order of the daemon,      *)
(* none of them twice.                                                     *)
Shown == IF queue = Off THEN drained ELSE drained \o queue
ShownInOrder ==
    (\A c, d \in Pumps : c = d) => \A i, j \in DOMAIN Shown : i < j => Shown[i] < Shown[j]

(* From the daemon to the app: while a pump runs on a live connection,     *)
(* every event since its subscription was drained, is queued, or is on its *)
(* way, unless a receiver of the client was full or the daemon dropped it  *)
(* (its own receiver lagged or the subscription was replaced).             *)
NothingMissed ==
    \A c \in Subscribers : pump[c] = "running" /\ link = "up" /\ queue # Off =>
        \A e \in (since[c] + 1)..emitted :
           e \in ToSet(Shown) \cup ToSet(inbox[c]) \cup missed[c] \cup OnTheWay \cup skipped

(* "the pump just runs until the broadcast is dropped (DaemonClient        *)
(* closes)": a pump ends by itself only when the connection task is over.  *)
PumpRunsUntilClosed == \A c \in Subscribers : pump[c] = "ended" => loop = "over"
=============================================================================
