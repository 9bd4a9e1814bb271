------------------------- MODULE DaemonBridgeProofs -------------------------
(***************************************************************************)
(* The bridge keeps what the client SDK keeps, and adds to it: proved with *)
(* TLAPS for every number of calls, events and every capacity.             *)
(***************************************************************************)
EXTENDS DaemonBridge, DaemonClientProofs, SequenceTheorems

BridgeOwn(c) == BSubscribe(c) \/ BSubscribeAgain(c) \/ BSpawn(c) \/ BFails(c) \/ PumpPushes(c) \/ PumpEnds(c)

LEMMA BridgeSplits ==
  [BridgeNext]_allVars =>
    \/ \E c \in Subscribers : BridgeOwn(c)
    \/ Drain \/ Disconnect \/ DisconnectClosed \/ DisconnectCleans
    \/ SdkStep \/ UNCHANGED allVars
  BY DEF BridgeNext, BridgeStep, BridgeOwn

(* What the bridge does to the client SDK is what its caller may do.       *)
LEMMA BridgeStepsClient ==
  ASSUME BridgeTypeOK, [BridgeNext]_allVars
  PROVE  [Next]_vars
  <1>0. ASSUME NEW c \in Subscribers, Start(c) \/ RecvEvent(c) \/ DropReceiver(c) PROVE Next
    BY <1>0 DEF Next, Calls
  <1>1. ASSUME NEW c \in Subscribers, BridgeOwn(c) PROVE [Next]_vars
    BY <1>0, <1>1 DEF BridgeOwn, BSubscribe, BSubscribeAgain, BSpawn, BFails, PumpPushes, PumpEnds
  <1>2. Drain => UNCHANGED vars
    BY DEF Drain
  <1>3. Disconnect \/ DisconnectClosed => Next
    BY DEF Disconnect, DisconnectClosed, Next
  <1>4. CASE DisconnectCleans
    <2>1. UNCHANGED vars \/ (keyed \in Subscribers /\ DropReceiver(keyed))
      BY <1>4 DEF DisconnectCleans, BridgeTypeOK
    <2> QED
      BY <1>0, <2>1
  <1>5. SdkStep => Next
    BY DEF SdkStep, Next
  <1>6. UNCHANGED allVars => UNCHANGED vars
    BY DEF allVars
  <1> QED
    BY <1>1, <1>2, <1>3, <1>4, <1>5, <1>6, BridgeSplits

-----------------------------------------------------------------------------
LEMMA JoinedSet ==
  ASSUME NEW S, NEW s \in Seq(S), NEW t \in Seq(S)
  PROVE  s \o t \in Seq(S) /\ ToSet(s \o t) = ToSet(s) \cup ToSet(t)
  <1>1. /\ s \o t \in Seq(S) /\ Len(s \o t) = Len(s) + Len(t)
        /\ \A i \in 1..Len(s) : (s \o t)[i] = s[i]
        /\ \A i \in 1..Len(t) : (s \o t)[i + Len(s)] = t[i]
    OBVIOUS
  <1>2. DOMAIN (s \o t) = 1..(Len(s) + Len(t)) /\ DOMAIN s = 1..Len(s) /\ DOMAIN t = 1..Len(t)
    BY <1>1
  <1>3. Len(s) \in Nat /\ Len(t) \in Nat
    OBVIOUS
  <1>4. ASSUME NEW k \in DOMAIN (s \o t) PROVE (s \o t)[k] \in ToSet(s) \cup ToSet(t)
    <2>1. CASE k <= Len(s)
      <3>1. k \in DOMAIN s /\ (s \o t)[k] = s[k]
        BY <1>1, <1>2, <1>3, <2>1
      <3> QED
        BY <3>1 DEF ToSet
    <2>2. CASE k > Len(s)
      <3>1. k - Len(s) \in 1..Len(t) /\ (k - Len(s)) + Len(s) = k
        BY <1>2, <1>3, <2>2
      <3>2. (s \o t)[k] = t[k - Len(s)]
        BY <1>1, <3>1
      <3> QED
        BY <1>2, <3>1, <3>2 DEF ToSet
    <2> QED
      BY <1>2, <1>3, <2>1, <2>2
  <1>5. ASSUME NEW k \in DOMAIN s PROVE s[k] \in ToSet(s \o t)
    <2>1. k \in DOMAIN (s \o t) /\ (s \o t)[k] = s[k]
      BY <1>1, <1>2, <1>3
    <2> QED
      BY <2>1 DEF ToSet
  <1>6. ASSUME NEW k \in DOMAIN t PROVE t[k] \in ToSet(s \o t)
    <2>1. k + Len(s) \in DOMAIN (s \o t) /\ (s \o t)[k + Len(s)] = t[k]
      BY <1>1, <1>2, <1>3
    <2> QED
      BY <2>1 DEF ToSet
  <1> QED
    BY <1>1, <1>4, <1>5, <1>6 DEF ToSet

LEMMA JoinedHead ==
  ASSUME NEW s \in Seq(1..MaxEvents), NEW t \in Seq(1..MaxEvents)
  PROVE  DOMAIN s \subseteq DOMAIN (s \o t) /\ \A i \in DOMAIN s : (s \o t)[i] = s[i]
  <1> DEFINE E == 1..MaxEvents
  <1>1. s \in Seq(E) /\ t \in Seq(E)
    OBVIOUS
  <1> HIDE DEF E
  <1>2. /\ DOMAIN s = 1..Len(s) /\ DOMAIN (s \o t) = 1..(Len(s) + Len(t))
        /\ Len(s) \in Nat /\ Len(t) \in Nat
    BY <1>1
  <1>3. \A i \in 1..Len(s) : (s \o t)[i] = s[i]
    BY <1>1
  <1> QED
    BY <1>2, <1>3

LEMMA CutSet ==
  ASSUME NEW S, NEW s \in Seq(S), NEW k \in 1..Len(s)
  PROVE  /\ SubSeq(s, 1, k) \in Seq(S) /\ SubSeq(s, k + 1, Len(s)) \in Seq(S)
         /\ ToSet(s) \subseteq ToSet(SubSeq(s, 1, k)) \cup ToSet(SubSeq(s, k + 1, Len(s)))
  <1>1. Len(s) \in Nat /\ k \in Int /\ 1 <= k /\ k <= Len(s) /\ DOMAIN s = 1..Len(s)
    OBVIOUS
  <1>2. /\ SubSeq(s, 1, k) \in Seq(S) /\ DOMAIN SubSeq(s, 1, k) = 1..k
        /\ \A i \in 1..k : SubSeq(s, 1, k)[i] = s[i]
    BY <1>1
  <1>3. /\ SubSeq(s, k + 1, Len(s)) \in Seq(S) /\ DOMAIN SubSeq(s, k + 1, Len(s)) = 1..(Len(s) - k)
        /\ \A i \in 1..(Len(s) - k) : SubSeq(s, k + 1, Len(s))[i] = s[i + k]
    BY <1>1
  <1>4. ASSUME NEW j \in DOMAIN s PROVE s[j] \in ToSet(SubSeq(s, 1, k)) \cup ToSet(SubSeq(s, k + 1, Len(s)))
    <2>1. CASE j <= k
      <3>1. j \in 1..k
        BY <1>1, <2>1
      <3> QED
        BY <1>2, <3>1 DEF ToSet
    <2>2. CASE j > k
      <3>1. j - k \in 1..(Len(s) - k) /\ (j - k) + k = j
        BY <1>1, <2>2
      <3> QED
        BY <1>3, <3>1 DEF ToSet
    <2> QED
      BY <1>1, <2>1, <2>2
  <1> QED
    BY <1>2, <1>3, <1>4 DEF ToSet

-----------------------------------------------------------------------------
(* How the way of an event through the bridge moves on.                    *)
QueueMoves ==
    /\ drained' \in Seq(1..MaxEvents)
    /\ queue' = Off \/ (queue # Off /\ queue' \in Seq(1..MaxEvents))
    /\ queue' # Off => ToSet(Shown) \subseteq ToSet(Shown')

LEMMA EventsJoined ==
  ASSUME NEW s \in Seq(1..MaxEvents), NEW t \in Seq(1..MaxEvents), NEW u, u = s \o t
  PROVE  u \in Seq(1..MaxEvents) /\ ToSet(u) = ToSet(s) \cup ToSet(t)
  <1> DEFINE E == 1..MaxEvents
  <1>1. s \in Seq(E) /\ t \in Seq(E)
    OBVIOUS
  <1> HIDE DEF E
  <1>2. s \o t \in Seq(E) /\ ToSet(s \o t) = ToSet(s) \cup ToSet(t)
    BY <1>1, JoinedSet
  <1> QED
    BY <1>2 DEF E

LEMMA DrainMoves == BridgeTypeOK /\ Drain => QueueMoves
  <1> SUFFICES ASSUME BridgeTypeOK, Drain PROVE QueueMoves
    OBVIOUS
  <1> DEFINE E == 1..MaxEvents
  <1>1. queue # Off /\ queue \in Seq(E) /\ drained \in Seq(E)
    BY DEF Drain, BridgeTypeOK
  <1>2. PICK k \in 1..Len(queue) :
          /\ drained' = drained \o SubSeq(queue, 1, k)
          /\ queue' = SubSeq(queue, k + 1, Len(queue))
    BY DEF Drain
  <1> HIDE DEF E
  <1>3. /\ SubSeq(queue, 1, k) \in Seq(E) /\ queue' \in Seq(E)
        /\ ToSet(queue) \subseteq ToSet(SubSeq(queue, 1, k)) \cup ToSet(queue')
    BY <1>1, <1>2, CutSet
  <1>4. drained' \in Seq(E) /\ ToSet(drained') = ToSet(drained) \cup ToSet(SubSeq(queue, 1, k))
    BY <1>1, <1>2, <1>3, EventsJoined DEF E
  <1>5. ToSet(drained' \o queue') = ToSet(drained') \cup ToSet(queue')
    BY <1>3, <1>4, EventsJoined DEF E
  <1>6. ToSet(drained \o queue) = ToSet(drained) \cup ToSet(queue)
    BY <1>1, EventsJoined DEF E
  <1>7. queue' # Off
    BY <1>3, NotOff DEF E
  <1> QED
    BY <1>1, <1>3, <1>4, <1>5, <1>6, <1>7 DEF QueueMoves, Shown, E

LEMMA PushMoves ==
  ASSUME TypeOK, BridgeTypeOK, NEW c \in Subscribers, PumpPushes(c)
  PROVE  /\ QueueMoves
         /\ queue' # Off => Head(inbox[c]) \in ToSet(Shown')
  <1> DEFINE E == 1..MaxEvents
             e == Head(inbox[c])
  <1>1. drained' = drained /\ drained \in Seq(E) /\ e \in E
        /\ queue' = IF queue = Off THEN Off ELSE Append(queue, e)
    BY HeadTail DEF PumpPushes, RecvEvent, TypeOK, BridgeTypeOK
  <1>2. CASE queue = Off
    BY <1>1, <1>2 DEF QueueMoves
  <1>3. CASE queue # Off
    <2>1. queue \in Seq(E) /\ queue' = Append(queue, e)
      BY <1>1, <1>3 DEF BridgeTypeOK
    <2>2. queue' \in Seq(E) /\ ToSet(queue') = ToSet(queue) \cup {e}
      BY <1>1, <2>1, EventAppended
    <2>3. queue' # Off
      BY <2>2, NotOff
    <2> HIDE DEF E, e
    <2>4. ToSet(drained \o queue) = ToSet(drained) \cup ToSet(queue)
      BY <1>1, <2>1, EventsJoined DEF E
    <2>5. ToSet(drained \o queue') = ToSet(drained) \cup ToSet(queue')
      BY <1>1, <2>2, EventsJoined DEF E
    <2>6. ToSet(Shown) \subseteq ToSet(Shown') /\ e \in ToSet(Shown')
      BY <1>1, <1>3, <2>2, <2>3, <2>4, <2>5 DEF Shown
    <2> QED
      BY <1>1, <1>3, <2>2, <2>6 DEF QueueMoves, E, e
  <1> QED
    BY <1>2, <1>3

LEMMA BridgeTypeStep ==
  ASSUME TypeOK, BridgeTypeOK, [BridgeNext]_allVars
  PROVE  BridgeTypeOK' /\ QueueMoves
  <1>0. ASSUME UNCHANGED <<queue, drained>> PROVE QueueMoves
    BY <1>0 DEF QueueMoves, BridgeTypeOK, Shown
  <1>1. ASSUME NEW c \in Subscribers, BridgeOwn(c) PROVE BridgeTypeOK' /\ QueueMoves
    <2>1. CASE BSubscribe(c)
      BY <1>0, <2>1 DEF BSubscribe, BBecome, Calling, BridgeTypeOK
    <2>2. CASE BSubscribeAgain(c) \/ BSpawn(c) \/ BFails(c) \/ PumpEnds(c)
      BY <1>0, <2>2 DEF BSubscribeAgain, BSpawn, BFails, PumpEnds, BBecome, BridgeTypeOK
    <2>3. CASE PumpPushes(c)
      <3>1. QueueMoves
        BY <2>3, PushMoves
      <3> QED
        BY <2>3, <3>1 DEF QueueMoves, PumpPushes, BridgeTypeOK
    <2> QED
      BY <1>1, <2>1, <2>2, <2>3 DEF BridgeOwn
  <1>2. CASE Drain
    BY <1>2, DrainMoves DEF QueueMoves, Drain, BridgeTypeOK
  <1>3. CASE Disconnect \/ DisconnectClosed
    BY <1>0, <1>3 DEF Disconnect, DisconnectClosed, BridgeTypeOK
  <1>4. CASE DisconnectCleans
    BY <1>4 DEF DisconnectCleans, QueueMoves, BridgeTypeOK, vars
  <1>5. CASE SdkStep \/ UNCHANGED allVars
    BY <1>0, <1>5 DEF SdkStep, bridge, allVars, BridgeTypeOK
  <1> QED
    BY <1>1, <1>2, <1>3, <1>4, <1>5, BridgeSplits

-----------------------------------------------------------------------------
(* A call has its receiver from when it was told so.                       *)
Holds(c) ==
    \/ pc[c] \in {"queueing", "waiting"} \/ slot[c] = "receiver" \/ (pc[c] = "done" /\ result[c] = "answered")
    => c \in recv

(* Nothing but the end of its own pump takes a receiver away.              *)
ClientMoves(c) ==
    \/ SdkStep \/ StartClose \/ EnqueueClose \/ UNCHANGED vars
    \/ \E d \in Subscribers : Start(d) \/ RecvEvent(d) \/ (d # c /\ DropReceiver(d))

LEMMA HoldsStep ==
  ASSUME TypeOK, TypeOK', LoopShape, CallInv, NEW c \in Subscribers, Holds(c), ClientMoves(c)
  PROVE  Holds(c)'
  <1> USE DEF caller, task, stream, wire, remote, Become
  <1>c. c \in Calls /\ Knows(c)
    BY DEF Calls, CallInv, CallKnows
  <1>1. ASSUME NEW d \in Calls, Returns(d) PROVE Holds(c)'
    <2>1. PICK r : Return(d, r) /\ (r = "answered" => pc[d] = "waiting")
      BY <1>1 DEF Returns, Answered, Failed, Closed, TimesOut, Abandon
    <2>2. CASE d = c
      BY <1>c, <2>1, <2>2 DEF Return, Holds, TypeOK
    <2>3. CASE d # c
      BY <1>c, <2>1, <2>3 DEF Return, Holds, TypeOK
    <2> QED
      BY <2>2, <2>3
  <1>2. ASSUME NEW d \in Calls, EnqueueSend(d) \/ EnqueueSubscribe(d) \/ GotReceiver(d) PROVE Holds(c)'
    <2>1. /\ UNCHANGED <<recv, result>> /\ pc'[d] \in {"waiting", "subWaiting", "queueing"}
          /\ \A x \in Calls \ {d} : pc'[x] = pc[x] /\ slot'[x] = slot[x]
          /\ \/ pc[d] = "queueing" /\ slot'[d] = "open"
             \/ pc'[d] = "subWaiting" /\ slot'[d] = "open"
             \/ slot[d] = "receiver"
      <3>f. DOMAIN pc = Calls /\ DOMAIN slot = Calls
        BY DEF TypeOK
      <3>1. CASE EnqueueSend(d)
        BY <3>f, <3>1 DEF EnqueueSend, Enqueue
      <3>2. CASE EnqueueSubscribe(d)
        BY <3>f, <3>2 DEF EnqueueSubscribe, Enqueue
      <3>3. CASE GotReceiver(d)
        BY <3>f, <3>3 DEF GotReceiver
      <3> QED
        BY <1>2, <3>1, <3>2, <3>3
    <2>2. CASE d = c
      <3>1. CASE pc[d] = "queueing" /\ slot'[d] = "open"
        BY <2>1, <2>2, <3>1 DEF Holds
      <3>2. CASE pc'[d] = "subWaiting" /\ slot'[d] = "open"
        BY <2>2, <3>2 DEF Holds
      <3>3. CASE slot[d] = "receiver"
        BY <2>1, <2>2, <3>3 DEF Holds
      <3> QED
        BY <2>1, <3>1, <3>2, <3>3
    <2>3. CASE d # c
      BY <1>c, <2>1, <2>3 DEF Holds
    <2> QED
      BY <2>2, <2>3
  <1>3. ASSUME NEW d \in Subscribers, Start(d) \/ RecvEvent(d) \/ (d # c /\ DropReceiver(d)) PROVE Holds(c)'
    <2>f. DOMAIN pc = Calls /\ d \in Calls
      BY DEF TypeOK, Calls
    <2>1. CASE Start(d)
      <3>1. UNCHANGED <<slot, result, recv>> /\ pc'[d] \in {"subQueueing", "queueing"}
            /\ \A x \in Calls \ {d} : pc'[x] = pc[x]
        BY <2>f, <2>1 DEF Start
      <3>2. pc'[d] = "subQueueing" /\ slot'[d] = slot[d]
        BY <2>f, <2>1, <3>1 DEF Start
      <3> QED
        BY <1>c, <3>1, <3>2 DEF Holds
    <2>2. CASE RecvEvent(d)
      BY <2>2 DEF RecvEvent, Holds
    <2>3. CASE d # c /\ DropReceiver(d)
      BY <2>3 DEF DropReceiver, Holds
    <2> QED
      BY <1>3, <2>1, <2>2, <2>3
  <1>4. CASE TakeSubscribe
    <2>1. /\ UNCHANGED <<pc, result>> /\ recv \subseteq recv'
          /\ slot[Head(cmds).call] = "open" => Head(cmds).call \in recv'
          /\ \A x \in Calls : slot'[x] = IF x = Head(cmds).call /\ slot[x] = "open" THEN "receiver" ELSE slot[x]
      BY <1>4 DEF TakeSubscribe, Signal
    <2> QED
      BY <1>c, <2>1 DEF Holds
  <1>5. CASE TakeSend \/ TakeClose \/ Written \/ Breaks \/ ReadAnswer \/ ReadEvent \/ Finish
    <2>1. UNCHANGED <<pc, result, recv>> /\ (slot'[c] = "receiver" => slot[c] = "receiver")
      BY <1>c, <1>5 DEF TakeSend, TakeClose, Written, Breaks, WriteFails, CloseSent, NoMoreHandles, ReadEnd, Break,
                  ReadAnswer, ReadEvent, Finish, Signal
    <2> QED
      BY <2>1 DEF Holds
  <1>6. CASE DaemonStep \/ Emit \/ EmitOverwrites \/ CutLink \/ StartClose \/ EnqueueClose \/ UNCHANGED vars
    <2>1. UNCHANGED <<pc, result, recv, slot>>
      BY <1>6 DEF DaemonStep, DaemonReads, DaemonTakesEvent, DaemonWrites, DaemonEnds, Emit, EmitOverwrites, CutLink,
                  StartClose, EnqueueClose, vars
    <2> QED
      BY <2>1 DEF Holds
  <1> QED
    BY <1>1, <1>2, <1>3, <1>4, <1>5, <1>6 DEF ClientMoves, SdkStep, CallStep, LoopStep, Returns, Breaks

LEMMA DoneStays ==
  ASSUME TypeOK, [Next]_vars, NEW c \in Calls, pc[c] = "done"
  PROVE  pc'[c] = "done" /\ result'[c] = result[c]
  <1> USE DEF caller, task, stream, wire, remote, Become
  <1>1. ASSUME NEW d \in Calls, Returns(d) PROVE pc'[c] = "done" /\ result'[c] = result[c]
    <2>1. PICK r : Return(d, r) /\ pc[d] # "done"
      BY <1>1 DEF Returns, Answered, Failed, Closed, TimesOut, Abandon
    <2> QED
      BY <2>1 DEF Return, TypeOK
  <1>2. ASSUME NEW d \in Calls, Start(d) \/ EnqueueSend(d) \/ EnqueueSubscribe(d) \/ GotReceiver(d)
        PROVE  pc'[c] = "done" /\ result'[c] = result[c]
    BY <1>2 DEF EnqueueSend, EnqueueSubscribe, Enqueue, GotReceiver, Start, TypeOK
  <1>3. ASSUME \/ \E d \in Subscribers : Receives(d)
               \/ StartClose \/ EnqueueClose \/ DropHandle
               \/ TakeSend \/ TakeSubscribe \/ TakeClose \/ Written \/ Breaks \/ ReadAnswer \/ ReadEvent \/ Finish
               \/ DaemonReads \/ DaemonTakesEvent \/ DaemonWrites \/ DaemonEnds \/ Emit \/ EmitOverwrites
               \/ CutLink \/ UNCHANGED vars
        PROVE  UNCHANGED <<pc, result>>
    BY <1>3 DEF Receives, RecvEvent, RecvLagged, DropReceiver, StartClose, EnqueueClose, DropHandle,
         TakeSend, TakeSubscribe, TakeClose, Written, Breaks, WriteFails, CloseSent, NoMoreHandles, ReadEnd,
         ReadAnswer, ReadEvent, Finish, DaemonReads, DaemonTakesEvent, DaemonWrites, DaemonEnds,
         Emit, EmitOverwrites, CutLink, vars
  <1> QED
    BY <1>1, <1>2, <1>3, NextSplits

(* One pump has what its receiver yielded in the queue or at the app.      *)
PumpShows(c) ==
    /\ pump[c] \in {"none", "running"} => Holds(c)
    /\ pump[c] # "none" => pc[c] = "done" /\ result[c] = "answered" /\ bpc[c] = "done"
    /\ pump[c] = "none" => taken[c] = {}
    /\ pump[c] = "running" /\ queue # Off => taken[c] \subseteq ToSet(Shown)

(* Calls and pumps of one task overlap only if the calls did.              *)
KeyGuards ==
    disc = "none" =>
        /\ Pumps # {} => keyed # NoCall
        /\ \A c, d \in Pumps \cup Calling : c # d => {c, d} \subseteq overlap

BridgeInv == KeyGuards /\ \A c \in Subscribers : PumpShows(c)

LEMMA BridgeInvInit == BridgeInit => BridgeTypeOK /\ BridgeInv
  <1> SUFFICES ASSUME BridgeInit PROVE BridgeTypeOK /\ BridgeInv
    OBVIOUS
  <1>1. BridgeTypeOK
    BY DEF BridgeInit, BridgeTypeOK
  <1>2. KeyGuards
    BY DEF BridgeInit, KeyGuards, Pumps, Calling
  <1>3. \A c \in Subscribers : PumpShows(c)
    BY DEF BridgeInit, Init, PumpShows, Holds, Calls
  <1> QED
    BY <1>1, <1>2, <1>3 DEF BridgeInv

LEMMA PumpShowsStep ==
  ASSUME TypeOK, TypeOK', LoopShape, CallInv, BridgeTypeOK, [Next]_vars, QueueMoves, [BridgeNext]_allVars,
         NEW c \in Subscribers, PumpShows(c)
  PROVE  PumpShows(c)'
  <1> USE DEF caller, task, stream, wire, remote
  <1>c. c \in Calls /\ Knows(c)
    BY DEF Calls, CallInv, CallKnows
  <1>1. pc[c] = "done" => pc'[c] = "done" /\ result'[c] = result[c]
    BY <1>c, DoneStays
  <1>b. bpc[c] = "done" => bpc'[c] = "done"
    <2>1. ASSUME NEW d \in Subscribers, BridgeOwn(d) PROVE bpc[c] = "done" => bpc'[c] = "done"
      BY <2>1 DEF BridgeOwn, BSubscribe, BSubscribeAgain, BSpawn, BFails, PumpPushes, PumpEnds, BBecome, BridgeTypeOK
    <2>2. CASE Drain \/ Disconnect \/ DisconnectClosed \/ DisconnectCleans \/ SdkStep \/ UNCHANGED allVars
      BY <2>2 DEF Drain, Disconnect, DisconnectClosed, DisconnectCleans, SdkStep, bridge, allVars
    <2> QED
      BY <2>1, <2>2, BridgeSplits
  (* Whatever leaves the pump and what it took alone keeps the invariant.  *)
  <1>2. ASSUME ClientMoves(c), pump'[c] = pump[c], taken'[c] = taken[c] PROVE PumpShows(c)'
    <2>1. Holds(c) => Holds(c)'
      BY <1>2, HoldsStep
    <2>2. queue' # Off => queue # Off /\ ToSet(Shown) \subseteq ToSet(Shown')
      BY DEF QueueMoves
    <2> QED
      BY <1>1, <1>b, <1>2, <2>1, <2>2 DEF PumpShows
  <1>3. ASSUME NEW d \in Subscribers, BridgeOwn(d) PROVE PumpShows(c)'
    <2>1. CASE BSubscribe(d)
      <3>1. ClientMoves(c) /\ pump' = pump /\ taken' = taken
        BY <2>1 DEF BSubscribe, ClientMoves, Start
      <3> QED
        BY <1>2, <3>1
    <2>2. CASE BSubscribeAgain(d) \/ BFails(d)
      <3>1. ClientMoves(c) /\ pump' = pump /\ taken' = taken
        BY <2>2 DEF BSubscribeAgain, BFails, ClientMoves, vars
      <3> QED
        BY <1>2, <3>1
    <2>3. CASE BSpawn(d)
      <3>1. ClientMoves(c) /\ UNCHANGED <<taken, queue, drained, pc, result, recv, slot>>
            /\ pump' = [pump EXCEPT ![d] = "running"] /\ result[d] = "answered"
            /\ bpc[d] = "calling" /\ bpc' = [bpc EXCEPT ![d] = "done"]
        BY <2>3 DEF BSpawn, BBecome, ClientMoves, vars
      <3>2. CASE d # c
        BY <1>2, <3>1, <3>2 DEF BridgeTypeOK
      <3>3. CASE d = c
        <4>1. pump'[c] = "running" /\ pc[c] = "done"
          BY <1>c, <3>1, <3>3 DEF BridgeTypeOK, Knows
        <4>2. pump[c] = "none" /\ taken[c] = {} /\ bpc'[c] = "done"
          BY <3>1, <3>3 DEF PumpShows, BridgeTypeOK
        <4>3. Holds(c)'
          BY <3>1, <4>2 DEF PumpShows, Holds
        <4> QED
          BY <3>1, <3>3, <4>1, <4>2, <4>3 DEF PumpShows
      <3> QED
        BY <3>2, <3>3
    <2>4. CASE PumpPushes(d)
      <3>1. ClientMoves(c) /\ pump' = pump /\ pump[d] = "running"
            /\ taken' = [taken EXCEPT ![d] = @ \cup {Head(inbox[d])}]
        BY <2>4 DEF PumpPushes, RecvEvent, ClientMoves
      <3>2. CASE d # c
        BY <1>2, <3>1, <3>2 DEF TypeOK
      <3>3. CASE d = c
        <4>1. taken'[c] = taken[c] \cup {Head(inbox[c])}
          BY <3>1, <3>3 DEF TypeOK
        <4>2. queue' # Off => Head(inbox[c]) \in ToSet(Shown')
          BY <2>4, <3>3, PushMoves
        <4>3. queue' # Off => queue # Off /\ ToSet(Shown) \subseteq ToSet(Shown')
          BY DEF QueueMoves
        <4>4. Holds(c) => Holds(c)'
          BY <3>1, HoldsStep
        <4> QED
          BY <1>1, <1>b, <3>1, <3>3, <4>1, <4>2, <4>3, <4>4 DEF PumpShows
      <3> QED
        BY <3>2, <3>3
    <2>5. CASE PumpEnds(d)
      <3>1. DropReceiver(d) /\ taken' = taken /\ pump' = [pump EXCEPT ![d] = "ended"] /\ pump[d] = "running"
        BY <2>5 DEF PumpEnds, DropReceiver
      <3>2. CASE d # c
        <4>1. ClientMoves(c)
          BY <3>1, <3>2 DEF ClientMoves
        <4> QED
          BY <1>2, <3>1, <3>2, <4>1 DEF BridgeTypeOK
      <3>3. CASE d = c
        <4>1. pump'[c] = "ended"
          BY <3>1, <3>3 DEF BridgeTypeOK
        <4> QED
          BY <1>1, <1>b, <3>1, <3>3, <4>1 DEF PumpShows
      <3> QED
        BY <3>2, <3>3
    <2> QED
      BY <1>3, <2>1, <2>2, <2>3, <2>4, <2>5 DEF BridgeOwn
  <1>4. CASE Drain \/ Disconnect \/ DisconnectClosed \/ SdkStep \/ UNCHANGED allVars
    <2>1. ClientMoves(c) /\ pump' = pump
      BY <1>4 DEF Drain, Disconnect, DisconnectClosed, SdkStep, bridge, allVars, ClientMoves
    <2>2. taken' = taken
      BY <1>4 DEF Drain, Disconnect, StartClose, DisconnectClosed, EnqueueClose, allVars, vars, SdkStep,
           CallStep, EnqueueSend, EnqueueSubscribe, Enqueue, GotReceiver, Answered, Failed, Closed, TimesOut, Return,
           LoopStep, TakeSend, TakeSubscribe, TakeClose, Written, WriteFails, CloseSent, NoMoreHandles,
           ReadAnswer, ReadEvent, ReadEnd, Finish, DaemonStep, DaemonReads, DaemonTakesEvent, DaemonWrites,
           DaemonEnds, Emit, EmitOverwrites, CutLink
    <2> QED
      BY <1>2, <2>1, <2>2
  <1>5. CASE DisconnectCleans
    <2>1. queue' = Off
      BY <1>5 DEF DisconnectCleans
    <2>2. CASE keyed # NoCall /\ pump[keyed] = "running"
      <3>1. DropReceiver(keyed) /\ taken' = taken /\ pump' = [pump EXCEPT ![keyed] = "aborted"]
            /\ keyed \in Subscribers
        BY <1>5, <2>2 DEF DisconnectCleans, DropReceiver, BridgeTypeOK
      <3>2. CASE keyed # c
        <4>1. ClientMoves(c)
          BY <3>1, <3>2 DEF ClientMoves
        <4> QED
          BY <1>2, <3>1, <3>2, <4>1 DEF BridgeTypeOK
      <3>3. CASE keyed = c
        <4>1. pump'[c] = "aborted"
          BY <3>1, <3>3 DEF BridgeTypeOK
        <4> QED
          BY <1>1, <1>b, <2>2, <3>1, <3>3, <4>1 DEF PumpShows
      <3> QED
        BY <3>2, <3>3
    <2>3. CASE ~(keyed # NoCall /\ pump[keyed] = "running")
      <3>1. ClientMoves(c) /\ pump' = pump /\ taken' = taken
        BY <1>5, <2>3 DEF DisconnectCleans, ClientMoves, vars
      <3> QED
        BY <1>2, <3>1
    <2> QED
      BY <2>2, <2>3
  <1> QED
    BY <1>3, <1>4, <1>5, BridgeSplits

LEMMA KeyGuardsStep ==
  ASSUME BridgeTypeOK, KeyGuards, [BridgeNext]_allVars
  PROVE  KeyGuards'
  <1>1. ASSUME UNCHANGED <<pump, bpc, keyed, overlap>>, disc' = "none" => disc = "none" PROVE KeyGuards'
    BY <1>1 DEF KeyGuards, Pumps, Calling
  <1>2. ASSUME NEW c \in Subscribers, BridgeOwn(c) PROVE KeyGuards'
    <2>1. CASE BSubscribe(c)
      <3>1. /\ keyed = NoCall /\ UNCHANGED <<keyed, pump, disc>> /\ bpc' = [bpc EXCEPT ![c] = "calling"]
            /\ overlap' = IF Calling = {} THEN overlap ELSE overlap \cup Calling \cup {c}
        BY <2>1 DEF BSubscribe, BBecome
      <3>2. Pumps' = Pumps /\ Calling' = Calling \cup {c}
        BY <3>1 DEF Pumps, Calling, BridgeTypeOK
      <3> QED
        BY <3>1, <3>2 DEF KeyGuards
    <2>2. CASE BSubscribeAgain(c) \/ BFails(c)
      <3>1. UNCHANGED <<keyed, pump, disc, overlap>> /\ bpc' = [bpc EXCEPT ![c] = "done"]
        BY <2>2 DEF BSubscribeAgain, BFails, BBecome
      <3>2. Pumps' = Pumps /\ Calling' \subseteq Calling
        BY <3>1 DEF Pumps, Calling, BridgeTypeOK
      <3> QED
        BY <3>1, <3>2 DEF KeyGuards
    <2>3. CASE BSpawn(c)
      <3>1. /\ UNCHANGED <<disc, overlap>> /\ bpc' = [bpc EXCEPT ![c] = "done"] /\ bpc[c] = "calling"
            /\ pump' = [pump EXCEPT ![c] = "running"] /\ keyed' = c
        BY <2>3 DEF BSpawn, BBecome
      <3>2. Pumps' = Pumps \cup {c} /\ Calling' = Calling \ {c} /\ c \in Calling
        BY <3>1 DEF Pumps, Calling, BridgeTypeOK
      <3>3. c # NoCall
        BY ClientAssumption
      <3> QED
        BY <3>1, <3>2, <3>3 DEF KeyGuards
    <2>4. CASE PumpEnds(c)
      <3>1. /\ UNCHANGED <<bpc, keyed, disc, overlap>> /\ pump' = [pump EXCEPT ![c] = "ended"]
            /\ pump[c] = "running"
        BY <2>4 DEF PumpEnds
      <3>2. Pumps' = Pumps /\ Calling' = Calling
        BY <3>1 DEF Pumps, Calling, BridgeTypeOK
      <3> QED
        BY <3>1, <3>2 DEF KeyGuards
    <2>5. CASE PumpPushes(c)
      BY <1>1, <2>5 DEF PumpPushes
    <2> QED
      BY <1>2, <2>1, <2>2, <2>3, <2>4, <2>5 DEF BridgeOwn
  <1>3. CASE Drain \/ SdkStep \/ UNCHANGED allVars
    BY <1>1, <1>3 DEF Drain, SdkStep, bridge, allVars
  <1>4. CASE Disconnect \/ DisconnectClosed \/ DisconnectCleans
    BY <1>4 DEF Disconnect, DisconnectClosed, DisconnectCleans, KeyGuards
  <1> QED
    BY <1>2, <1>3, <1>4, BridgeSplits

-----------------------------------------------------------------------------
BridgeIInv == IInv /\ EventInv /\ BridgeTypeOK /\ BridgeInv

LEMMA BridgeKeeps == BridgeIInv /\ [BridgeNext]_allVars => BridgeIInv' /\ [Next]_vars
  <1> SUFFICES ASSUME BridgeIInv, [BridgeNext]_allVars PROVE BridgeIInv' /\ [Next]_vars
    OBVIOUS
  <1>1. [Next]_vars
    BY BridgeStepsClient DEF BridgeIInv
  <1>2. IInv' /\ TypeOK /\ TypeOK' /\ LoopShape /\ CallInv
    BY <1>1, TypeStep, ShapeStep, CallStepKeeps DEF BridgeIInv, IInv
  <1>3. EventInv'
    BY <1>1, <1>2, EventStep DEF BridgeIInv
  <1>4. BridgeTypeOK' /\ QueueMoves
    BY <1>2, BridgeTypeStep DEF BridgeIInv
  <1>5. KeyGuards'
    BY KeyGuardsStep DEF BridgeIInv, BridgeInv
  <1>6. \A c \in Subscribers : PumpShows(c)'
    BY <1>1, <1>2, <1>4, PumpShowsStep DEF BridgeIInv, BridgeInv
  <1> QED
    BY <1>1, <1>2, <1>3, <1>4, <1>5, <1>6 DEF BridgeIInv, BridgeInv

(* Every reachable state of the composition satisfies the inductive        *)
(* invariants of the client SDK and of the bridge.                         *)
THEOREM BridgeInvariance == BridgeSpec => []BridgeIInv
  <1>1. BridgeInit => BridgeIInv
    BY TypeInit, CallInit, EventInit, BridgeInvInit DEF BridgeInit, BridgeIInv, IInv
  <1> QED
    BY <1>1, BridgeKeeps, PTL DEF BridgeSpec

(* The bridge uses the SDK as a caller may: the composition is a behaviour *)
(* of the SDK, so that all that is proved of the SDK holds in it.          *)
THEOREM BridgeUsesClient == BridgeSpec => Spec
  <1>1. BridgeInit => Init
    BY DEF BridgeInit
  <1> QED
    BY <1>1, BridgeInvariance, BridgeKeeps, PTL DEF BridgeSpec, Spec

(* The variables of the bridge keep their types.                           *)
THEOREM BridgeTypeCorrect == BridgeSpec => []BridgeTypeOK
  <1>1. BridgeIInv => BridgeTypeOK
    BY DEF BridgeIInv
  <1> QED
    BY <1>1, BridgeInvariance, PTL

(* Two pumps for one task come only from two calls that both looked for    *)
(* its entry before either had made it, until the handle is disconnected.  *)
THEOREM SecondPumpOverlapped == BridgeSpec => []PumpsOverlapped
  <1>1. BridgeIInv => PumpsOverlapped
    BY DEF BridgeIInv, BridgeInv, KeyGuards, PumpsOverlapped
  <1> QED
    BY <1>1, BridgeInvariance, PTL

(* From the daemon to the app no event is lost but where a queue overflows *)
(* or a subscription is replaced while a pump runs on a live connection.   *)
THEOREM BridgeMissesNothing == BridgeSpec => []NothingMissed
  <1>1. BridgeIInv => NothingMissed
    <2> SUFFICES ASSUME BridgeIInv, NEW c \in Subscribers, pump[c] = "running", link = "up", queue # Off,
                        NEW e \in (since[c] + 1)..emitted
                 PROVE  e \in ToSet(Shown) \cup ToSet(inbox[c]) \cup missed[c] \cup OnTheWay \cup skipped
      BY DEF NothingMissed
    <2>1. c \in recv /\ taken[c] \subseteq ToSet(Shown)
      BY DEF BridgeIInv, BridgeInv, PumpShows, Holds
    <2>2. Covered(c, e)
      BY <2>1 DEF BridgeIInv, EventInv
    <2> QED
      BY <2>1, <2>2 DEF Covered
  <1> QED
    BY <1>1, BridgeInvariance, PTL

-----------------------------------------------------------------------------
(* One pump shows what it took, in the order in which it took it.          *)
ShownOrder(c) == Pumps \subseteq {c} => Increasing(Shown) /\ ToSet(Shown) \subseteq taken[c]

(* No step but a push touches what is shown, and none of them what a       *)
(* receiver took before.                                                   *)
LEMMA ShownKept ==
  ASSUME TypeOK, BridgeTypeOK, NEW c \in Subscribers, ShownOrder(c), Pumps \subseteq Pumps',
         taken[c] \subseteq taken'[c], Increasing(Shown) => Increasing(Shown'), ToSet(Shown') \subseteq ToSet(Shown)
  PROVE  ShownOrder(c)'
  BY DEF ShownOrder

LEMMA TakenGrows ==
  ASSUME TypeOK, [Next]_vars, NEW c \in Subscribers
  PROVE  /\ taken[c] \subseteq taken'[c]
         /\ (\A d \in Subscribers : ~RecvEvent(d)) => taken' = taken
  <1> USE DEF caller, task, stream, wire, remote
  <1>1. CASE \E d \in Subscribers : RecvEvent(d)
    <2>1. PICK d \in Subscribers : taken' = [taken EXCEPT ![d] = @ \cup {Head(inbox[d])}]
      BY <1>1 DEF RecvEvent
    <2>2. taken'[c] = IF c = d THEN taken[c] \cup {Head(inbox[c])} ELSE taken[c]
      BY <2>1 DEF TypeOK
    <2> QED
      BY <1>1, <2>2
  <1>2. CASE \A d \in Subscribers : ~RecvEvent(d)
    <2>1. taken' = taken
      BY <1>2, NextSplits DEF Start, EnqueueSend, EnqueueSubscribe, Enqueue, GotReceiver, Returns, Answered, Failed, Closed,
         TimesOut, Abandon, Return, Receives, RecvLagged, DropReceiver, StartClose, EnqueueClose,
         DropHandle, TakeSend, TakeSubscribe, TakeClose, Written, Breaks, WriteFails, CloseSent, NoMoreHandles,
         ReadEnd, ReadAnswer, ReadEvent, Finish, DaemonReads, DaemonTakesEvent, DaemonWrites, DaemonEnds, Emit,
         EmitOverwrites, CutLink, vars
    <2> QED
      BY <2>1
  <1> QED
    BY <1>1, <1>2

LEMMA PushExtends ==
  ASSUME TypeOK, BridgeTypeOK, NEW c \in Subscribers, PumpPushes(c), queue # Off
  PROVE  Shown' = Append(Shown, Head(inbox[c])) /\ Shown \in Seq(1..MaxEvents) /\ Head(inbox[c]) \in 1..MaxEvents
  <1> DEFINE E == 1..MaxEvents
             e == Head(inbox[c])
  <1>1. /\ drained' = drained /\ drained \in Seq(E) /\ e \in E
        /\ queue \in Seq(E) /\ queue' = Append(queue, e)
    BY HeadTail DEF PumpPushes, RecvEvent, TypeOK, BridgeTypeOK
  <1>2. queue' # Off
    BY <1>1, EventAppended, NotOff
  <1>3. Shown = drained \o queue /\ Shown' = drained \o Append(queue, e)
    BY <1>1, <1>2 DEF Shown
  <1> HIDE DEF E, e
  <1>4. drained \o Append(queue, e) = Append(drained \o queue, e) /\ drained \o queue \in Seq(E)
    BY <1>1
  <1> QED
    BY <1>1, <1>3, <1>4 DEF E, e

LEMMA DrainKeepsShown == BridgeTypeOK /\ Drain => Shown' = Shown
  <1> SUFFICES ASSUME BridgeTypeOK, Drain PROVE Shown' = Shown
    OBVIOUS
  <1> DEFINE E == 1..MaxEvents
  <1>1. queue # Off /\ queue \in Seq(E) /\ drained \in Seq(E)
    BY DEF Drain, BridgeTypeOK
  <1>2. PICK k \in 1..Len(queue) :
          /\ drained' = drained \o SubSeq(queue, 1, k)
          /\ queue' = SubSeq(queue, k + 1, Len(queue))
    BY DEF Drain
  <1>3. queue' \in Seq(E) /\ queue' # Off
    BY <1>1, <1>2, CutSet, NotOff
  <1> HIDE DEF E
  <1>4. SubSeq(queue, 1, k) \o SubSeq(queue, k + 1, Len(queue)) = queue
    <2>1. 1 \in 1..Len(queue) + 1 /\ k \in (1 - 1)..Len(queue) /\ Len(queue) \in k..Len(queue)
      BY <1>1
    <2> QED
      BY <1>1, <2>1, ConcatAdjacentSubSeq, SubSeqFull
  <1>5. (drained \o SubSeq(queue, 1, k)) \o SubSeq(queue, k + 1, Len(queue))
          = drained \o (SubSeq(queue, 1, k) \o SubSeq(queue, k + 1, Len(queue)))
    <2> DEFINE l == SubSeq(queue, 1, k)
               r == SubSeq(queue, k + 1, Len(queue))
    <2>1. l \in Seq(E) /\ r \in Seq(E) /\ drained \in Seq(E)
      BY <1>1, CutSet
    <2> HIDE DEF l, r
    <2>2. (drained \o l) \o r = drained \o (l \o r)
      BY ONLY <2>1, ConcatAssociative, SMTT(60)
    <2> QED
      BY <2>2 DEF l, r
  <1>6. Shown = drained \o queue /\ Shown' = drained' \o queue'
    BY <1>1, <1>3 DEF Shown
  <1>7. Shown' = (drained \o SubSeq(queue, 1, k)) \o SubSeq(queue, k + 1, Len(queue))
    BY <1>2, <1>6
  <1> QED
    BY <1>4, <1>5, <1>6, <1>7

LEMMA ShownStep ==
  ASSUME TypeOK, BridgeTypeOK, [Next]_vars, [BridgeNext]_allVars, NEW c \in Subscribers,
         ReceiverOrder(c), ShownOrder(c)
  PROVE  ShownOrder(c)'
  <1>t. taken[c] \subseteq taken'[c]
    BY TakenGrows
  <1>1. ASSUME NEW d \in Subscribers, BridgeOwn(d) PROVE ShownOrder(c)'
    <2>1. CASE PumpPushes(d)
      <3>1. Pumps' = Pumps /\ d \in Pumps
        BY <2>1 DEF PumpPushes, Pumps
      <3>2. CASE d # c
        BY <3>1, <3>2 DEF ShownOrder
      <3>3. CASE queue = Off
        <4>1. Shown' = Shown
          BY <2>1, <3>3 DEF PumpPushes, Shown
        <4> QED
          BY <1>t, <3>1, <4>1 DEF ShownOrder
      <3>4. CASE d = c /\ queue # Off
        <4>1. Shown' = Append(Shown, Head(inbox[c])) /\ Shown \in Seq(1..MaxEvents) /\ Head(inbox[c]) \in 1..MaxEvents
          BY <2>1, <3>4, PushExtends
        <4>2. /\ inbox[c] # <<>> /\ inbox[c] \in Seq(1..MaxEvents)
              /\ taken'[c] = taken[c] \cup {Head(inbox[c])}
          BY <2>1, <3>4 DEF PumpPushes, RecvEvent, TypeOK
        <4>3. Before(taken[c], {Head(inbox[c])})
          BY <4>2, TailSet DEF ReceiverOrder, Before
        <4>4. ASSUME Increasing(Shown), ToSet(Shown) \subseteq taken[c] PROVE Increasing(Shown')
          BY <4>1, <4>3, <4>4, IncreasingAppend DEF Before
        <4>5. ToSet(Shown') = ToSet(Shown) \cup {Head(inbox[c])}
          BY <4>1, EventAppended
        <4> QED
          BY <3>1, <4>2, <4>4, <4>5 DEF ShownOrder
      <3> QED
        BY <3>2, <3>3, <3>4
    <2>2. CASE BSubscribe(d) \/ BSubscribeAgain(d) \/ BSpawn(d) \/ BFails(d) \/ PumpEnds(d)
      <3>1. Shown' = Shown
        BY <2>2 DEF BSubscribe, BSubscribeAgain, BSpawn, BFails, PumpEnds, Shown
      <3>2. Pumps \subseteq Pumps'
        BY <2>2 DEF BSubscribe, BSubscribeAgain, BSpawn, BFails, PumpEnds, Pumps, BridgeTypeOK
      <3> QED
        BY <1>t, <3>1, <3>2, ShownKept
    <2> QED
      BY <1>1, <2>1, <2>2 DEF BridgeOwn
  <1>2. CASE Drain
    <2>1. Shown' = Shown /\ Pumps' = Pumps
      BY <1>2, DrainKeepsShown DEF Drain, Pumps
    <2> QED
      BY <1>t, <2>1, ShownKept
  <1>3. CASE Disconnect \/ DisconnectClosed \/ SdkStep \/ UNCHANGED allVars
    <2>1. Shown' = Shown /\ Pumps' = Pumps
      BY <1>3 DEF Disconnect, DisconnectClosed, SdkStep, bridge, allVars, Shown, Pumps
    <2> QED
      BY <1>t, <2>1, ShownKept
  <1>4. CASE DisconnectCleans
    <2>1. /\ queue' = Off /\ drained' = drained
          /\ pump' = pump \/ (keyed \in Subscribers /\ pump' = [pump EXCEPT ![keyed] = "aborted"] /\ pump[keyed] = "running")
      BY <1>4 DEF DisconnectCleans, BridgeTypeOK
    <2>2. Pumps' = Pumps
      BY <2>1 DEF Pumps, BridgeTypeOK
    <2>3. Shown' = drained
      BY <2>1 DEF Shown
    <2>4. (Increasing(Shown) => Increasing(drained)) /\ ToSet(drained) \subseteq ToSet(Shown)
      <3>1. CASE queue = Off
        BY <3>1 DEF Shown
      <3>2. CASE queue # Off
        <4>1. queue \in Seq(1..MaxEvents) /\ drained \in Seq(1..MaxEvents) /\ Shown = drained \o queue
          BY <3>2 DEF BridgeTypeOK, Shown
        <4>2. DOMAIN drained \subseteq DOMAIN Shown /\ \A i \in DOMAIN drained : Shown[i] = drained[i]
          BY <4>1, JoinedHead
        <4> QED
          BY <4>2 DEF Increasing, ToSet
      <3> QED
        BY <3>1, <3>2
    <2> QED
      BY <1>t, <2>2, <2>3, <2>4, ShownKept
  <1> QED
    BY <1>1, <1>2, <1>3, <1>4, BridgeSplits

(* Without a pump nothing comes into the queue.                            *)
NothingShown == Pumps = {} => drained = <<>> /\ queue \in {Off, <<>>}

LEMMA NothingShownStep ==
  ASSUME BridgeTypeOK, NothingShown, [BridgeNext]_allVars
  PROVE  NothingShown'
  <1>1. ASSUME NEW d \in Subscribers, BridgeOwn(d) PROVE NothingShown'
    <2>1. Pumps \subseteq Pumps'
      BY <1>1 DEF BridgeOwn, BSubscribe, BSubscribeAgain, BSpawn, BFails, PumpPushes, PumpEnds, Pumps, BridgeTypeOK
    <2>2. UNCHANGED <<drained, queue>> \/ (d \in Pumps)
      BY <1>1 DEF BridgeOwn, BSubscribe, BSubscribeAgain, BSpawn, BFails, PumpPushes, PumpEnds, Pumps
    <2> QED
      BY <2>1, <2>2 DEF NothingShown
  <1>2. CASE Drain
    BY <1>2 DEF Drain, NothingShown, Pumps
  <1>3. CASE Disconnect \/ DisconnectClosed \/ SdkStep \/ UNCHANGED allVars
    BY <1>3 DEF Disconnect, DisconnectClosed, SdkStep, bridge, allVars, NothingShown, Pumps
  <1>4. CASE DisconnectCleans
    <2>1. /\ queue' = Off /\ drained' = drained
          /\ pump' = pump \/ (keyed \in Subscribers /\ pump' = [pump EXCEPT ![keyed] = "aborted"] /\ pump[keyed] = "running")
      BY <1>4 DEF DisconnectCleans, BridgeTypeOK
    <2>2. Pumps' = Pumps
      BY <2>1 DEF Pumps, BridgeTypeOK
    <2> QED
      BY <2>1, <2>2 DEF NothingShown
  <1> QED
    BY <1>1, <1>2, <1>3, <1>4, BridgeSplits

OrderedInv == BridgeIInv /\ OrderInv /\ NothingShown /\ \A c \in Subscribers : ShownOrder(c)

LEMMA OrderedKeeps == OrderedInv /\ [BridgeNext]_allVars => OrderedInv'
  <1> SUFFICES ASSUME OrderedInv, [BridgeNext]_allVars PROVE OrderedInv'
    OBVIOUS
  <1>1. BridgeIInv' /\ [Next]_vars
    BY BridgeKeeps DEF OrderedInv
  <1>2. OrderInv'
    BY <1>1, OrderStep DEF OrderedInv, BridgeIInv
  <1>3. ASSUME NEW c \in Subscribers PROVE ShownOrder(c)'
    BY <1>1, ShownStep DEF OrderedInv, BridgeIInv, IInv, OrderInv
  <1>4. NothingShown'
    BY NothingShownStep DEF OrderedInv, BridgeIInv
  <1> QED
    BY <1>1, <1>2, <1>3, <1>4 DEF OrderedInv

LEMMA OrderedInit == BridgeInit => OrderedInv
  <1> SUFFICES ASSUME BridgeInit PROVE OrderedInv
    OBVIOUS
  <1>1. BridgeIInv
    BY TypeInit, CallInit, EventInit, BridgeInvInit DEF BridgeInit, BridgeIInv, IInv
  <1>2. OrderInv
    BY OrderInit DEF BridgeInit
  <1>3. queue = <<>> /\ drained = <<>> /\ <<>> \o <<>> = <<>>
    BY DEF BridgeInit
  <1>4. Shown = <<>>
    BY <1>3 DEF Shown
  <1>5. \A c \in Subscribers : ShownOrder(c)
    BY <1>4 DEF ShownOrder, Increasing, ToSet
  <1>6. NothingShown
    BY <1>3 DEF NothingShown
  <1> QED
    BY <1>1, <1>2, <1>5, <1>6 DEF OrderedInv

(* With one pump, what the app is shown comes in the order of the daemon   *)
(* and none of it twice.                                                   *)
THEOREM ShownInTheirOrder == BridgeSpec => []ShownInOrder
  <1>1. OrderedInv => ShownInOrder
    <2> SUFFICES ASSUME OrderedInv, \A c, d \in Pumps : c = d PROVE Increasing(Shown)
      BY DEF ShownInOrder, Increasing
    <2>1. CASE Pumps # {}
      <3>1. PICK c \in Subscribers : c \in Pumps
        BY <2>1 DEF Pumps
      <3> QED
        BY <3>1 DEF OrderedInv, ShownOrder
    <2>2. CASE Pumps = {}
      <3>1. drained = <<>> /\ queue \in {Off, <<>>} /\ <<>> \o <<>> = <<>>
        BY <2>2 DEF OrderedInv, NothingShown
      <3>2. Shown = <<>>
        BY <3>1 DEF Shown
      <3> QED
        BY <3>2 DEF Increasing
    <2> QED
      BY <2>1, <2>2
  <1> QED
    BY <1>1, OrderedInit, OrderedKeeps, PTL DEF BridgeSpec

(* With one pump on a live connection, an event that the app has not seen  *)
(* although it has seen a later one was lost by a full receiver of the     *)
(* client, or dropped by the daemon, whose own receiver had lagged or      *)
(* whose subscription was replaced; and nothing fills the gap.             *)
ShownWithoutGaps ==
    \A c \in Subscribers : pump[c] = "running" /\ Pumps = {c} /\ link = "up" /\ queue # Off =>
        \A f \in ToSet(Shown) : \A e \in (since[c] + 1)..f :
            e \in ToSet(Shown) \cup missed[c] \cup skipped

(* No event is missing from the middle of what the app is shown unless it  *)
(* was named as lost.                                                      *)
THEOREM GapsAreCounted == BridgeSpec => []ShownWithoutGaps
  <1>1. OrderedInv => ShownWithoutGaps
    <2> SUFFICES ASSUME OrderedInv, NEW c \in Subscribers, pump[c] = "running", Pumps = {c}, link = "up",
                        queue # Off, NEW f \in ToSet(Shown), NEW e \in (since[c] + 1)..f
                 PROVE  e \in ToSet(Shown) \cup missed[c] \cup skipped
      BY DEF ShownWithoutGaps
    <2>1. c \in recv /\ taken[c] \subseteq ToSet(Shown)
      BY DEF OrderedInv, BridgeIInv, BridgeInv, PumpShows, Holds
    <2>2. f \in taken[c] /\ f \in 1..emitted
      BY DEF OrderedInv, ShownOrder, OrderInv, ReceiverOrder
    <2>3. since[c] \in Nat /\ emitted \in Nat
      BY ClientAssumption DEF OrderedInv, BridgeIInv, IInv, TypeOK
    <2>4. Covered(c, e)
      <3>1. e \in (since[c] + 1)..emitted
        BY <2>2, <2>3
      <3> QED
        BY <2>1, <3>1 DEF OrderedInv, BridgeIInv, EventInv
    <2>5. ~(f < e)
      BY <2>2, <2>3
    <2>6. e \notin ToSet(inbox[c]) \cup OnTheWay
      BY <2>2, <2>5 DEF OrderedInv, OrderInv, ReceiverOrder, Before
    <2> QED
      BY <2>1, <2>4, <2>6 DEF Covered
  <1> QED
    BY <1>1, OrderedInit, OrderedKeeps, PTL DEF BridgeSpec
=============================================================================
