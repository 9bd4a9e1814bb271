------------------------- MODULE DaemonClientProofs -------------------------
(***************************************************************************)
(* What the client SDK keeps for every set of calls and every capacity,    *)
(* proved with TLAPS: type correctness, that no caller is left behind,     *)
(* that no event is lost silently, and that it implements RequestReply.    *)
(***************************************************************************)
EXTENDS DaemonClient, SequenceTheorems, TLAPS

(* What the two loops have in hand in each of their states.                *)
LoopShape ==
    /\ loop = "writing" <=> inHand # NoCall
    /\ daemon = "writing" <=> dOut # NoFrame
    /\ loop \in {"draining", "over"} => pending = {}
    /\ loop = "over" => cmds = <<>>
    /\ \A c \in Calls : pc[c] \in {"subQueueing", "subWaiting"} => c \in Subscribers

Returns(c) == Answered(c) \/ Failed(c) \/ Closed(c) \/ TimesOut(c) \/ Abandon(c)
Breaks == WriteFails \/ CloseSent \/ NoMoreHandles \/ ReadEnd
Receives(c) == RecvEvent(c) \/ RecvLagged(c) \/ DropReceiver(c)

LEMMA NextSplits ==
  Next => \/ \E c \in Calls : Start(c) \/ EnqueueSend(c) \/ EnqueueSubscribe(c) \/ GotReceiver(c) \/ Returns(c)
          \/ \E c \in Subscribers : Receives(c)
          \/ StartClose \/ EnqueueClose \/ DropHandle
          \/ TakeSend \/ TakeSubscribe \/ TakeClose \/ Written \/ Breaks \/ ReadAnswer \/ ReadEvent \/ Finish
          \/ DaemonReads \/ DaemonTakesEvent \/ DaemonWrites \/ DaemonEnds \/ Emit \/ EmitOverwrites \/ CutLink
  BY DEF Next, CallStep, LoopStep, DaemonStep, Returns, Receives, Breaks

-----------------------------------------------------------------------------
LEMMA HeadTail ==
  ASSUME NEW S, NEW s \in Seq(S), s # <<>>
  PROVE  /\ Head(s) = s[1] /\ Head(s) \in S /\ 1 \in DOMAIN s
         /\ Tail(s) \in Seq(S) /\ Len(Tail(s)) = Len(s) - 1
         /\ \A i \in DOMAIN Tail(s) : i + 1 \in DOMAIN s /\ Tail(s)[i] = s[i + 1]
         /\ \A i \in DOMAIN s : i # 1 => i - 1 \in DOMAIN Tail(s) /\ s[i] = Tail(s)[i - 1]
  OBVIOUS

LEMMA Appended ==
  ASSUME NEW S, NEW s \in Seq(S), NEW e \in S
  PROVE  /\ Append(s, e) \in Seq(S) /\ Len(Append(s, e)) = Len(s) + 1
         /\ DOMAIN Append(s, e) = DOMAIN s \cup {Len(s) + 1} /\ Len(s) + 1 \notin DOMAIN s
         /\ \A i \in DOMAIN s : Append(s, e)[i] = s[i]
         /\ Append(s, e)[Len(s) + 1] = e
  OBVIOUS

LEMMA AppendedFits ==
  ASSUME NEW S, NEW s \in Seq(S), NEW e \in S, NEW cap \in Nat, Len(s) < cap
  PROVE  Append(s, e) \in Seq(S) /\ Len(Append(s, e)) <= cap
  OBVIOUS

LEMMA EmptyFits ==
  ASSUME NEW S, NEW cap \in Nat
  PROVE  <<>> \in Seq(S) /\ Len(<<>>) <= cap
  OBVIOUS

LEMMA Removed ==
  ASSUME NEW S, NEW s \in Seq(S), NEW k \in 1..Len(s)
  PROVE  /\ RemoveAt(s, k) \in Seq(S) /\ Len(RemoveAt(s, k)) = Len(s) - 1
         /\ \A i \in DOMAIN RemoveAt(s, k) :
              RemoveAt(s, k)[i] = IF i < k THEN s[i] ELSE s[i + 1]
  <1> DEFINE p == SubSeq(s, 1, k - 1)
             q == SubSeq(s, k + 1, Len(s))
  <1>0. /\ Len(s) \in Nat /\ k \in Nat /\ 1 <= k /\ k <= Len(s)
        /\ \A i \in 1..Len(s) : s[i] \in S
    OBVIOUS
  <1>1. p \in Seq(S) /\ Len(p) = k - 1 /\ \A i \in 1..(k - 1) : p[i] = s[i]
    <2>1. \A i \in 1..(k - 1) : s[i] \in S /\ 1 + i - 1 = i
      BY <1>0
    <2>2. /\ p \in Seq(S) /\ Len(p) = IF 1 <= k - 1 THEN k - 1 - 1 + 1 ELSE 0
          /\ \A i \in 1..(k - 1 - 1 + 1) : p[i] = s[1 + i - 1]
      BY <1>0, <2>1, SubSeqProperties
    <2> QED
      BY <1>0, <2>1, <2>2
  <1>2. q \in Seq(S) /\ Len(q) = Len(s) - k /\ \A i \in 1..(Len(s) - k) : q[i] = s[k + i]
    <2>1. (\A i \in (k + 1)..Len(s) : s[i] \in S) /\ \A i \in 1..(Len(s) - k) : k + 1 + i - 1 = k + i
      BY <1>0
    <2>2. /\ q \in Seq(S) /\ Len(q) = IF k + 1 <= Len(s) THEN Len(s) - (k + 1) + 1 ELSE 0
          /\ \A i \in 1..(Len(s) - (k + 1) + 1) : q[i] = s[k + 1 + i - 1]
      BY <1>0, <2>1, SubSeqProperties
    <2> QED
      BY <1>0, <2>1, <2>2
  <1>3. RemoveAt(s, k) = p \o q
    BY DEF RemoveAt
  <1> HIDE DEF p, q
  <1>4. /\ p \o q \in Seq(S) /\ Len(p \o q) = Len(p) + Len(q)
        /\ \A i \in 1..(Len(p) + Len(q)) : (p \o q)[i] = IF i <= Len(p) THEN p[i] ELSE q[i - Len(p)]
    BY <1>1, <1>2, ConcatProperties
  <1>5. ASSUME NEW i \in 1..(Len(s) - 1) PROVE (p \o q)[i] = IF i < k THEN s[i] ELSE s[i + 1]
    <2>0. i \in 1..(Len(p) + Len(q))
      BY <1>0, <1>1, <1>2
    <2>1. CASE i < k
      BY <1>0, <1>1, <1>4, <2>0, <2>1
    <2>2. CASE ~(i < k)
      <3>1. i - (k - 1) \in 1..(Len(s) - k) /\ k + (i - (k - 1)) = i + 1 /\ ~(i <= Len(p))
        BY <1>0, <1>1, <2>2
      <3>2. (p \o q)[i] = q[i - (k - 1)]
        BY <1>1, <1>4, <2>0, <3>1
      <3> QED
        BY <1>2, <2>2, <3>1, <3>2
    <2> QED
      BY <2>1, <2>2
  <1>6. Len(p \o q) = Len(s) - 1 /\ DOMAIN (p \o q) = 1..(Len(s) - 1)
    BY <1>0, <1>1, <1>2, <1>4
  <1> QED
    BY <1>3, <1>4, <1>5, <1>6

LEMMA RemovedSet ==
  ASSUME NEW S, NEW s \in Seq(S), NEW k \in 1..Len(s)
  PROVE  ToSet(RemoveAt(s, k)) \subseteq ToSet(s) /\ ToSet(s) \subseteq ToSet(RemoveAt(s, k)) \cup {s[k]}
  <1>0. /\ DOMAIN s = 1..Len(s) /\ Len(s) \in Nat /\ DOMAIN RemoveAt(s, k) = 1..(Len(s) - 1)
        /\ \A i \in 1..(Len(s) - 1) : RemoveAt(s, k)[i] = IF i < k THEN s[i] ELSE s[i + 1]
    BY Removed
  <1>1. ASSUME NEW i \in DOMAIN RemoveAt(s, k) PROVE RemoveAt(s, k)[i] \in ToSet(s)
    BY <1>0 DEF ToSet
  <1>2. ASSUME NEW i \in DOMAIN s, i # k PROVE s[i] \in ToSet(RemoveAt(s, k))
    <2>1. CASE i < k
      BY <1>0, <2>1 DEF ToSet
    <2>2. CASE i > k
      <3>1. i - 1 \in DOMAIN RemoveAt(s, k) /\ RemoveAt(s, k)[i - 1] = s[i]
        BY <1>0, <2>2
      <3> QED
        BY <3>1 DEF ToSet
    <2> QED
      BY <1>0, <1>2, <2>1, <2>2
  <1> QED
    BY <1>1, <1>2 DEF ToSet

LEMMA AppendedSet ==
  ASSUME NEW S, NEW s \in Seq(S), NEW e \in S
  PROVE  ToSet(Append(s, e)) = ToSet(s) \cup {e}
  BY Appended DEF ToSet

LEMMA TailSet ==
  ASSUME NEW S, NEW s \in Seq(S), s # <<>>
  PROVE  ToSet(s) = {Head(s)} \cup ToSet(Tail(s))
  <1>1. ToSet(s) \subseteq {Head(s)} \cup ToSet(Tail(s))
    <2> SUFFICES ASSUME NEW i \in DOMAIN s PROVE s[i] \in {Head(s)} \cup ToSet(Tail(s))
      BY DEF ToSet
    <2>1. CASE i = 1
      BY <2>1, HeadTail
    <2>2. CASE i # 1
      <3>1. i - 1 \in DOMAIN Tail(s) /\ s[i] = Tail(s)[i - 1]
        BY <2>2, HeadTail
      <3> QED
        BY <3>1 DEF ToSet
    <2> QED
      BY <2>1, <2>2
  <1>2. \A i \in DOMAIN Tail(s) : Tail(s)[i] \in ToSet(s)
    BY HeadTail DEF ToSet
  <1>3. Head(s) \in ToSet(s)
    BY HeadTail DEF ToSet
  <1> QED
    BY <1>1, <1>2, <1>3 DEF ToSet

-----------------------------------------------------------------------------
(* Type correctness, by the groups of variables: what an action leaves     *)
(* alone keeps its type.                                                   *)
CallerOK ==
    /\ pc \in [Calls -> {"idle", "subQueueing", "subWaiting", "queueing", "waiting", "done"}]
    /\ slot \in [Calls -> {"none", "open", "receiver", "answer", "error", "lost", "gone"}]
    /\ result \in [Calls -> {"none", "answered", "error", "closed", "timeout", "dropped"}]
    /\ handle \in {"held", "closing", "dropped"}
TaskOK ==
    /\ cmds \in Seq(Cmd) /\ Len(cmds) <= QueueCap
    /\ loop \in {"select", "writing", "closing", "draining", "over"}
    /\ inHand \in Calls \cup {NoCall}
    /\ pending \subseteq Calls /\ casting \in BOOLEAN
StreamOK ==
    /\ recv \subseteq Subscribers /\ lagged \subseteq Subscribers
    /\ inbox \in [Subscribers -> Seq(1..MaxEvents)]
    /\ \A c \in Subscribers : Len(inbox[c]) <= RecvCap
    /\ taken \in [Subscribers -> SUBSET (1..MaxEvents)]
    /\ missed \in [Subscribers -> SUBSET (1..MaxEvents)]
WireOK ==
    /\ up \in Seq(UpFrame) /\ Len(up) <= WireCap
    /\ down \in Seq(DownFrame) /\ Len(down) <= WireCap
    /\ link \in {"up", "cut"}
RemoteOK ==
    /\ daemon \in {"select", "writing", "gone"}
    /\ dOut \in DownFrame \cup {NoFrame}
    /\ backlog = Off \/ (backlog \in Seq(1..MaxEvents) /\ Len(backlog) <= CastCap + PipeCap + 1)
    /\ emitted \in 0..MaxEvents /\ ran \in [Calls -> Nat] /\ skipped \subseteq 1..MaxEvents
    /\ since \in [Subscribers -> 0..MaxEvents]

LEMMA TypeParts == TypeOK <=> CallerOK /\ TaskOK /\ StreamOK /\ WireOK /\ RemoteOK
  BY DEF TypeOK, CallerOK, TaskOK, StreamOK, WireOK, RemoteOK

LEMMA PartsKept ==
  /\ CallerOK /\ UNCHANGED caller => CallerOK'
  /\ TaskOK /\ UNCHANGED task => TaskOK'
  /\ StreamOK /\ UNCHANGED stream => StreamOK'
  /\ WireOK /\ UNCHANGED wire => WireOK'
  /\ RemoteOK /\ UNCHANGED remote => RemoteOK'
  <1>1. CallerOK /\ UNCHANGED caller => CallerOK'
    BY DEF CallerOK, caller
  <1>2. TaskOK /\ UNCHANGED task => TaskOK'
    BY DEF TaskOK, task
  <1>3. StreamOK /\ UNCHANGED stream => StreamOK'
    BY DEF StreamOK, stream
  <1>4. WireOK /\ UNCHANGED wire => WireOK'
    BY DEF WireOK, wire
  <1>5. RemoteOK /\ UNCHANGED remote => RemoteOK'
    BY DEF RemoteOK, remote
  <1> QED
    BY <1>1, <1>2, <1>3, <1>4, <1>5

LEMMA TypeInit == Init => TypeOK /\ LoopShape
  <1> SUFFICES ASSUME Init PROVE TypeOK /\ LoopShape
    OBVIOUS
  <1> USE ClientAssumption DEF Init, NoFrame, Off
  <1>1. \A S : <<>> \in Seq(S) /\ Len(<<>>) = 0
    OBVIOUS
  <1>2. cmds \in Seq(Cmd) /\ up \in Seq(UpFrame) /\ down \in Seq(DownFrame)
        /\ Len(cmds) = 0 /\ Len(up) = 0 /\ Len(down) = 0
    BY <1>1
  <1>3. inbox \in [Subscribers -> Seq(1..MaxEvents)] /\ \A c \in Subscribers : Len(inbox[c]) = 0
    BY <1>1
  <1>4. since \in [Subscribers -> 0..MaxEvents] /\ emitted \in 0..MaxEvents
    OBVIOUS
  <1>5. LoopShape
    BY DEF LoopShape
  <1>6. Len(cmds) <= QueueCap /\ Len(up) <= WireCap /\ Len(down) <= WireCap
        /\ \A c \in Subscribers : Len(inbox[c]) <= RecvCap
    BY <1>2, <1>3
  <1>7. slot \in [Calls -> {"none"}] /\ result \in [Calls -> {"none"}] /\ pc \in [Calls -> {"idle"}]
        /\ ran \in [Calls -> {0}] /\ taken \in [Subscribers -> {{}}] /\ missed \in [Subscribers -> {{}}]
    OBVIOUS
  <1> QED
    BY <1>2, <1>3, <1>4, <1>5, <1>6, <1>7 DEF TypeOK

LEMMA TypeStep ==
  ASSUME TypeOK, LoopShape, [Next]_vars
  PROVE  TypeOK'
  <1> USE ClientAssumption
  <1>p. CallerOK /\ TaskOK /\ StreamOK /\ WireOK /\ RemoteOK
    BY TypeParts
  <1>k. CallerOK' /\ TaskOK' /\ StreamOK' /\ WireOK' /\ RemoteOK' => TypeOK'
    BY DEF TypeOK, CallerOK, TaskOK, StreamOK, WireOK, RemoteOK
  <1>s. /\ UNCHANGED caller => CallerOK'
        /\ UNCHANGED task => TaskOK'
        /\ UNCHANGED stream => StreamOK'
        /\ UNCHANGED wire => WireOK'
        /\ UNCHANGED remote => RemoteOK'
    BY <1>p, PartsKept
  <1>a. /\ cmds \in Seq(Cmd) /\ Len(cmds) <= QueueCap
        /\ up \in Seq(UpFrame) /\ Len(up) <= WireCap /\ down \in Seq(DownFrame) /\ Len(down) <= WireCap
        /\ \A c \in Subscribers : inbox[c] \in Seq(1..MaxEvents) /\ Len(inbox[c]) <= RecvCap
    BY <1>p DEF TaskOK, WireOK, StreamOK
  <1>b. QueueCap \in Nat /\ WireCap \in Nat /\ RecvCap \in Nat
    OBVIOUS
  <1>1. ASSUME NEW c \in Calls, Start(c) \/ GotReceiver(c) PROVE TypeOK'
    <2>1. UNCHANGED <<task, stream, wire, remote>>
      BY <1>1 DEF Start, GotReceiver
    <2>2. CallerOK'
      BY <1>1, <1>p DEF CallerOK, Start, GotReceiver, Become
    <2> QED
      BY <1>k, <1>s, <2>1, <2>2
  <1>2. ASSUME NEW c \in Calls, NEW from, NEW op \in {"send", "subscribe"}, NEW to \in {"waiting", "subWaiting"},
               Enqueue(c, from, op, to), op = "subscribe" => c \in Subscribers
        PROVE  TypeOK'
    <2>1. [op |-> op, call |-> c] \in Cmd
      BY <1>2 DEF Cmd
    <2>2. cmds' \in Seq(Cmd) /\ Len(cmds') <= QueueCap
      <3>1. cmds' = Append(cmds, [op |-> op, call |-> c]) /\ Len(cmds) < QueueCap
        BY <1>2 DEF Enqueue
      <3> QED
        BY <1>a, <1>b, <2>1, <3>1, AppendedFits
    <2>3. UNCHANGED <<stream, wire, remote>>
      BY <1>2 DEF Enqueue
    <2>4. CallerOK'
      BY <1>2, <1>p DEF CallerOK, Enqueue, Become
    <2>5. TaskOK'
      BY <1>2, <1>p, <2>2 DEF TaskOK, Enqueue
    <2> QED
      BY <1>k, <1>s, <2>3, <2>4, <2>5
  <1>3. ASSUME NEW c \in Calls, Returns(c) PROVE TypeOK'
    <2>1. PICK r \in {"answered", "error", "closed", "timeout", "dropped"} : Return(c, r)
      BY <1>3 DEF Returns, Answered, Failed, Closed, TimesOut, Abandon
    <2>2. UNCHANGED <<task, wire, remote>>
      BY <2>1 DEF Return
    <2>3. CallerOK'
      BY <1>p, <2>1 DEF CallerOK, Return, Become
    <2>4. ASSUME NEW s \in Subscribers PROVE inbox'[s] \in Seq(1..MaxEvents) /\ Len(inbox'[s]) <= RecvCap
      <3>1. inbox'[s] = <<>> \/ inbox'[s] = inbox[s]
        BY <2>1 DEF Return
      <3> QED
        BY <1>a, <1>b, <3>1, EmptyFits
    <2>5. inbox' \in [Subscribers -> Seq(1..MaxEvents)]
      BY <2>1, <2>4 DEF Return
    <2>6. StreamOK'
      BY <1>p, <2>1, <2>4, <2>5 DEF StreamOK, Return
    <2> QED
      BY <1>k, <1>s, <2>2, <2>3, <2>6
  <1>4. ASSUME NEW c \in Subscribers, Receives(c) PROVE TypeOK'
    <2>1. UNCHANGED <<caller, task, wire, remote>>
      BY <1>4 DEF Receives, RecvEvent, RecvLagged, DropReceiver
    <2>2. CASE RecvEvent(c)
      <3>1. Head(inbox[c]) \in 1..MaxEvents /\ Tail(inbox[c]) \in Seq(1..MaxEvents) /\ Len(Tail(inbox[c])) <= RecvCap
        <4>1. inbox[c] \in Seq(1..MaxEvents) /\ inbox[c] # <<>> /\ Len(inbox[c]) <= RecvCap
          BY <1>a, <2>2 DEF RecvEvent
        <4>2. Head(inbox[c]) \in 1..MaxEvents /\ Tail(inbox[c]) \in Seq(1..MaxEvents)
              /\ Len(Tail(inbox[c])) = Len(inbox[c]) - 1
          BY <4>1, HeadTail
        <4> QED
          BY <1>b, <4>1, <4>2
      <3>2. StreamOK'
        BY <1>p, <2>2, <3>1 DEF StreamOK, RecvEvent
      <3> QED
        BY <1>k, <1>s, <2>1, <3>2
    <2>3. CASE RecvLagged(c)
      <3>1. StreamOK'
        BY <1>p, <2>3 DEF StreamOK, RecvLagged
      <3> QED
        BY <1>k, <1>s, <2>1, <3>1
    <2>4. CASE DropReceiver(c)
      <3>1. StreamOK'
        BY <1>p, <1>b, <2>4, EmptyFits DEF StreamOK, DropReceiver
      <3> QED
        BY <1>k, <1>s, <2>1, <3>1
    <2> QED
      BY <1>4, <2>2, <2>3, <2>4 DEF Receives
  <1>5. CASE StartClose \/ DropHandle
    <2>1. UNCHANGED <<task, stream, wire, remote>> /\ CallerOK'
      BY <1>5, <1>p DEF CallerOK, StartClose, DropHandle
    <2> QED
      BY <1>k, <1>s, <2>1
  <1>6. CASE EnqueueClose
    <2>1. [op |-> "close", call |-> NoCall] \in Cmd
      BY DEF Cmd
    <2>2. cmds' \in Seq(Cmd) /\ Len(cmds') <= QueueCap
      <3>1. cmds' = cmds \/ (Len(cmds) < QueueCap /\ cmds' = Append(cmds, [op |-> "close", call |-> NoCall]))
        BY <1>6 DEF EnqueueClose
      <3> QED
        BY <1>a, <1>b, <2>1, <3>1, AppendedFits
    <2>3. UNCHANGED <<stream, wire, remote>> /\ CallerOK'
      BY <1>6, <1>p DEF CallerOK, EnqueueClose
    <2>4. TaskOK'
      BY <1>6, <1>p, <2>2 DEF TaskOK, EnqueueClose
    <2> QED
      BY <1>k, <1>s, <2>3, <2>4
  <1>7. ASSUME NEW op \in {"send", "subscribe", "close"}, Take(op)
        PROVE  /\ cmds' \in Seq(Cmd) /\ Len(cmds') <= QueueCap
               /\ Head(cmds).op = op /\ (op # "close" => Head(cmds).call \in Calls)
               /\ (op = "subscribe" => Head(cmds).call \in Subscribers)
    <2>1. cmds # <<>> /\ Head(cmds).op = op /\ cmds' = Tail(cmds)
      BY <1>7 DEF Take
    <2>2. Head(cmds) \in Cmd /\ Tail(cmds) \in Seq(Cmd) /\ Len(Tail(cmds)) = Len(cmds) - 1
      BY <1>a, <2>1, HeadTail
    <2>3. op # "close" => Head(cmds).call \in Calls
      BY <2>1, <2>2 DEF Cmd, Calls
    <2>4. op = "subscribe" => Head(cmds).call \in Subscribers
      BY <2>1, <2>2 DEF Cmd
    <2> QED
      BY <1>a, <1>b, <2>1, <2>2, <2>3, <2>4
  <1>8. CASE TakeSend
    <2>1. UNCHANGED <<caller, stream, wire, remote>> /\ Take("send")
      BY <1>8 DEF TakeSend
    <2>2. TaskOK'
      BY <1>7, <1>8, <1>p, <2>1 DEF TaskOK, TakeSend
    <2> QED
      BY <1>k, <1>s, <2>1, <2>2
  <1>9. CASE TakeSubscribe
    <2>1. UNCHANGED <<wire, remote>> /\ Take("subscribe")
      BY <1>9 DEF TakeSubscribe
    <2>2. Head(cmds).call \in Subscribers
      BY <1>7, <2>1
    <2>3. TaskOK'
      BY <1>7, <1>9, <1>p, <2>1 DEF TaskOK, TakeSubscribe
    <2>4. CallerOK'
      BY <1>9, <1>p DEF CallerOK, TakeSubscribe, Signal
    <2>5. StreamOK'
      BY <1>9, <1>p, <2>2 DEF StreamOK, TakeSubscribe
    <2> QED
      BY <1>k, <1>s, <2>1, <2>3, <2>4, <2>5
  <1>10. CASE TakeClose
    <2>1. UNCHANGED <<caller, stream, wire, remote>> /\ Take("close")
      BY <1>10 DEF TakeClose
    <2>2. TaskOK'
      BY <1>7, <1>10, <1>p, <2>1 DEF TaskOK, TakeClose
    <2> QED
      BY <1>k, <1>s, <2>1, <2>2
  <1>11. CASE Written
    <2>1. inHand \in Calls /\ [kind |-> "request", call |-> inHand] \in UpFrame
      <3>1. inHand # NoCall /\ inHand \in Calls \cup {NoCall}
        BY <1>11, <1>p DEF LoopShape, Written, TaskOK
      <3> QED
        BY <3>1 DEF UpFrame
    <2>2. up' \in Seq(UpFrame) /\ Len(up') <= WireCap
      <3>1. up' = up \/ (Len(up) < WireCap /\ up' = Append(up, [kind |-> "request", call |-> inHand]))
        BY <1>11 DEF Written
      <3> QED
        BY <1>a, <1>b, <2>1, <3>1, AppendedFits
    <2>3. UNCHANGED <<caller, stream, remote>>
      BY <1>11 DEF Written
    <2>4. TaskOK'
      BY <1>11, <1>p DEF TaskOK, Written
    <2>5. WireOK'
      BY <1>11, <1>p, <2>2 DEF WireOK, Written
    <2> QED
      BY <1>k, <1>s, <2>3, <2>4, <2>5
  <1>12. CASE Breaks
    <2>1. [kind |-> "close", call |-> NoCall] \in UpFrame
      BY DEF UpFrame
    <2>2. /\ UNCHANGED <<pc, result, handle, cmds, casting, stream, down, link, remote>> /\ Break
          /\ up' = up \/ (Len(up) < WireCap /\ up' = Append(up, [kind |-> "close", call |-> NoCall]))
      BY <1>12 DEF Breaks, WriteFails, CloseSent, NoMoreHandles, ReadEnd, wire
    <2>3. up' \in Seq(UpFrame) /\ Len(up') <= WireCap
      BY <1>a, <1>b, <2>1, <2>2, AppendedFits
    <2>4. CallerOK'
      BY <1>p, <2>2 DEF CallerOK, Break, Signal
    <2>5. TaskOK'
      BY <1>p, <2>2 DEF TaskOK, Break
    <2>6. WireOK'
      BY <1>p, <2>2, <2>3 DEF WireOK
    <2> QED
      BY <1>k, <1>s, <2>2, <2>4, <2>5, <2>6
  <1>13. ASSUME NEW kind, Read(kind)
         PROVE  /\ down' \in Seq(DownFrame) /\ Len(down') <= WireCap
                /\ Head(down) \in DownFrame /\ Head(down).kind = kind
    BY <1>13, <1>a, <1>b, HeadTail DEF Read
  <1>14. CASE ReadAnswer
    <2>1. UNCHANGED <<pc, result, handle, cmds, loop, inHand, casting, stream, up, link, remote>> /\ Read("answer")
      BY <1>14 DEF ReadAnswer
    <2>2. CallerOK'
      BY <1>14, <1>p DEF CallerOK, ReadAnswer, Signal
    <2>3. TaskOK'
      BY <1>14, <1>p, <2>1 DEF TaskOK, ReadAnswer
    <2>4. WireOK'
      BY <1>13, <1>p, <2>1 DEF WireOK
    <2> QED
      BY <1>k, <1>s, <2>1, <2>2, <2>3, <2>4
  <1>15. CASE ReadEvent
    <2>1. Head(down).seq \in 1..MaxEvents
      BY <1>13, <1>15 DEF ReadEvent, DownFrame
    <2>2. ASSUME NEW c \in Subscribers
          PROVE  /\ inbox'[c] \in Seq(1..MaxEvents) /\ Len(inbox'[c]) <= RecvCap
                 /\ missed'[c] \in SUBSET (1..MaxEvents)
      <3>0. missed[c] \in SUBSET (1..MaxEvents)
        BY <1>p DEF StreamOK
      <3>2. CASE c \in recv /\ Len(inbox[c]) >= RecvCap
        <4>1. inbox[c] # <<>> /\ Len(inbox[c]) = RecvCap
          BY <1>a, <1>b, <3>2
        <4>2. Head(inbox[c]) \in 1..MaxEvents /\ Tail(inbox[c]) \in Seq(1..MaxEvents)
              /\ Len(Tail(inbox[c])) = RecvCap - 1
          BY <1>a, <4>1, HeadTail
        <4>3. Append(Tail(inbox[c]), Head(down).seq) \in Seq(1..MaxEvents)
              /\ Len(Append(Tail(inbox[c]), Head(down).seq)) = RecvCap
          BY <1>b, <2>1, <4>2, Appended
        <4>4. inbox'[c] = Append(Tail(inbox[c]), Head(down).seq) /\ missed'[c] = missed[c] \cup {Head(inbox[c])}
          BY <1>15, <3>2 DEF ReadEvent
        <4> QED
          BY <1>b, <3>0, <4>2, <4>3, <4>4
      <3>3. CASE ~(c \in recv /\ Len(inbox[c]) >= RecvCap)
        <4>1. inbox'[c] = (IF c \in recv THEN Append(inbox[c], Head(down).seq) ELSE inbox[c]) /\ missed'[c] = missed[c]
          BY <1>15, <3>3 DEF ReadEvent
        <4>2. c \in recv => Len(inbox[c]) < RecvCap
          BY <1>a, <1>b, <3>3
        <4>3. CASE c \in recv
          <5>1. inbox[c] \in Seq(1..MaxEvents)
            BY <1>a
          <5>2. Append(inbox[c], Head(down).seq) \in Seq(1..MaxEvents)
                /\ Len(Append(inbox[c], Head(down).seq)) <= RecvCap
            BY <1>b, <2>1, <4>2, <4>3, <5>1, AppendedFits
          <5> QED
            BY <3>0, <4>1, <4>3, <5>2
        <4>4. CASE c \notin recv
          BY <1>a, <3>0, <4>1, <4>4
        <4> QED
          BY <4>3, <4>4
      <3> QED
        BY <3>2, <3>3
    <2>3. inbox' \in [Subscribers -> Seq(1..MaxEvents)] /\ missed' \in [Subscribers -> SUBSET (1..MaxEvents)]
      BY <1>15, <2>2 DEF ReadEvent
    <2>4. UNCHANGED <<caller, task, recv, taken, up, link, remote>> /\ Read("event")
          /\ lagged' \subseteq lagged \cup Subscribers
      BY <1>15 DEF ReadEvent
    <2>5. StreamOK'
      BY <1>p, <2>2, <2>3, <2>4 DEF StreamOK
    <2>6. WireOK'
      BY <1>13, <1>p, <2>4 DEF WireOK
    <2> QED
      BY <1>k, <1>s, <2>4, <2>5, <2>6
  <1>16. CASE Finish
    <2>1. UNCHANGED <<pc, result, handle, inHand, pending, stream, up, down, remote>>
      BY <1>16 DEF Finish
    <2>2. cmds' \in Seq(Cmd) /\ Len(cmds') <= QueueCap
      BY <1>16, <1>b, EmptyFits DEF Finish
    <2>3. CallerOK'
      BY <1>16, <1>p DEF CallerOK, Finish, Signal
    <2>4. TaskOK'
      BY <1>16, <1>p, <2>2 DEF TaskOK, Finish
    <2>5. WireOK'
      BY <1>16, <1>p DEF WireOK, Finish
    <2> QED
      BY <1>k, <1>s, <2>1, <2>3, <2>4, <2>5
  <1>17. CASE DaemonReads
    <2>1. Head(up) \in UpFrame /\ up' \in Seq(UpFrame) /\ Len(up') <= WireCap
      BY <1>17, <1>a, <1>b, HeadTail DEF DaemonReads
    <2>2. Head(up).call \in Calls /\ dOut' \in DownFrame
      BY <1>17, <2>1 DEF DaemonReads, UpFrame, DownFrame
    <2>0. /\ skipped \subseteq 1..MaxEvents /\ emitted \in 0..MaxEvents /\ since \in [Subscribers -> 0..MaxEvents]
          /\ backlog = Off \/ (backlog \in Seq(1..MaxEvents) /\ Len(backlog) <= CastCap + PipeCap + 1)
          /\ ran \in [Calls -> Nat]
      BY <1>p DEF RemoteOK
    <2>3. /\ backlog' = Off \/ (backlog' \in Seq(1..MaxEvents) /\ Len(backlog') <= CastCap + PipeCap + 1)
          /\ skipped' \subseteq 1..MaxEvents
          /\ since' \in [Subscribers -> 0..MaxEvents]
      <3>1. CASE Head(up).call \in Subscribers
        <4>1. PICK k \in 0..Len(backlog) :
                /\ backlog' = IF backlog = Off THEN <<>> ELSE SubSeq(backlog, 1, k)
                /\ skipped' = skipped \cup IF backlog = Off THEN {} ELSE {backlog[i] : i \in (k + 1)..Len(backlog)}
                /\ since' = [since EXCEPT ![Head(up).call] = emitted]
          BY <1>17, <3>1 DEF DaemonReads, Piped
        <4>2. CASE backlog = Off
          <5>1. <<>> \in Seq(1..MaxEvents) /\ Len(<<>>) <= CastCap + PipeCap + 1
            BY EmptyFits
          <5> QED
            BY <2>0, <4>1, <4>2, <5>1
        <4>3. CASE backlog # Off
          <5>1. backlog \in Seq(1..MaxEvents) /\ Len(backlog) <= CastCap + PipeCap + 1
            BY <2>0, <4>3
          <5>2. /\ SubSeq(backlog, 1, k) \in Seq(1..MaxEvents) /\ Len(SubSeq(backlog, 1, k)) <= CastCap + PipeCap + 1
                /\ \A i \in (k + 1)..Len(backlog) : backlog[i] \in 1..MaxEvents
            BY <5>1
          <5> QED
            BY <2>0, <4>1, <4>3, <5>2
        <4> QED
          BY <4>2, <4>3
      <3>2. CASE Head(up).call \notin Subscribers
        BY <1>17, <2>0, <3>2 DEF DaemonReads
      <3> QED
        BY <3>1, <3>2
    <2>4. /\ ran' = [ran EXCEPT ![Head(up).call] = @ + 1] /\ daemon' = "writing"
          /\ UNCHANGED <<caller, task, stream, down, link, emitted>>
      BY <1>17 DEF DaemonReads
    <2>5. ran' \in [Calls -> Nat]
      BY <2>0, <2>2, <2>4
    <2>6. WireOK'
      BY <1>p, <2>1, <2>4 DEF WireOK
    <2>7. RemoteOK'
      BY <2>0, <2>2, <2>3, <2>4, <2>5 DEF RemoteOK
    <2> QED
      BY <1>k, <1>s, <2>4, <2>6, <2>7
  <1>18. CASE DaemonTakesEvent
    <2>0. backlog \in Seq(1..MaxEvents) /\ backlog # <<>> /\ Len(backlog) <= CastCap + PipeCap + 1
      BY <1>18, <1>p DEF DaemonTakesEvent, RemoteOK
    <2>1. Head(backlog) \in 1..MaxEvents /\ backlog' \in Seq(1..MaxEvents) /\ Len(backlog') <= CastCap + PipeCap + 1
      BY <1>18, <2>0, HeadTail DEF DaemonTakesEvent
    <2>2. dOut' \in DownFrame
      BY <1>18, <2>1 DEF DaemonTakesEvent, DownFrame
    <2>3. UNCHANGED <<caller, task, stream, wire>>
      BY <1>18 DEF DaemonTakesEvent
    <2>4. RemoteOK'
      BY <1>18, <1>p, <2>1, <2>2 DEF RemoteOK, DaemonTakesEvent
    <2> QED
      BY <1>k, <1>s, <2>3, <2>4
  <1>19. CASE DaemonWrites
    <2>1. dOut \in DownFrame
      BY <1>19, <1>p DEF DaemonWrites, LoopShape, RemoteOK
    <2>2. down' \in Seq(DownFrame) /\ Len(down') <= WireCap
      <3>1. Len(down) < WireCap /\ down' = Append(down, dOut)
        BY <1>19 DEF DaemonWrites
      <3> QED
        BY <1>a, <1>b, <2>1, <3>1, AppendedFits
    <2>3. UNCHANGED <<caller, task, stream>>
      BY <1>19 DEF DaemonWrites
    <2>4. WireOK'
      BY <1>19, <1>p, <2>2 DEF WireOK, DaemonWrites
    <2>5. RemoteOK'
      BY <1>19, <1>p DEF RemoteOK, DaemonWrites
    <2> QED
      BY <1>k, <1>s, <2>3, <2>4, <2>5
  <1>20. CASE DaemonEnds
    <2>1. UNCHANGED <<caller, task, stream>>
      BY <1>20 DEF DaemonEnds
    <2>2. WireOK'
      BY <1>20, <1>p DEF WireOK, DaemonEnds
    <2>3. RemoteOK'
      BY <1>20, <1>p DEF RemoteOK, DaemonEnds
    <2> QED
      BY <1>k, <1>s, <2>1, <2>2, <2>3
  <1>21. CASE Emit \/ EmitOverwrites
    <2>0. /\ backlog \in Seq(1..MaxEvents) /\ Len(backlog) <= CastCap + PipeCap + 1
          /\ emitted \in 0..MaxEvents /\ emitted' = emitted + 1 /\ emitted + 1 \in 1..MaxEvents
      BY <1>21, <1>p DEF RemoteOK, Emit, EmitOverwrites
    <2>1. UNCHANGED <<caller, task, stream, wire>> /\ UNCHANGED <<daemon, dOut, ran, since>>
      BY <1>21 DEF Emit, EmitOverwrites
    <2>2. /\ backlog' \in Seq(1..MaxEvents) /\ Len(backlog') <= CastCap + PipeCap + 1
          /\ skipped' \subseteq 1..MaxEvents
      <3>0. skipped \subseteq 1..MaxEvents
        BY <1>p DEF RemoteOK
      <3>1. CASE Emit
        <4>1. backlog' = Append(backlog, emitted + 1) /\ Len(backlog) <= CastCap + PipeCap /\ skipped' = skipped
          BY <3>1 DEF Emit
        <4> QED
          BY <2>0, <3>0, <4>1, Appended
      <3>2. CASE EmitOverwrites
        <4> DEFINE k == Len(backlog) - CastCap + 1
        <4>1. /\ k \in 1..Len(backlog) /\ skipped' = skipped \cup {backlog[k]}
              /\ backlog' = Append(RemoveAt(backlog, k), emitted + 1)
          BY <2>0, <3>2 DEF EmitOverwrites
        <4> HIDE DEF k
        <4>2. RemoveAt(backlog, k) \in Seq(1..MaxEvents) /\ Len(RemoveAt(backlog, k)) = Len(backlog) - 1
          BY <2>0, <4>1, Removed
        <4>3. backlog[k] \in 1..MaxEvents
          BY <2>0, <4>1
        <4>4. backlog' \in Seq(1..MaxEvents) /\ Len(backlog') = Len(RemoveAt(backlog, k)) + 1
          BY <2>0, <4>1, <4>2, Appended
        <4>5. Len(backlog') <= CastCap + PipeCap + 1
          <5>1. Len(backlog') = Len(backlog)
            BY <2>0, <4>2, <4>4
          <5> QED
            BY <2>0, <5>1
        <4> QED
          BY <3>0, <4>1, <4>3, <4>4, <4>5
      <3> QED
        BY <1>21, <3>1, <3>2
    <2>4. RemoteOK'
      BY <1>p, <2>0, <2>1, <2>2 DEF RemoteOK
    <2> QED
      BY <1>k, <1>s, <2>1, <2>4
  <1>22. CASE CutLink
    <2>1. /\ up' \in Seq(UpFrame) /\ Len(up') <= WireCap
          /\ down' \in Seq(DownFrame) /\ Len(down') <= WireCap
      <3>1. up' = <<>> /\ (down' = down \/ down' = <<>>)
        BY <1>22 DEF CutLink
      <3> QED
        BY <1>a, <1>b, <3>1, EmptyFits
    <2>2. UNCHANGED <<caller, task, stream, remote>>
      BY <1>22 DEF CutLink
    <2>3. WireOK'
      BY <1>22, <2>1 DEF WireOK, CutLink
    <2> QED
      BY <1>k, <1>s, <2>2, <2>3
  <1>23. CASE UNCHANGED vars
    BY <1>k, <1>s, <1>23 DEF vars
  <1>24. ASSUME NEW c \in Calls, EnqueueSend(c) \/ EnqueueSubscribe(c) PROVE TypeOK'
    <2>1. CASE EnqueueSend(c)
      BY <1>2, <2>1 DEF EnqueueSend
    <2>2. CASE EnqueueSubscribe(c)
      <3>1. c \in Subscribers
        BY <2>2 DEF EnqueueSubscribe, Enqueue, LoopShape
      <3> QED
        BY <1>2, <2>2, <3>1 DEF EnqueueSubscribe
    <2> QED
      BY <1>24, <2>1, <2>2
  <1> QED
    BY <1>1, <1>3, <1>4, <1>5, <1>6, <1>8, <1>9, <1>10, <1>11, <1>12, <1>14, <1>15, <1>16, <1>17,
       <1>18, <1>19, <1>20, <1>21, <1>22, <1>23, <1>24, NextSplits

LEMMA ShapeStep ==
  ASSUME TypeOK, TypeOK', LoopShape, [Next]_vars
  PROVE  LoopShape'
  <1> USE ClientAssumption
  <1> USE DEF caller, task, stream, wire, remote, Become, Signal, LoopShape
  <1>1. ASSUME NEW c \in Calls, Start(c) \/ GotReceiver(c) PROVE LoopShape'
    BY <1>1 DEF TypeOK, Start, GotReceiver
  <1>2. ASSUME NEW c \in Calls, EnqueueSend(c) \/ EnqueueSubscribe(c) PROVE LoopShape'
    <2>1. /\ loop # "over" /\ UNCHANGED <<loop, inHand, pending, daemon, dOut>>
          /\ pc' = [pc EXCEPT ![c] = pc'[c]]
          /\ pc'[c] = "subWaiting" => pc[c] = "subQueueing"
          /\ pc'[c] # "subQueueing"
      <3>1. CASE EnqueueSend(c)
        BY <3>1, TypeParts DEF CallerOK, EnqueueSend, Enqueue
      <3>2. CASE EnqueueSubscribe(c)
        BY <3>2, TypeParts DEF CallerOK, EnqueueSubscribe, Enqueue
      <3> QED
        BY <1>2, <3>1, <3>2
    <2> QED
      BY <2>1, TypeParts DEF CallerOK
  <1>3. ASSUME NEW c \in Calls, Returns(c) PROVE LoopShape'
    <2>1. PICK r : Return(c, r)
      BY <1>3 DEF Returns, Answered, Failed, Closed, TimesOut, Abandon
    <2> QED
      BY <2>1 DEF TypeOK, Return
  <1>4. ASSUME NEW c \in Subscribers, Receives(c) PROVE LoopShape'
    BY <1>4 DEF Receives, RecvEvent, RecvLagged, DropReceiver
  <1>5. CASE StartClose \/ EnqueueClose \/ DropHandle
    BY <1>5 DEF StartClose, EnqueueClose, DropHandle
  <1>6. CASE TakeSend \/ TakeSubscribe \/ TakeClose
    <2>1. TakeSend => Head(cmds).call \in Calls
      BY HeadTail DEF TypeOK, Take, TakeSend, Cmd
    <2> QED
      BY <1>6, <2>1 DEF TakeSend, TakeSubscribe, TakeClose, Take, Calls
  <1>7. CASE Written \/ Breaks
    BY <1>7 DEF Written, Breaks, Break, WriteFails, CloseSent, NoMoreHandles, ReadEnd
  <1>8. CASE ReadAnswer \/ ReadEvent \/ Finish
    BY <1>8 DEF ReadAnswer, ReadEvent, Read, Finish
  <1>9. CASE DaemonReads
    <2>1. /\ dOut' = [kind |-> "answer", call |-> Head(up).call] /\ daemon' = "writing"
          /\ UNCHANGED <<caller, task>>
      BY <1>9 DEF DaemonReads
    <2> QED
      BY <2>1 DEF NoFrame
  <1>10. CASE DaemonTakesEvent \/ DaemonWrites \/ DaemonEnds
    BY <1>10 DEF DaemonTakesEvent, DaemonWrites, DaemonEnds, NoFrame
  <1>11. CASE Emit \/ EmitOverwrites \/ CutLink
    BY <1>11 DEF Emit, EmitOverwrites, CutLink
  <1>12. CASE UNCHANGED vars
    BY <1>12 DEF vars
  <1> QED
    BY <1>1, <1>2, <1>3, <1>4, <1>5, <1>6, <1>7, <1>8, <1>9, <1>10, <1>11, <1>12, NextSplits

-----------------------------------------------------------------------------
(* Where the command and the request of a call can be.                     *)
Has(s, m) == \E k \in DOMAIN s : s[k] = m
Distinct(s, K) == \A i, j \in DOMAIN s : s[i] = s[j] /\ s[i] \in K => i = j

SendCmd(c) == [op |-> "send", call |-> c]
SubscribeCmd(c) == [op |-> "subscribe", call |-> c]
RequestFrame(c) == [kind |-> "request", call |-> c]
CallCmds == {SendCmd(c) : c \in Calls} \cup {SubscribeCmd(c) : c \in Calls}
RequestFrames == {RequestFrame(c) : c \in Calls}

Queued(c) == Has(cmds, SendCmd(c))
Asks(c) == Has(cmds, SubscribeCmd(c))
Flying(c) == Has(up, RequestFrame(c))
Travels(c) == Queued(c) \/ inHand = c \/ Flying(c)

(* There is one copy of it.                                                *)
OneCopy ==
    /\ Distinct(cmds, CallCmds) /\ Distinct(up, RequestFrames)
    /\ \A c \in Calls : ~(Queued(c) /\ inHand = c) /\ ~(Queued(c) /\ Flying(c)) /\ ~(inHand = c /\ Flying(c))

(* What a call can conclude from where it is and what it was told.         *)
Knows(c) ==
    /\ pc[c] \in {"idle", "subQueueing", "subWaiting", "queueing"} => ~Travels(c) /\ ran[c] = 0
    /\ Travels(c) => ran[c] = 0
    /\ ran[c] <= 1
    /\ result[c] \in {"closed", "dropped"} \/ slot[c] = "lost" => ~Travels(c) /\ ran[c] = 0
    /\ slot[c] = "answer" => ran[c] = 1
    /\ Asks(c) => pc[c] \in {"subWaiting", "done"} /\ slot[c] # "receiver"
    /\ result[c] = "none" <=> pc[c] # "done"
    /\ pc[c] = "done" => slot[c] = "gone"
CallKnows == \A c \in Calls : Knows(c)

AnswersAreRun ==
    /\ \A k \in DOMAIN down : down[k].kind = "answer" => ran[down[k].call] = 1
    /\ dOut.kind = "answer" => ran[dOut.call] = 1

(* Someone holds the sending end of every oneshot a caller waits on: the   *)
(* queue does, or the map of pending requests.                             *)
WaiterIsHeld == \A c \in Calls : slot[c] = "open" => Commanded(c) \/ c \in pending

LEMMA HasTail ==
  ASSUME NEW S, NEW s \in Seq(S), s # <<>>, NEW K
  PROVE  /\ \A m : Has(s, m) <=> m = Head(s) \/ Has(Tail(s), m)
         /\ Distinct(s, K) => Distinct(Tail(s), K) /\ (Head(s) \in K => ~Has(Tail(s), Head(s)))
  <1>1. ASSUME NEW m, Has(s, m) PROVE m = Head(s) \/ Has(Tail(s), m)
    BY <1>1, HeadTail DEF Has
  <1>2. ASSUME NEW m, m = Head(s) \/ Has(Tail(s), m) PROVE Has(s, m)
    BY <1>2, HeadTail DEF Has
  <1>3. ASSUME Distinct(s, K) PROVE Distinct(Tail(s), K) /\ (Head(s) \in K => ~Has(Tail(s), Head(s)))
    <2>1. ASSUME NEW i \in DOMAIN Tail(s), NEW j \in DOMAIN Tail(s), Tail(s)[i] = Tail(s)[j], Tail(s)[i] \in K
          PROVE  i = j
      <3>1. i + 1 = j + 1
        BY <1>3, <2>1, HeadTail DEF Distinct
      <3> QED
        BY <3>1, HeadTail
    <2>2. ASSUME Head(s) \in K, NEW i \in DOMAIN Tail(s), Tail(s)[i] = Head(s) PROVE FALSE
      <3>1. 1 = i + 1
        BY <1>3, <2>2, HeadTail DEF Distinct
      <3> QED
        BY <3>1, HeadTail
    <2> QED
      BY <2>1, <2>2 DEF Distinct, Has
  <1> QED
    BY <1>1, <1>2, <1>3

LEMMA HasAppend ==
  ASSUME NEW S, NEW s \in Seq(S), NEW e \in S, NEW K
  PROVE  /\ \A m : Has(Append(s, e), m) <=> m = e \/ Has(s, m)
         /\ Distinct(s, K) /\ (e \in K => ~Has(s, e)) => Distinct(Append(s, e), K)
  BY Appended DEF Has, Distinct

LEMMA HasNone == \A m, K : ~Has(<<>>, m) /\ Distinct(<<>>, K)
  BY DEF Has, Distinct

LEMMA CommandedIs ==
  ASSUME TypeOK, NEW c \in Calls
  PROVE  Commanded(c) <=> Queued(c) \/ Asks(c)
  <1>1. ASSUME Commanded(c) PROVE Queued(c) \/ Asks(c)
    <2>1. PICK k \in DOMAIN cmds : cmds[k].call = c
      BY <1>1 DEF Commanded
    <2>2. cmds[k] \in Cmd
      BY DEF TypeOK
    <2>3. cmds[k] = SendCmd(c) \/ cmds[k] = SubscribeCmd(c)
      BY <2>1, <2>2, ClientAssumption DEF Cmd, Calls, SendCmd, SubscribeCmd
    <2> QED
      BY <2>3 DEF Queued, Asks, Has
  <1>2. Queued(c) \/ Asks(c) => Commanded(c)
    BY DEF Queued, Asks, Has, SendCmd, SubscribeCmd, Commanded
  <1> QED
    BY <1>1, <1>2

CallInv == OneCopy /\ CallKnows /\ AnswersAreRun /\ WaiterIsHeld

(* How a command queue and a socket look after a step on them.             *)
LEMMA CmdAppended ==
  ASSUME TypeOK, OneCopy, NEW c \in Calls, NEW m \in {SendCmd(c), SubscribeCmd(c)}, m \in Cmd,
         ~Has(cmds, m), cmds' = Append(cmds, m)
  PROVE  /\ Distinct(cmds', CallCmds)
         /\ \A x \in Calls : /\ Queued(x)' <=> (Queued(x) \/ m = SendCmd(x))
                             /\ Asks(x)' <=> (Asks(x) \/ m = SubscribeCmd(x))
  <1>1. cmds \in Seq(Cmd) /\ Distinct(cmds, CallCmds)
    BY DEF TypeOK, OneCopy
  <1>2. Distinct(cmds', CallCmds) /\ \A x : Has(cmds', x) <=> x = m \/ Has(cmds, x)
    BY <1>1, HasAppend
  <1>3. ASSUME NEW x \in Calls
        PROVE  /\ Queued(x)' <=> (Queued(x) \/ m = SendCmd(x))
               /\ Asks(x)' <=> (Asks(x) \/ m = SubscribeCmd(x))
    BY <1>2 DEF Queued, Asks, SendCmd, SubscribeCmd
  <1> QED
    BY <1>2, <1>3 DEF Queued, Asks, SendCmd, SubscribeCmd

LEMMA CmdTaken ==
  ASSUME TypeOK, OneCopy, NEW op, Take(op)
  PROVE  /\ Distinct(cmds', CallCmds)
         /\ \A x \in Calls : /\ Queued(x)' <=> (Queued(x) /\ Head(cmds) # SendCmd(x))
                             /\ Asks(x)' <=> (Asks(x) /\ Head(cmds) # SubscribeCmd(x))
         /\ Head(cmds) \in Cmd /\ Head(cmds).op = op
         /\ \A x \in Calls : /\ Head(cmds) = SendCmd(x) => Queued(x)
                             /\ Head(cmds) = SubscribeCmd(x) => Asks(x)
  <1>1. cmds \in Seq(Cmd) /\ cmds # <<>> /\ cmds' = Tail(cmds)
    BY DEF TypeOK, Take
  <1>2. Head(cmds) \in Cmd
    BY <1>1, HeadTail
  <1>3. /\ \A m : Has(cmds, m) <=> m = Head(cmds) \/ Has(cmds', m)
        /\ Distinct(cmds', CallCmds) /\ (Head(cmds) \in CallCmds => ~Has(cmds', Head(cmds)))
    BY <1>1, HasTail DEF OneCopy
  <1>4. ASSUME NEW x \in Calls
        PROVE  /\ Queued(x)' <=> (Queued(x) /\ Head(cmds) # SendCmd(x))
               /\ Asks(x)' <=> (Asks(x) /\ Head(cmds) # SubscribeCmd(x))
               /\ Head(cmds) = SendCmd(x) => Queued(x)
               /\ Head(cmds) = SubscribeCmd(x) => Asks(x)
    <2>1. SendCmd(x) \in CallCmds /\ SubscribeCmd(x) \in CallCmds
      BY DEF CallCmds
    <2>2. Has(cmds', SendCmd(x)) <=> Has(cmds, SendCmd(x)) /\ Head(cmds) # SendCmd(x)
      BY <1>3, <2>1
    <2>3. Has(cmds', SubscribeCmd(x)) <=> Has(cmds, SubscribeCmd(x)) /\ Head(cmds) # SubscribeCmd(x)
      BY <1>3, <2>1
    <2> QED
      BY <1>3, <2>2, <2>3 DEF Queued, Asks, SendCmd, SubscribeCmd
  <1> QED
    BY <1>2, <1>3, <1>4 DEF Take, Queued, Asks, SendCmd, SubscribeCmd

LEMMA HeadIs ==
  ASSUME TypeOK, NEW op, Take(op)
  PROVE  /\ op = "send" => Head(cmds).call \in Calls /\ Head(cmds) = SendCmd(Head(cmds).call)
         /\ op = "subscribe" => Head(cmds).call \in Subscribers /\ Head(cmds) = SubscribeCmd(Head(cmds).call)
         /\ op = "close" => Head(cmds) = [op |-> "close", call |-> NoCall]
  <1>1. Head(cmds) \in Cmd /\ Head(cmds).op = op
    BY HeadTail DEF TypeOK, Take
  <1> QED
    BY <1>1 DEF Cmd, SendCmd, SubscribeCmd

LEMMA Records ==
  \A x, y \in Calls : /\ SendCmd(x) = SendCmd(y) => x = y
                      /\ SubscribeCmd(x) = SubscribeCmd(y) => x = y
                      /\ RequestFrame(x) = RequestFrame(y) => x = y
                      /\ SendCmd(x) # SubscribeCmd(y)
                      /\ SendCmd(x) # [op |-> "close", call |-> NoCall]
                      /\ SubscribeCmd(x) # [op |-> "close", call |-> NoCall]
                      /\ RequestFrame(x) # [kind |-> "close", call |-> NoCall]
  <1> SUFFICES ASSUME NEW x \in Calls, NEW y \in Calls
               PROVE  /\ SendCmd(x) = SendCmd(y) => x = y
                      /\ SubscribeCmd(x) = SubscribeCmd(y) => x = y
                      /\ RequestFrame(x) = RequestFrame(y) => x = y
                      /\ SendCmd(x) # SubscribeCmd(y)
                      /\ SendCmd(x) # [op |-> "close", call |-> NoCall]
                      /\ SubscribeCmd(x) # [op |-> "close", call |-> NoCall]
                      /\ RequestFrame(x) # [kind |-> "close", call |-> NoCall]
    OBVIOUS
  <1>1. SendCmd(x).op = "send" /\ SendCmd(x).call = x /\ SendCmd(y).call = y
    BY DEF SendCmd
  <1>2. SubscribeCmd(x).op = "subscribe" /\ SubscribeCmd(x).call = x /\ SubscribeCmd(y).call = y
        /\ SubscribeCmd(y).op = "subscribe"
    BY DEF SubscribeCmd
  <1>3. RequestFrame(x).kind = "request" /\ RequestFrame(x).call = x /\ RequestFrame(y).call = y
    BY DEF RequestFrame
  <1>4. [op |-> "close", call |-> NoCall].op = "close" /\ [kind |-> "close", call |-> NoCall].kind = "close"
    OBVIOUS
  <1> QED
    BY <1>1, <1>2, <1>3, <1>4

(* Nothing a call knows changes while it and its messages stay.            *)
Stays(c) ==
    /\ pc'[c] = pc[c] /\ slot'[c] = slot[c] /\ result'[c] = result[c] /\ ran'[c] = ran[c]
    /\ Queued(c)' <=> Queued(c)
    /\ Asks(c)' => Asks(c)
    /\ inHand' = c <=> inHand = c
    /\ Flying(c)' => Flying(c)

LEMMA StaysKnown ==
  ASSUME CallKnows, NEW c \in Calls, Stays(c)
  PROVE  Knows(c)'
  BY DEF CallKnows, Knows, Stays, Travels

(* A step of the callers, the receivers or the handle.                     *)
LEMMA CallerStep ==
  ASSUME TypeOK, TypeOK', LoopShape, CallInv, NEW c \in Calls,
         Start(c) \/ GotReceiver(c) \/ EnqueueSend(c) \/ EnqueueSubscribe(c) \/ Returns(c)
  PROVE  CallInv'
  <1> USE DEF caller, task, stream, wire, remote, Become
  <1> DEFINE Path == <<loop, inHand, pending, up, ran, down, dOut>>
  <1>k. Knows(c)
    BY DEF CallInv, CallKnows
  <1>0. ASSUME UNCHANGED <<ran, down, dOut>> PROVE AnswersAreRun'
    BY <1>0 DEF CallInv, AnswersAreRun
  <1>1. CASE Start(c) \/ GotReceiver(c)
    <2>1. UNCHANGED <<cmds, slot, result>> /\ UNCHANGED Path
      BY <1>1 DEF Start, GotReceiver
    <2>2. /\ pc[c] \in {"idle", "subWaiting"} /\ (pc[c] = "subWaiting" => slot[c] = "receiver")
          /\ pc'[c] \in {"subQueueing", "queueing"}
          /\ \A x \in Calls \ {c} : pc'[x] = pc[x]
      BY <1>1 DEF Start, GotReceiver, TypeOK
    <2>3. ASSUME NEW x \in Calls \ {c} PROVE Knows(x)'
      BY <2>1, <2>2, <2>3, StaysKnown DEF Stays, Queued, Asks, Flying, CallInv
    <2>4. Knows(c)'
      BY <1>k, <2>1, <2>2 DEF Knows, Travels, Queued, Asks, Flying
    <2>5. OneCopy' /\ WaiterIsHeld'
      BY <2>1 DEF CallInv, OneCopy, WaiterIsHeld, Commanded, Queued, Flying
    <2> QED
      BY <1>0, <2>1, <2>3, <2>4, <2>5 DEF CallInv, CallKnows
  <1>2. CASE EnqueueSend(c) \/ EnqueueSubscribe(c)
    <2>1. PICK m \in {SendCmd(c), SubscribeCmd(c)} :
            /\ cmds' = Append(cmds, m) /\ UNCHANGED result /\ UNCHANGED Path
            /\ m = SendCmd(c) => pc[c] = "queueing" /\ pc'[c] = "waiting"
            /\ m = SubscribeCmd(c) => pc[c] = "subQueueing" /\ pc'[c] = "subWaiting"
            /\ slot'[c] = "open"
            /\ \A x \in Calls \ {c} : pc'[x] = pc[x] /\ slot'[x] = slot[x]
      <3>1. CASE EnqueueSend(c)
        <4>1. SendCmd(c) # SubscribeCmd(c)
          BY Records
        <4> QED
          BY <3>1, <4>1 DEF EnqueueSend, Enqueue, SendCmd, TypeOK
      <3>2. CASE EnqueueSubscribe(c)
        <4>1. SendCmd(c) # SubscribeCmd(c)
          BY Records
        <4> QED
          BY <3>2, <4>1 DEF EnqueueSubscribe, Enqueue, SubscribeCmd, TypeOK
      <3> QED
        BY <1>2, <3>1, <3>2
    <2>2. ~Queued(c) /\ ~Asks(c) /\ ~Travels(c) /\ ran[c] = 0
      BY <1>k, <2>1 DEF Knows, Travels
    <2>3. m \in Cmd
      BY <2>1 DEF LoopShape, Cmd, SendCmd, SubscribeCmd
    <2>4. ~Has(cmds, m)
      BY <2>2 DEF Queued, Asks
    <2>5. /\ Distinct(cmds', CallCmds)
          /\ \A x \in Calls : /\ Queued(x)' <=> (Queued(x) \/ m = SendCmd(x))
                              /\ Asks(x)' <=> (Asks(x) \/ m = SubscribeCmd(x))
      BY <2>1, <2>3, <2>4, CmdAppended DEF CallInv
    <2>6. \A x \in Calls : (m = SendCmd(x) \/ m = SubscribeCmd(x)) => x = c
      BY <2>1, Records
    <2>7. \A x \in Calls : Flying(x)' <=> Flying(x)
      BY <2>1 DEF Flying
    <2>8. ASSUME NEW x \in Calls \ {c} PROVE Knows(x)'
      BY <2>1, <2>5, <2>6, <2>7, <2>8, StaysKnown DEF Stays, CallInv
    <2>9. Knows(c)'
      BY <1>k, <2>1, <2>2, <2>5, <2>7, Records DEF Knows, Travels
    <2>10. OneCopy'
      BY <2>1, <2>2, <2>5, <2>6, <2>7 DEF CallInv, OneCopy, Travels
    <2>11. WaiterIsHeld'
      <3> SUFFICES ASSUME NEW x \in Calls, slot'[x] = "open" PROVE Commanded(x)' \/ x \in pending'
        BY DEF WaiterIsHeld
      <3>1. Queued(x)' \/ Asks(x)' => Commanded(x)'
        BY DEF Commanded, Queued, Asks, Has, SendCmd, SubscribeCmd
      <3>2. Commanded(x) <=> (Queued(x) \/ Asks(x))
        BY CommandedIs
      <3> QED
        BY <2>1, <2>5, <3>1, <3>2 DEF CallInv, WaiterIsHeld
    <2> QED
      BY <1>0, <2>1, <2>8, <2>9, <2>10, <2>11 DEF CallInv, CallKnows
  <1>3. CASE Returns(c)
    <2>1. PICK r \in {"answered", "error", "closed", "timeout", "dropped"} :
            /\ Return(c, r)
            /\ r \in {"closed", "dropped"} => \/ pc[c] \in {"queueing", "subQueueing", "subWaiting"}
                                              \/ slot[c] = "lost"
      BY <1>3 DEF Returns, Answered, Failed, Closed, TimesOut, Abandon
    <2>2. /\ UNCHANGED cmds /\ UNCHANGED Path
          /\ pc'[c] = "done" /\ result'[c] = r /\ slot'[c] = "gone"
          /\ \A x \in Calls \ {c} : pc'[x] = pc[x] /\ slot'[x] = slot[x] /\ result'[x] = result[x]
      BY <2>1 DEF Return, TypeOK
    <2>3. ASSUME NEW x \in Calls \ {c} PROVE Knows(x)'
      BY <2>2, <2>3, StaysKnown DEF Stays, Queued, Asks, Flying, CallInv
    <2>4. r \in {"closed", "dropped"} => ~Travels(c) /\ ran[c] = 0
      BY <1>k, <2>1 DEF Knows
    <2>5. Knows(c)'
      BY <1>k, <2>2, <2>4 DEF Knows, Travels, Queued, Asks, Flying
    <2>6. OneCopy'
      BY <2>2 DEF CallInv, OneCopy, Queued, Flying
    <2>7. WaiterIsHeld'
      BY <2>2 DEF CallInv, WaiterIsHeld, Commanded
    <2> QED
      BY <1>0, <2>2, <2>3, <2>5, <2>6, <2>7 DEF CallInv, CallKnows
  <1> QED
    BY <1>1, <1>2, <1>3

(* A waiter may be given an error, and its messages may go away.           *)
Calmer(c) ==
    /\ pc'[c] = pc[c] /\ result'[c] = result[c] /\ ran'[c] = ran[c]
    /\ slot'[c] = slot[c] \/ (slot[c] = "open" /\ slot'[c] = "error")
    /\ Travels(c)' => Travels(c)
    /\ Asks(c)' => Asks(c)

LEMMA CalmerKnows ==
  ASSUME CallKnows, NEW c \in Calls, Calmer(c)
  PROVE  Knows(c)'
  BY DEF CallKnows, Knows, Calmer

(* A step of nobody's call: the receivers, the handle, and the event and   *)
(* close traffic of both loops.                                            *)
LEMMA OtherStep ==
  ASSUME TypeOK, LoopShape, CallInv,
         \/ \E c \in Subscribers : Receives(c)
         \/ StartClose \/ EnqueueClose \/ DropHandle \/ ReadEvent \/ Emit \/ EmitOverwrites \/ UNCHANGED vars
  PROVE  CallInv'
  <1> USE DEF caller, task, stream, wire, remote
  <1>1. /\ UNCHANGED <<pc, slot, result, loop, inHand, pending, up, ran, dOut>>
        /\ \/ cmds' = cmds
           \/ cmds' = Append(cmds, [op |-> "close", call |-> NoCall])
        /\ (down' = down) \/ (down # <<>> /\ down' = Tail(down))
    BY DEF Receives, RecvEvent, RecvLagged, DropReceiver, StartClose, EnqueueClose, DropHandle,
           ReadEvent, Read, Emit, EmitOverwrites, vars
  <1>2. /\ Distinct(cmds', CallCmds)
        /\ \A x \in Calls : /\ Queued(x)' <=> Queued(x)
                            /\ Asks(x)' <=> Asks(x)
                            /\ Commanded(x) => Commanded(x)'
    <2>1. CASE cmds' = cmds
      BY <2>1 DEF CallInv, OneCopy, Queued, Asks, Commanded
    <2>2. CASE cmds' = Append(cmds, [op |-> "close", call |-> NoCall])
      <3> DEFINE m == [op |-> "close", call |-> NoCall]
      <3>1. cmds \in Seq(Cmd) /\ m \in Cmd
        BY DEF TypeOK, Cmd
      <3>2. \A x \in Calls : m # SendCmd(x) /\ m # SubscribeCmd(x)
        BY DEF SendCmd, SubscribeCmd
      <3>3. m \notin CallCmds
        BY <3>2 DEF CallCmds
      <3>4. Distinct(cmds', CallCmds) /\ \A y : Has(cmds', y) <=> y = m \/ Has(cmds, y)
        BY <2>2, <3>1, <3>3, HasAppend DEF CallInv, OneCopy
      <3>5. \A x \in Calls : (Queued(x)' <=> Queued(x)) /\ (Asks(x)' <=> Asks(x))
        BY <3>2, <3>4 DEF Queued, Asks, SendCmd, SubscribeCmd
      <3>6. ASSUME NEW x \in Calls, Commanded(x) PROVE Commanded(x)'
        BY <2>2, <3>1, <3>6, Appended DEF Commanded
      <3> QED
        BY <3>4, <3>5, <3>6
    <2> QED
      BY <1>1, <2>1, <2>2
  <1>3. \A x \in Calls : Flying(x)' <=> Flying(x)
    BY <1>1 DEF Flying
  <1>4. CallKnows'
    <2> SUFFICES ASSUME NEW x \in Calls PROVE Knows(x)'
      BY DEF CallKnows
    <2> QED
      BY <1>1, <1>2, <1>3, StaysKnown DEF Stays, CallInv
  <1>5. OneCopy'
    BY <1>1, <1>2, <1>3 DEF CallInv, OneCopy
  <1>6. WaiterIsHeld'
    BY <1>1, <1>2 DEF CallInv, WaiterIsHeld
  <1>7. AnswersAreRun'
    <2>1. CASE down' = down
      BY <1>1, <2>1 DEF CallInv, AnswersAreRun
    <2>2. CASE down # <<>> /\ down' = Tail(down)
      <3>1. \A i \in DOMAIN down' : i + 1 \in DOMAIN down /\ down'[i] = down[i + 1]
        BY <2>2, HeadTail DEF TypeOK
      <3> QED
        BY <1>1, <3>1 DEF CallInv, AnswersAreRun
    <2> QED
      BY <1>1, <2>1, <2>2
  <1> QED
    BY <1>4, <1>5, <1>6, <1>7 DEF CallInv

(* The connection task takes a command.                                    *)
LEMMA TakeStep ==
  ASSUME TypeOK, LoopShape, CallInv, TakeSend \/ TakeSubscribe \/ TakeClose
  PROVE  CallInv'
  <1> USE DEF caller, task, stream, wire, remote
  <1>1. /\ UNCHANGED <<pc, result, up, ran, down, dOut>> /\ inHand = NoCall
        /\ \E op \in {"send", "subscribe", "close"} : Take(op)
    BY DEF TakeSend, TakeSubscribe, TakeClose, Take, LoopShape
  <1>2. /\ Distinct(cmds', CallCmds)
        /\ \A x \in Calls : /\ Queued(x)' <=> (Queued(x) /\ Head(cmds) # SendCmd(x))
                            /\ Asks(x)' <=> (Asks(x) /\ Head(cmds) # SubscribeCmd(x))
                            /\ Head(cmds) = SendCmd(x) => Queued(x)
                            /\ Head(cmds) = SubscribeCmd(x) => Asks(x)
    BY <1>1, CmdTaken DEF CallInv
  <1>3. \A x \in Calls : Flying(x)' <=> Flying(x)
    BY <1>1 DEF Flying
  <1>4. AnswersAreRun'
    BY <1>1 DEF CallInv, AnswersAreRun
  <1>5. ASSUME NEW x \in Calls PROVE Queued(x)' \/ Asks(x)' => Commanded(x)'
    BY DEF Commanded, Queued, Asks, Has, SendCmd, SubscribeCmd
  <1>6. ASSUME NEW x \in Calls PROVE x \notin pending /\ slot[x] = "open" => Queued(x) \/ Asks(x)
    BY CommandedIs DEF CallInv, WaiterIsHeld
  <1>7. ASSUME NEW x \in Calls PROVE Knows(x)
    BY DEF CallInv, CallKnows
  <1>8. NoCall \notin Calls
    BY ClientAssumption DEF Calls
  <1>9. CASE TakeSend
    <2> DEFINE c == Head(cmds).call
    <2>1. c \in Calls /\ Head(cmds) = SendCmd(c) /\ inHand' = c /\ pending' = pending \cup {c} /\ slot' = slot
      BY <1>9, HeadIs DEF TakeSend
    <2>2. \A x \in Calls : /\ Head(cmds) # SubscribeCmd(x)
                           /\ Head(cmds) = SendCmd(x) <=> x = c
      BY <2>1, Records
    <2> HIDE DEF c
    <2>3. \A x \in Calls : /\ Queued(x)' <=> (Queued(x) /\ x # c)
                           /\ Asks(x)' <=> Asks(x)
      BY <1>2, <2>2
    <2>4. Queued(c) /\ ~Flying(c)
      BY <1>2, <2>1 DEF CallInv, OneCopy
    <2>5. ASSUME NEW x \in Calls PROVE Knows(x)'
      <3>1. Calmer(x)
        BY <1>1, <1>3, <2>1, <2>3, <2>4 DEF Calmer, Travels
      <3> QED
        BY <3>1, CalmerKnows DEF CallInv
    <2>6. OneCopy'
      BY <1>1, <1>2, <1>3, <2>1, <2>3, <2>4 DEF CallInv, OneCopy
    <2>7. WaiterIsHeld'
      <3> SUFFICES ASSUME NEW x \in Calls, slot'[x] = "open" PROVE Commanded(x)' \/ x \in pending'
        BY DEF WaiterIsHeld
      <3> QED
        BY <1>5, <1>6, <2>1, <2>3
    <2> QED
      BY <1>4, <2>5, <2>6, <2>7 DEF CallInv, CallKnows
  <1>10. CASE TakeSubscribe
    <2> DEFINE c == Head(cmds).call
    <2>1. /\ c \in Subscribers /\ Head(cmds) = SubscribeCmd(c) /\ inHand' = inHand /\ pending' = pending
          /\ Signal({c}, "receiver")
      BY <1>10, HeadIs DEF TakeSubscribe
    <2> HIDE DEF c
    <2>2. c \in Calls
      BY <2>1 DEF Calls
    <2>3. \A x \in Calls : /\ Head(cmds) # SendCmd(x)
                           /\ Head(cmds) = SubscribeCmd(x) <=> x = c
      BY <2>1, <2>2, Records
    <2>4. \A x \in Calls : /\ Queued(x)' <=> Queued(x)
                           /\ Asks(x)' <=> (Asks(x) /\ x # c)
      BY <1>2, <2>3
    <2>5. \A x \in Calls : slot'[x] = IF x = c /\ slot[x] = "open" THEN "receiver" ELSE slot[x]
      BY <2>1 DEF Signal
    <2>6. ASSUME NEW x \in Calls PROVE Knows(x)'
      <3>1. Travels(x)' <=> Travels(x)
        BY <1>3, <2>1, <2>4 DEF Travels
      <3> QED
        BY <1>1, <1>7, <2>4, <2>5, <3>1 DEF Knows
    <2>7. OneCopy'
      BY <1>1, <1>2, <1>3, <2>1, <2>4 DEF CallInv, OneCopy
    <2>8. WaiterIsHeld'
      <3> SUFFICES ASSUME NEW x \in Calls, slot'[x] = "open" PROVE Commanded(x)' \/ x \in pending'
        BY DEF WaiterIsHeld
      <3> QED
        BY <1>5, <1>6, <2>1, <2>4, <2>5
    <2> QED
      BY <1>4, <2>6, <2>7, <2>8 DEF CallInv, CallKnows
  <1>11. CASE TakeClose
    <2>1. Head(cmds) = [op |-> "close", call |-> NoCall] /\ UNCHANGED <<inHand, pending, slot>>
      BY <1>11, HeadIs DEF TakeClose
    <2>2. \A x \in Calls : (Queued(x)' <=> Queued(x)) /\ (Asks(x)' <=> Asks(x))
      BY <1>2, <2>1, Records
    <2>3. ASSUME NEW x \in Calls PROVE Knows(x)'
      BY <1>1, <1>3, <2>1, <2>2, StaysKnown DEF Stays, CallInv
    <2>4. OneCopy'
      BY <1>1, <1>2, <1>3, <2>1, <2>2 DEF CallInv, OneCopy
    <2>5. WaiterIsHeld'
      <3> SUFFICES ASSUME NEW x \in Calls, slot'[x] = "open" PROVE Commanded(x)' \/ x \in pending'
        BY DEF WaiterIsHeld
      <3> QED
        BY <1>5, <1>6, <2>1, <2>2
    <2> QED
      BY <1>4, <2>3, <2>4, <2>5 DEF CallInv, CallKnows
  <1> QED
    BY <1>9, <1>10, <1>11

(* The connection task has written, or the loop of it breaks.              *)
LEMMA WriteStep ==
  ASSUME TypeOK, LoopShape, CallInv, Written \/ Breaks
  PROVE  CallInv'
  <1> USE DEF caller, task, stream, wire, remote
  <1>1. UNCHANGED <<pc, result, cmds, ran, down, dOut>> /\ inHand' = NoCall
    BY DEF Written, Breaks, Break, WriteFails, CloseSent, NoMoreHandles, ReadEnd
  <1>2. \A x \in Calls : (Queued(x)' <=> Queued(x)) /\ (Asks(x)' <=> Asks(x)) /\ (Commanded(x)' <=> Commanded(x))
    BY <1>1 DEF Queued, Asks, Commanded
  <1>3. AnswersAreRun'
    BY <1>1 DEF CallInv, AnswersAreRun
  <1>4. NoCall \notin Calls
    BY ClientAssumption DEF Calls
  <1>5. up \in Seq(UpFrame) /\ Distinct(up, RequestFrames) /\ Distinct(cmds, CallCmds)
    BY DEF TypeOK, CallInv, OneCopy
  <1>6. CASE Written
    <2>1. inHand \in Calls /\ UNCHANGED <<slot, pending>>
      BY <1>6 DEF Written, LoopShape, TypeOK
    <2>2. ~Queued(inHand) /\ ~Flying(inHand)
      BY <2>1 DEF CallInv, OneCopy
    <2>3. /\ Distinct(up', RequestFrames)
          /\ \A x \in Calls : Flying(x)' => Flying(x) \/ x = inHand
      <3>1. CASE up' = up
        BY <1>5, <3>1 DEF Flying
      <3>2. CASE up' = Append(up, RequestFrame(inHand))
        <4>1. RequestFrame(inHand) \in UpFrame
          BY <2>1 DEF UpFrame, RequestFrame
        <4>2. Distinct(up', RequestFrames) /\ \A y : Has(up', y) <=> y = RequestFrame(inHand) \/ Has(up, y)
          BY <1>5, <2>2, <3>2, <4>1, HasAppend DEF Flying
        <4>3. \A x \in Calls : RequestFrame(x) = RequestFrame(inHand) => x = inHand
          BY <2>1, Records
        <4>4. ASSUME NEW x \in Calls, Flying(x)' PROVE Flying(x) \/ x = inHand
          BY <4>2, <4>3, <4>4 DEF Flying, RequestFrame
        <4> QED
          BY <4>2, <4>4
      <3> QED
        BY <1>6, <3>1, <3>2 DEF Written, RequestFrame
    <2>4. ASSUME NEW x \in Calls PROVE Knows(x)'
      <3>1. Calmer(x)
        BY <1>1, <1>2, <1>4, <2>1, <2>3 DEF Calmer, Travels
      <3> QED
        BY <3>1, CalmerKnows DEF CallInv
    <2>5. OneCopy'
      BY <1>1, <1>2, <1>4, <1>5, <2>2, <2>3 DEF CallInv, OneCopy
    <2>6. WaiterIsHeld'
      BY <1>2, <2>1 DEF CallInv, WaiterIsHeld
    <2> QED
      BY <1>3, <2>4, <2>5, <2>6 DEF CallInv, CallKnows
  <1>7. CASE Breaks
    <2>1. Break /\ (up' = up \/ up' = Append(up, [kind |-> "close", call |-> NoCall]))
      BY <1>7 DEF Breaks, WriteFails, CloseSent, NoMoreHandles, ReadEnd
    <2>2. \A x \in Calls : slot'[x] = IF x \in pending /\ slot[x] = "open" THEN "error" ELSE slot[x]
      BY <2>1 DEF Break, Signal
    <2>3. /\ Distinct(up', RequestFrames)
          /\ \A x \in Calls : Flying(x)' <=> Flying(x)
      <3>1. CASE up' = up
        BY <1>5, <3>1 DEF Flying
      <3>2. CASE up' = Append(up, [kind |-> "close", call |-> NoCall])
        <4> DEFINE m == [kind |-> "close", call |-> NoCall]
        <4>1. m \in UpFrame /\ \A x \in Calls : RequestFrame(x) # m
          BY Records DEF UpFrame
        <4>2. m \notin RequestFrames
          BY <4>1 DEF RequestFrames
        <4>3. Distinct(up', RequestFrames) /\ \A y : Has(up', y) <=> y = m \/ Has(up, y)
          BY <1>5, <3>2, <4>1, <4>2, HasAppend
        <4>4. \A x \in Calls : Flying(x)' <=> Flying(x)
          BY <4>1, <4>3 DEF Flying, RequestFrame
        <4> QED
          BY <4>3, <4>4
      <3> QED
        BY <2>1, <3>1, <3>2
    <2>4. ASSUME NEW x \in Calls PROVE Knows(x)'
      <3>1. Calmer(x)
        BY <1>1, <1>2, <1>4, <2>2, <2>3 DEF Calmer, Travels
      <3> QED
        BY <3>1, CalmerKnows DEF CallInv
    <2>5. OneCopy'
      BY <1>1, <1>2, <1>4, <1>5, <2>3 DEF CallInv, OneCopy
    <2>6. WaiterIsHeld'
      BY <1>2, <2>2 DEF CallInv, WaiterIsHeld
    <2> QED
      BY <1>3, <2>4, <2>5, <2>6 DEF CallInv, CallKnows
  <1> QED
    BY <1>6, <1>7

(* An answer finds its caller, or the connection task returns.             *)
LEMMA AnswerStep ==
  ASSUME TypeOK, LoopShape, CallInv, ReadAnswer
  PROVE  CallInv'
  <1> USE DEF caller, task, stream, wire, remote
  <1> DEFINE c == Head(down).call
  <1>1. /\ UNCHANGED <<pc, result, cmds, inHand, up, ran, dOut>> /\ pending' = pending \ {c}
        /\ Signal({c} \cap pending, "answer") /\ down # <<>> /\ Head(down).kind = "answer" /\ down' = Tail(down)
    BY DEF ReadAnswer, Read
  <1>2. ran[c] = 1
    BY <1>1, HeadTail DEF TypeOK, CallInv, AnswersAreRun
  <1> HIDE DEF c
  <1>3. \A x \in Calls : slot'[x] = IF x = c /\ x \in pending /\ slot[x] = "open" THEN "answer" ELSE slot[x]
    BY <1>1 DEF Signal
  <1>4. \A x \in Calls : /\ (Queued(x)' <=> Queued(x)) /\ (Asks(x)' <=> Asks(x)) /\ (Flying(x)' <=> Flying(x))
                         /\ Commanded(x)' <=> Commanded(x)
    BY <1>1 DEF Queued, Asks, Flying, Commanded
  <1>5. ASSUME NEW x \in Calls PROVE Knows(x)'
    <2>1. Travels(x)' <=> Travels(x)
      BY <1>1, <1>4 DEF Travels
    <2>2. Knows(x)
      BY DEF CallInv, CallKnows
    <2> QED
      BY <1>1, <1>2, <1>3, <1>4, <2>1, <2>2 DEF Knows
  <1>6. OneCopy'
    BY <1>1, <1>4 DEF CallInv, OneCopy
  <1>7. WaiterIsHeld'
    BY <1>1, <1>3, <1>4 DEF CallInv, WaiterIsHeld
  <1>8. AnswersAreRun'
    <2>1. \A i \in DOMAIN down' : i + 1 \in DOMAIN down /\ down'[i] = down[i + 1]
      BY <1>1, HeadTail DEF TypeOK
    <2> QED
      BY <1>1, <2>1 DEF CallInv, AnswersAreRun
  <1> QED
    BY <1>5, <1>6, <1>7, <1>8 DEF CallInv, CallKnows

LEMMA FinishStep ==
  ASSUME TypeOK, LoopShape, CallInv, Finish
  PROVE  CallInv'
  <1> USE DEF caller, task, stream, wire, remote
  <1>1. /\ UNCHANGED <<pc, result, inHand, pending, up, down, ran, dOut>> /\ cmds' = <<>>
        /\ pending = {} /\ inHand = NoCall
    BY DEF Finish, LoopShape
  <1>2. \A x \in Calls : slot'[x] = IF Commanded(x) /\ slot[x] = "open" THEN "lost" ELSE slot[x]
    BY DEF Finish, Signal, Commanded
  <1>3. \A x \in Calls : ~Queued(x)' /\ ~Asks(x)' /\ (Flying(x)' <=> Flying(x))
    BY <1>1, HasNone DEF Queued, Asks, Flying
  <1>4. NoCall \notin Calls
    BY ClientAssumption DEF Calls
  <1>5. ASSUME NEW x \in Calls PROVE Knows(x)'
    <2>1. Knows(x)
      BY DEF CallInv, CallKnows
    <2>2. Travels(x)' => Travels(x)
      BY <1>1, <1>3 DEF Travels
    <2>3. ASSUME slot'[x] = "lost", slot[x] # "lost" PROVE ~Travels(x)' /\ ran[x] = 0
      <3>1. slot[x] = "open" /\ Commanded(x)
        BY <1>2, <2>3
      <3>2. CASE Queued(x)
        <4>1. ran[x] = 0
          BY <2>1, <3>2 DEF Knows, Travels
        <4>2. ~Flying(x)
          BY <3>2 DEF CallInv, OneCopy
        <4> QED
          BY <1>1, <1>3, <1>4, <4>1, <4>2 DEF Travels
      <3>3. CASE Asks(x)
        <4>1. pc[x] = "subWaiting"
          BY <2>1, <3>1, <3>3 DEF Knows
        <4> QED
          BY <2>1, <2>2, <4>1 DEF Knows
      <3> QED
        BY <3>1, <3>2, <3>3, CommandedIs
    <2> QED
      BY <1>1, <1>2, <1>3, <2>1, <2>2, <2>3 DEF Knows
  <1>6. OneCopy'
    <2>1. Distinct(cmds', CallCmds)
      BY <1>1, HasNone
    <2> QED
      BY <1>1, <1>3, <1>4, <2>1 DEF CallInv, OneCopy
  <1>7. WaiterIsHeld'
    BY <1>1, <1>2 DEF CallInv, WaiterIsHeld
  <1>8. AnswersAreRun'
    BY <1>1 DEF CallInv, AnswersAreRun
  <1> QED
    BY <1>5, <1>6, <1>7, <1>8 DEF CallInv, CallKnows

(* A step of the daemon that handles no request, or of the network.        *)
LEMMA DaemonOther ==
  ASSUME TypeOK, LoopShape, CallInv, DaemonTakesEvent \/ DaemonWrites \/ DaemonEnds \/ CutLink
  PROVE  CallInv'
  <1> USE DEF caller, task, stream, wire, remote
  <1>1. UNCHANGED <<pc, slot, result, cmds, inHand, pending, ran>>
    BY DEF DaemonTakesEvent, DaemonWrites, DaemonEnds, CutLink
  <1>2. up' = up \/ up' = <<>>
    BY DEF DaemonTakesEvent, DaemonWrites, DaemonEnds, CutLink
  <1>3. Distinct(up', RequestFrames) /\ \A x \in Calls : Flying(x)' => Flying(x)
    BY <1>2, HasNone DEF CallInv, OneCopy, Flying
  <1>4. \A x \in Calls : /\ (Queued(x)' <=> Queued(x)) /\ (Asks(x)' <=> Asks(x))
                         /\ Commanded(x)' <=> Commanded(x)
    BY <1>1 DEF Queued, Asks, Commanded
  <1>5. ASSUME NEW x \in Calls PROVE Knows(x)'
    <2>1. Stays(x)
      BY <1>1, <1>3, <1>4 DEF Stays
    <2> QED
      BY <2>1, StaysKnown DEF CallInv
  <1>6. OneCopy'
    BY <1>1, <1>3, <1>4 DEF CallInv, OneCopy
  <1>7. WaiterIsHeld'
    BY <1>1, <1>4 DEF CallInv, WaiterIsHeld
  <1>8. AnswersAreRun'
    <2>1. CASE DaemonTakesEvent \/ DaemonEnds
      <3>1. dOut'.kind # "answer" /\ down' = down
        BY <2>1 DEF DaemonTakesEvent, DaemonEnds, NoFrame
      <3> QED
        BY <1>1, <3>1 DEF CallInv, AnswersAreRun
    <2>2. CASE DaemonWrites
      <3>1. dOut'.kind # "answer" /\ down' = Append(down, dOut) /\ dOut \in DownFrame /\ down \in Seq(DownFrame)
        BY <2>2 DEF DaemonWrites, NoFrame, LoopShape, TypeOK
      <3>2. \A i \in DOMAIN down' : (i \in DOMAIN down /\ down'[i] = down[i]) \/ down'[i] = dOut
        BY <3>1, Appended
      <3> QED
        BY <1>1, <3>1, <3>2 DEF CallInv, AnswersAreRun
    <2>3. CASE CutLink
      <3>1. dOut' = dOut /\ (down' = down \/ DOMAIN down' = {})
        BY <2>3 DEF CutLink
      <3> QED
        BY <1>1, <3>1 DEF CallInv, AnswersAreRun
    <2> QED
      BY <2>1, <2>2, <2>3
  <1> QED
    BY <1>5, <1>6, <1>7, <1>8 DEF CallInv, CallKnows

(* The daemon handles a request for the first and only time.               *)
LEMMA DaemonStepRuns ==
  ASSUME TypeOK, LoopShape, CallInv, DaemonReads
  PROVE  /\ CallInv'
         /\ LET c == Head(up).call
            IN  /\ c \in Calls /\ Flying(c) /\ ran[c] = 0 /\ ran' = [ran EXCEPT ![c] = 1]
                /\ UNCHANGED <<pc, slot, result>>
  <1> USE DEF caller, task, stream, wire, remote
  <1>0. Head(up) \in UpFrame /\ Head(up).kind = "request"
    BY HeadTail DEF TypeOK, DaemonReads
  <1>a. PICK c \in Calls : c = Head(up).call
    BY <1>0 DEF UpFrame
  <1>1. /\ UNCHANGED <<pc, slot, result, cmds, inHand, pending, down>>
        /\ up # <<>> /\ up' = Tail(up) /\ Head(up).kind = "request"
        /\ dOut' = [kind |-> "answer", call |-> c] /\ ran' = [ran EXCEPT ![c] = @ + 1]
    BY <1>a DEF DaemonReads
  <1>2. up \in Seq(UpFrame) /\ Head(up) \in UpFrame /\ 1 \in DOMAIN up /\ up[1] = Head(up)
    BY <1>1, HeadTail DEF TypeOK
  <1>3. c \in Calls /\ Head(up) = RequestFrame(c)
    BY <1>a, <1>1, <1>2 DEF UpFrame, RequestFrame
  <1>4. RequestFrame(c) \in RequestFrames
    BY <1>3 DEF RequestFrames
  <1>5. /\ Distinct(up', RequestFrames) /\ ~Has(up', RequestFrame(c))
        /\ \A y : Has(up, y) <=> y = Head(up) \/ Has(up', y)
    BY <1>1, <1>2, <1>3, <1>4, HasTail DEF CallInv, OneCopy
  <1>6. \A x \in Calls : Flying(x)' => Flying(x) /\ x # c
    BY <1>5 DEF Flying, RequestFrame
  <1>7. Flying(c)
    BY <1>3, <1>5 DEF Flying
  <1>8. ASSUME NEW x \in Calls PROVE Knows(x)
    BY DEF CallInv, CallKnows
  <1>9. ran[c] = 0 /\ ran' = [ran EXCEPT ![c] = 1]
    <2>1. ran[c] = 0
      BY <1>3, <1>7, <1>8 DEF Knows, Travels
    <2> QED
      BY <1>1, <2>1
  <1>10. ran'[c] = 1 /\ \A x \in Calls \ {c} : ran'[x] = ran[x]
    BY <1>3, <1>9 DEF TypeOK
  <1>11. \A x \in Calls : /\ (Queued(x)' <=> Queued(x)) /\ (Asks(x)' <=> Asks(x))
                          /\ Commanded(x)' <=> Commanded(x)
    BY <1>1 DEF Queued, Asks, Commanded
  <1>12. ASSUME NEW x \in Calls \ {c} PROVE Knows(x)'
    <2>1. Stays(x)
      BY <1>1, <1>6, <1>10, <1>11 DEF Stays
    <2> QED
      BY <2>1, StaysKnown DEF CallInv
  <1>13. Knows(c)'
    <2>1. Travels(c) /\ ~Travels(c)'
      BY <1>1, <1>3, <1>6, <1>7, <1>11 DEF Travels, CallInv, OneCopy
    <2> QED
      BY <1>1, <1>3, <1>8, <1>10, <1>11, <2>1 DEF Knows
  <1>14. OneCopy'
    BY <1>1, <1>5, <1>6, <1>11 DEF CallInv, OneCopy
  <1>15. WaiterIsHeld'
    BY <1>1, <1>11 DEF CallInv, WaiterIsHeld
  <1>16. AnswersAreRun'
    <2>1. ASSUME NEW k \in DOMAIN down, down[k].kind = "answer" PROVE ran'[down[k].call] = 1
      <3>1. down[k].call \in Calls
        BY <2>1 DEF TypeOK, DownFrame
      <3>2. ran[down[k].call] = 1
        BY <2>1 DEF CallInv, AnswersAreRun
      <3> QED
        BY <1>10, <3>1, <3>2
    <2> QED
      BY <1>1, <1>10, <2>1 DEF AnswersAreRun
  <1> QED
    BY <1>a, <1>1, <1>3, <1>7, <1>9, <1>12, <1>13, <1>14, <1>15, <1>16 DEF CallInv, CallKnows

-----------------------------------------------------------------------------
LEMMA CallInit == Init => CallInv
  <1> SUFFICES ASSUME Init PROVE CallInv
    OBVIOUS
  <1>1. NoCall \notin Calls
    BY ClientAssumption DEF Calls
  <1>2. OneCopy
    BY <1>1, HasNone DEF Init, OneCopy, Queued, Flying
  <1>3. CallKnows
    BY <1>1, HasNone DEF Init, CallKnows, Knows, Travels, Queued, Flying, Asks
  <1> QED
    BY <1>2, <1>3 DEF Init, CallInv, AnswersAreRun, WaiterIsHeld, NoFrame

LEMMA CallStepKeeps ==
  ASSUME TypeOK, TypeOK', LoopShape, CallInv, [Next]_vars
  PROVE  CallInv'
  BY CallerStep, OtherStep, TakeStep, WriteStep, AnswerStep, FinishStep, DaemonOther, DaemonStepRuns, NextSplits

IInv == TypeOK /\ LoopShape /\ CallInv

(* Every reachable state satisfies the inductive invariant.                *)
THEOREM Invariance == Spec => []IInv
  <1>1. Init => IInv
    BY TypeInit, CallInit DEF IInv
  <1>2. IInv /\ [Next]_vars => IInv'
    BY TypeStep, ShapeStep, CallStepKeeps DEF IInv
  <1> QED
    BY <1>1, <1>2, PTL DEF Spec

(* The variables of the client, the socket and the daemon keep their types *)
(* and their bounds.                                                       *)
THEOREM TypeCorrect == Spec => []TypeOK
  <1>1. IInv => TypeOK
    BY DEF IInv
  <1> QED
    BY <1>1, Invariance, PTL

(* Where the request of a pending call is, or its answer.                  *)
AnswerFrame(c) == [kind |-> "answer", call |-> c]
Carried(c) == inHand = c \/ link = "cut" \/ RequestFrame(c) \in Frames \/ AnswerFrame(c) \in Frames

ServedInv ==
    /\ daemon = "gone" => link = "cut"
    /\ \A c \in Calls : slot[c] = "open" => Commanded(c) \/ (c \in pending /\ Carried(c))

LEMMA CarriedIs ==
  ASSUME NEW c \in Calls
  PROVE  Underway(c) <=> Commanded(c) \/ (c \in pending /\ Carried(c))
  BY DEF Underway, Carried, RequestFrame, AnswerFrame

(* What a step does to the frames on their way.                            *)
LEMMA FramesMove ==
  ASSUME TypeOK, LoopShape, NEW m, m # NoFrame
  PROVE  /\ UNCHANGED <<up, dOut, down>> => (m \in Frames' <=> m \in Frames)
         /\ Written /\ link = "up" => RequestFrame(inHand) \in Frames'
         /\ Written /\ m \in Frames => m \in Frames'
         /\ ReadAnswer \/ ReadEvent => (m \in Frames /\ m # Head(down) => m \in Frames')
         /\ DaemonReads => /\ AnswerFrame(Head(up).call) \in Frames'
                           /\ m \in Frames /\ m # Head(up) => m \in Frames'
         /\ DaemonTakesEvent \/ DaemonWrites => (m \in Frames => m \in Frames')
  <1> USE DEF caller, task, stream, wire, remote
  <1>0. up \in Seq(UpFrame) /\ down \in Seq(DownFrame)
    BY DEF TypeOK
  <1>1. UNCHANGED <<up, dOut, down>> => (m \in Frames' <=> m \in Frames)
    BY DEF Frames
  <1>2. ASSUME Written, link = "up" PROVE RequestFrame(inHand) \in Frames' /\ (m \in Frames => m \in Frames')
    <2>1. UNCHANGED <<dOut, down>> /\ up' = Append(up, RequestFrame(inHand)) /\ RequestFrame(inHand) \in UpFrame
      BY <1>2 DEF Written, RequestFrame, LoopShape, TypeOK, UpFrame
    <2>2. ToSet(up') = ToSet(up) \cup {RequestFrame(inHand)}
      BY <1>0, <2>1, AppendedSet
    <2> QED
      BY <2>1, <2>2 DEF Frames
  <1>3. Written /\ link # "up" => (m \in Frames => m \in Frames')
    BY DEF Written, Frames
  <1>4. ASSUME ReadAnswer \/ ReadEvent, m \in Frames, m # Head(down) PROVE m \in Frames'
    <2>1. UNCHANGED <<up, dOut>> /\ down # <<>> /\ down' = Tail(down)
      BY <1>4 DEF ReadAnswer, ReadEvent, Read
    <2>2. ToSet(down) = {Head(down)} \cup ToSet(down')
      BY <1>0, <2>1, TailSet
    <2> QED
      BY <1>4, <2>1, <2>2 DEF Frames
  <1>5. ASSUME DaemonReads
        PROVE  AnswerFrame(Head(up).call) \in Frames' /\ (m \in Frames /\ m # Head(up) => m \in Frames')
    <2>1. /\ up # <<>> /\ up' = Tail(up) /\ down' = down
          /\ dOut = NoFrame /\ dOut' = AnswerFrame(Head(up).call)
      BY <1>5 DEF DaemonReads, LoopShape, AnswerFrame
    <2>2. ToSet(up) = {Head(up)} \cup ToSet(up')
      BY <1>0, <2>1, TailSet
    <2> QED
      BY <2>1, <2>2 DEF Frames
  <1>6. DaemonTakesEvent => (m \in Frames => m \in Frames')
    BY DEF DaemonTakesEvent, LoopShape, Frames
  <1>7. ASSUME DaemonWrites PROVE m \in Frames => m \in Frames'
    <2>1. up' = up /\ down' = Append(down, dOut) /\ dOut \in DownFrame
      BY <1>7 DEF DaemonWrites, LoopShape, TypeOK
    <2>2. ToSet(down') = ToSet(down) \cup {dOut}
      BY <1>0, <2>1, AppendedSet
    <2> QED
      BY <2>1, <2>2 DEF Frames
  <1>8. link # "up" \/ link = "up"
    OBVIOUS
  <1> QED
    BY <1>1, <1>2, <1>3, <1>4, <1>5, <1>6, <1>7, <1>8

(* A pending call stays carried until it is told something.                *)
LEMMA CarriedStep ==
  ASSUME IInv, NEW c \in Calls, c \in pending, Carried(c), slot[c] = "open", slot'[c] = "open", [Next]_vars
  PROVE  c \in pending' /\ Carried(c)'
  <1> USE DEF caller, task, stream, wire, remote
  <1> DEFINE R == RequestFrame(c)
             A == AnswerFrame(c)
  <1>0. TypeOK /\ LoopShape /\ NoCall # c
    BY ClientAssumption DEF IInv, Calls
  <1>n. R # NoFrame /\ A # NoFrame /\ R # A /\ R.kind = "request" /\ A.kind = "answer" /\ R.call = c /\ A.call = c
    <2>1. R.kind = "request" /\ A.kind = "answer" /\ NoFrame.kind = "none" /\ R.call = c /\ A.call = c
      BY DEF RequestFrame, AnswerFrame, NoFrame
    <2> QED
      BY <2>1
  <1> HIDE DEF R, A
  <1>c. Carried(c) <=> inHand = c \/ link = "cut" \/ R \in Frames \/ A \in Frames
    BY DEF Carried, R, A
  <1>d. Carried(c)' <=> inHand' = c \/ link' = "cut" \/ R \in Frames' \/ A \in Frames'
    BY DEF Carried, R, A, RequestFrame, AnswerFrame
  <1>1. CASE UNCHANGED <<inHand, pending, link, up, dOut, down>>
    BY <1>0, <1>1, <1>c, <1>d, <1>n, FramesMove
  <1>2. CASE TakeSend
    <2>1. inHand = NoCall /\ UNCHANGED <<link, up, dOut, down>> /\ pending \subseteq pending'
      BY <1>0, <1>2 DEF TakeSend, Take, LoopShape
    <2> QED
      BY <1>0, <1>c, <1>d, <1>n, <2>1, FramesMove
  <1>3. CASE Written
    <2>1. UNCHANGED <<pending, link>> /\ link \in {"up", "cut"}
      BY <1>0, <1>3 DEF Written, TypeOK
    <2>2. inHand = c /\ link = "up" => R \in Frames'
      BY <1>0, <1>3, <1>n, FramesMove DEF R
    <2> QED
      BY <1>0, <1>3, <1>c, <1>d, <1>n, <2>1, <2>2, FramesMove
  <1>4. CASE Breaks
    <2>1. slot'[c] = "error"
      BY <1>4 DEF Breaks, Break, Signal, WriteFails, CloseSent, NoMoreHandles, ReadEnd
    <2> QED
      BY <2>1
  <1>5. CASE ReadAnswer \/ ReadEvent
    <2>1. UNCHANGED <<inHand, link>> /\ down # <<>> /\ Head(down).kind \in {"answer", "event"}
      BY <1>5 DEF ReadAnswer, ReadEvent, Read
    <2>2. R # Head(down)
      BY <1>n, <2>1
    <2>3. c \in pending' /\ A # Head(down)
      <3>1. CASE ReadEvent
        <4>1. pending' = pending /\ Head(down).kind = "event"
          BY <3>1 DEF ReadEvent, Read
        <4> QED
          BY <1>n, <4>1
      <3>2. CASE ReadAnswer
        <4>1. pending' = pending \ {Head(down).call} /\ Signal({Head(down).call} \cap pending, "answer")
          BY <3>2 DEF ReadAnswer
        <4>2. Head(down).call # c
          BY <4>1 DEF Signal
        <4> QED
          BY <1>n, <4>1, <4>2
      <3> QED
        BY <1>5, <3>1, <3>2
    <2> QED
      BY <1>0, <1>5, <1>c, <1>d, <1>n, <2>1, <2>2, <2>3, FramesMove
  <1>6. CASE Finish
    BY <1>0, <1>6 DEF Finish, LoopShape
  <1>7. CASE DaemonReads
    <2>1. UNCHANGED <<inHand, pending, link>> /\ up # <<>> /\ Head(up).kind = "request" /\ Head(up) \in UpFrame
      BY <1>0, <1>7, HeadTail DEF DaemonReads, TypeOK
    <2>2. A # Head(up)
      BY <1>n, <2>1
    <2>3. R = Head(up) => A \in Frames'
      <3>1. AnswerFrame(Head(up).call) \in Frames'
        BY <1>0, <1>7, <1>n, FramesMove
      <3> QED
        BY <1>n, <3>1 DEF A
    <2> QED
      BY <1>0, <1>7, <1>c, <1>d, <1>n, <2>1, <2>2, <2>3, FramesMove
  <1>8. CASE DaemonTakesEvent \/ DaemonWrites
    <2>1. UNCHANGED <<inHand, pending, link>>
      BY <1>8 DEF DaemonTakesEvent, DaemonWrites
    <2> QED
      BY <1>0, <1>8, <1>c, <1>d, <1>n, <2>1, FramesMove
  <1>9. CASE DaemonEnds \/ CutLink
    BY <1>9, <1>d DEF DaemonEnds, CutLink
  <1>10. CASE \E x \in Calls : Start(x) \/ EnqueueSend(x) \/ EnqueueSubscribe(x) \/ GotReceiver(x) \/ Returns(x)
    <2>1. UNCHANGED <<inHand, pending, link, up, dOut, down>>
      BY <1>10 DEF Start, EnqueueSend, EnqueueSubscribe, Enqueue, GotReceiver, Returns, Answered, Failed, Closed,
         TimesOut, Abandon, Return
    <2> QED
      BY <1>1, <2>1
  <1>11. CASE \E x \in Subscribers : Receives(x)
    <2>1. UNCHANGED <<inHand, pending, link, up, dOut, down>>
      BY <1>11 DEF Receives, RecvEvent, RecvLagged, DropReceiver
    <2> QED
      BY <1>1, <2>1
  <1>12. CASE StartClose \/ EnqueueClose \/ DropHandle \/ TakeSubscribe \/ TakeClose
             \/ Emit \/ EmitOverwrites \/ UNCHANGED vars
    <2>1. UNCHANGED <<inHand, pending, link, up, dOut, down>>
      BY <1>12 DEF StartClose, EnqueueClose, DropHandle, TakeSubscribe, TakeClose, Emit, EmitOverwrites, vars
    <2> QED
      BY <1>1, <2>1
  <1> QED
    BY <1>2, <1>3, <1>4, <1>5, <1>6, <1>7, <1>8, <1>9, <1>10, <1>11, <1>12, NextSplits

(* A command stays in the queue until it is taken or dropped.              *)
LEMMA CommandStep ==
  ASSUME IInv, NEW c \in Calls, Commanded(c), slot'[c] = "open", [Next]_vars
  PROVE  Commanded(c)' \/ (c \in pending' /\ inHand' = c)
  <1> USE DEF caller, task, stream, wire, remote
  <1>0. TypeOK /\ cmds \in Seq(Cmd)
    BY DEF IInv, TypeOK
  <1>1. PICK k \in DOMAIN cmds : cmds[k].call = c
    BY DEF Commanded
  <1>2. CASE cmds' = cmds
    BY <1>1, <1>2 DEF Commanded
  <1>3. ASSUME NEW m \in Cmd, cmds' = Append(cmds, m) PROVE Commanded(c)'
    <2>1. k \in DOMAIN cmds' /\ cmds'[k] = cmds[k]
      BY <1>0, <1>1, <1>3, Appended
    <2> QED
      BY <1>1, <2>1 DEF Commanded
  <1>4. CASE TakeSend \/ TakeSubscribe \/ TakeClose
    <2>1. cmds # <<>> /\ cmds' = Tail(cmds)
      BY <1>4 DEF TakeSend, TakeSubscribe, TakeClose, Take
    <2>2. CASE k # 1
      <3>1. k - 1 \in DOMAIN cmds' /\ cmds'[k - 1] = cmds[k]
        BY <1>0, <1>1, <2>1, <2>2, HeadTail
      <3> QED
        BY <1>1, <3>1 DEF Commanded
    <2>3. CASE k = 1
      <3>1. Head(cmds).call = c
        BY <1>0, <1>1, <2>1, <2>3, HeadTail
      <3>2. CASE TakeSend
        BY <3>1, <3>2 DEF TakeSend
      <3>3. CASE TakeSubscribe
        <4>1. Signal({c}, "receiver")
          BY <3>1, <3>3 DEF TakeSubscribe
        <4> QED
          BY <4>1 DEF Signal
      <3>4. CASE TakeClose
        <4>1. Head(cmds) = [op |-> "close", call |-> NoCall]
          BY <1>0, <3>4, HeadIs DEF TakeClose
        <4> QED
          BY <3>1, <4>1, ClientAssumption DEF Calls
      <3> QED
        BY <1>4, <3>2, <3>3, <3>4
    <2> QED
      BY <2>2, <2>3
  <1>5. CASE Finish
    <2>1. slot'[c] = IF slot[c] = "open" THEN "lost" ELSE slot[c]
      BY <1>1, <1>5 DEF Finish, Signal
    <2> QED
      BY <2>1
  <1>6. CASE \E x \in Calls : EnqueueSend(x) \/ EnqueueSubscribe(x)
    <2>1. PICK x \in Calls : EnqueueSend(x) \/ EnqueueSubscribe(x)
      BY <1>6
    <2>2. CASE EnqueueSend(x)
      <3>1. SendCmd(x) \in Cmd /\ cmds' = Append(cmds, SendCmd(x))
        BY <2>2 DEF EnqueueSend, Enqueue, SendCmd, Cmd
      <3> QED
        BY <1>3, <3>1
    <2>3. CASE EnqueueSubscribe(x)
      <3>1. SubscribeCmd(x) \in Cmd /\ cmds' = Append(cmds, SubscribeCmd(x))
        BY <2>3 DEF EnqueueSubscribe, Enqueue, SubscribeCmd, Cmd, IInv, LoopShape
      <3> QED
        BY <1>3, <3>1
    <2> QED
      BY <2>1, <2>2, <2>3
  <1>7. CASE EnqueueClose
    <2>1. [op |-> "close", call |-> NoCall] \in Cmd
      BY DEF Cmd
    <2> QED
      BY <1>2, <1>3, <1>7, <2>1 DEF EnqueueClose
  <1>8. \/ cmds' = cmds \/ \E x \in Calls : EnqueueSend(x) \/ EnqueueSubscribe(x)
        \/ EnqueueClose \/ TakeSend \/ TakeSubscribe \/ TakeClose \/ Finish
    BY NextSplits DEF Start, GotReceiver, Returns, Answered, Failed, Closed, TimesOut, Abandon, Return, Receives,
       RecvEvent, RecvLagged, DropReceiver, StartClose, DropHandle, Written, Breaks, WriteFails, CloseSent,
       NoMoreHandles, ReadEnd, ReadAnswer, ReadEvent, DaemonReads, DaemonTakesEvent, DaemonWrites, DaemonEnds,
       Emit, EmitOverwrites, CutLink, vars
  <1> QED
    BY <1>2, <1>4, <1>5, <1>6, <1>7, <1>8

LEMMA ServedStep == IInv /\ ServedInv /\ [Next]_vars => ServedInv'
  <1> SUFFICES ASSUME IInv, ServedInv, [Next]_vars PROVE ServedInv'
    OBVIOUS
  <1> USE DEF caller, task, stream, wire, remote
  <1>1. daemon' = "gone" => link' = "cut"
    <2>1. CASE DaemonReads \/ DaemonTakesEvent \/ DaemonWrites
      BY <2>1 DEF DaemonReads, DaemonTakesEvent, DaemonWrites
    <2>2. CASE DaemonEnds \/ Finish \/ CutLink
      BY <2>2 DEF DaemonEnds, Finish, CutLink
    <2>3. CASE ~(DaemonReads \/ DaemonTakesEvent \/ DaemonWrites \/ DaemonEnds \/ Finish \/ CutLink)
      <3>1. UNCHANGED <<daemon, link>>
        BY <2>3, NextSplits DEF Start, EnqueueSend, EnqueueSubscribe, Enqueue, GotReceiver, Returns, Answered, Failed,
           Closed, TimesOut, Abandon, Return, Receives, RecvEvent, RecvLagged, DropReceiver, StartClose, EnqueueClose,
           DropHandle, TakeSend, TakeSubscribe, TakeClose, Written, Breaks, WriteFails, CloseSent, NoMoreHandles,
           ReadEnd, ReadAnswer, ReadEvent, Emit, EmitOverwrites, vars
      <3> QED
        BY <3>1 DEF ServedInv
    <2> QED
      BY <2>1, <2>2, <2>3
  <1>2. ASSUME NEW c \in Calls, slot'[c] = "open" PROVE Commanded(c)' \/ (c \in pending' /\ Carried(c)')
    <2>1. CASE slot[c] = "open"
      <3>1. CASE Commanded(c)
        BY <1>2, <3>1, CommandStep DEF Carried
      <3>2. CASE c \in pending /\ Carried(c)
        BY <1>2, <2>1, <3>2, CarriedStep
      <3> QED
        BY <2>1, <3>1, <3>2 DEF ServedInv
    <2>2. CASE slot[c] # "open"
      <3>0. slot \in [Calls -> {"none", "open", "receiver", "answer", "error", "lost", "gone"}] /\ cmds \in Seq(Cmd)
        BY DEF IInv, TypeOK
      <3>1. EnqueueSend(c) \/ EnqueueSubscribe(c)
        <4>1. ASSUME NEW S \in SUBSET Calls, NEW v \in {"receiver", "answer", "error", "lost"}, Signal(S, v) PROVE FALSE
          BY <1>2, <2>2, <4>1 DEF Signal
        <4>2. slot'[c] # slot[c]
          BY <1>2, <2>2
        <4>3. CASE \E x \in Calls : EnqueueSend(x) \/ EnqueueSubscribe(x)
          BY <3>0, <4>2, <4>3 DEF EnqueueSend, EnqueueSubscribe, Enqueue
        <4>4. CASE \E x \in Calls : Start(x) \/ GotReceiver(x) \/ Returns(x)
          <5>1. ASSUME NEW x \in Calls, Returns(x) PROVE slot'[c] \in {slot[c], "gone"}
            BY <3>0, <5>1 DEF Returns, Answered, Failed, Closed, TimesOut, Abandon, Return
          <5> QED
            BY <1>2, <4>2, <4>4, <5>1 DEF Start, GotReceiver
        <4>5. ~(\E x \in Subscribers : Receives(x))
          BY <4>2 DEF Receives, RecvEvent, RecvLagged, DropReceiver
        <4>6. ~(StartClose \/ EnqueueClose \/ DropHandle \/ TakeSend \/ TakeClose \/ Written \/ ReadEvent)
          BY <4>2 DEF StartClose, EnqueueClose, DropHandle, TakeSend, TakeClose, Written, ReadEvent
        <4>7. ~(DaemonReads \/ DaemonTakesEvent \/ DaemonWrites \/ DaemonEnds \/ Emit
                \/ EmitOverwrites \/ CutLink \/ UNCHANGED vars)
          BY <4>2 DEF DaemonReads, DaemonTakesEvent, DaemonWrites, DaemonEnds,
       Emit, EmitOverwrites, CutLink, vars
        <4>8. pending \in SUBSET Calls
          BY DEF IInv, TypeOK
        <4>9. ~Breaks
          BY <4>1, <4>8 DEF Breaks, Break, WriteFails, CloseSent, NoMoreHandles, ReadEnd
        <4>10. ~Finish
          BY <4>1 DEF Finish
        <4>11. ~ReadAnswer
          <5>1. {Head(down).call} \cap pending \in SUBSET Calls
            BY <4>8
          <5> QED
            BY <4>1, <5>1 DEF ReadAnswer
        <4>12. ~TakeSubscribe
          <5>1. TakeSubscribe => {Head(cmds).call} \in SUBSET Calls
            BY HeadIs DEF TakeSubscribe, IInv, Calls
          <5> QED
            BY <4>1, <5>1 DEF TakeSubscribe
        <4> QED
          BY <4>3, <4>4, <4>5, <4>6, <4>7, <4>9, <4>10, <4>11, <4>12, NextSplits
      <3>2. PICK m : m \in Cmd /\ m.call = c /\ cmds' = Append(cmds, m)
        <4>1. CASE EnqueueSend(c)
          <5>1. SendCmd(c) \in Cmd /\ cmds' = Append(cmds, SendCmd(c)) /\ SendCmd(c).call = c
            BY <4>1 DEF EnqueueSend, Enqueue, SendCmd, Cmd
          <5> QED
            BY <5>1
        <4>2. CASE EnqueueSubscribe(c)
          <5>1. SubscribeCmd(c) \in Cmd /\ cmds' = Append(cmds, SubscribeCmd(c)) /\ SubscribeCmd(c).call = c
            BY <4>2 DEF EnqueueSubscribe, Enqueue, SubscribeCmd, Cmd, IInv, LoopShape
          <5> QED
            BY <5>1
        <4> QED
          BY <3>1, <4>1, <4>2
      <3>3. Len(cmds) + 1 \in DOMAIN cmds' /\ cmds'[Len(cmds) + 1] = m
        BY <3>0, <3>2, Appended
      <3> QED
        BY <3>2, <3>3 DEF Commanded
    <2> QED
      BY <2>1, <2>2
  <1> QED
    BY <1>1, <1>2 DEF ServedInv

(* While a caller waits, one of the two loops can move, or both write.     *)
LEMMA ServedMoves ==
  ASSUME IInv, ServedInv, NEW c \in Calls, slot[c] = "open"
  PROVE  Underway(c) /\ loop # "over" /\ (TaskMoves \/ DaemonMoves \/ Stuck)
  <1>0. TypeOK /\ LoopShape /\ WaiterIsHeld /\ NoCall # c
    BY ClientAssumption DEF IInv, CallInv, Calls
  <1>1. Underway(c) /\ (Commanded(c) \/ (c \in pending /\ Carried(c)))
    BY CarriedIs DEF ServedInv
  <1>2. loop # "over"
    BY <1>0 DEF LoopShape, WaiterIsHeld, Commanded
  <1> SUFFICES TaskMoves \/ DaemonMoves \/ Stuck
    BY <1>1, <1>2
  <1>3. Len(up) \in Nat /\ Len(down) \in Nat /\ WireCap \in Nat \ {0} /\ Len(<<>>) = 0
    BY <1>0, ClientAssumption DEF TypeOK
  <1>4. loop \in {"select", "writing", "closing", "draining"} /\ daemon \in {"select", "writing", "gone"} /\ link \in {"up", "cut"}
    BY <1>0, <1>2 DEF TypeOK
  <1>5. CASE link = "cut"
    BY <1>4, <1>5 DEF TaskMoves
  <1>6. CASE link = "up" /\ loop \in {"writing", "closing"}
    <2>1. CASE Len(up) < WireCap
      BY <1>6, <2>1 DEF TaskMoves
    <2>2. CASE Len(up) >= WireCap
      <3>1. up # <<>>
        BY <1>3, <2>2
      <3>2. CASE daemon = "select"
        BY <1>6, <3>1, <3>2 DEF DaemonMoves
      <3>3. CASE daemon = "writing"
        BY <1>3, <1>6, <2>2, <3>3 DEF DaemonMoves, Stuck
      <3> QED
        BY <1>4, <1>6, <3>2, <3>3 DEF ServedInv
    <2> QED
      BY <1>3, <2>1, <2>2
  <1>7. CASE link = "up" /\ loop = "select"
    <2>1. CASE Commanded(c)
      BY <1>7, <2>1 DEF Commanded, TaskMoves
    <2>2. CASE c \in pending /\ Carried(c)
      <3>1. RequestFrame(c) \in Frames \/ AnswerFrame(c) \in Frames
        BY <1>0, <1>7, <2>2 DEF Carried, LoopShape
      <3>2. up # <<>> \/ dOut # NoFrame \/ down # <<>>
        <4>1. RequestFrame(c) # NoFrame /\ AnswerFrame(c) # NoFrame
          BY DEF RequestFrame, AnswerFrame, NoFrame
        <4> QED
          BY <3>1, <4>1 DEF Frames, ToSet
      <3>3. CASE down # <<>>
        BY <1>7, <3>3 DEF TaskMoves
      <3>4. CASE daemon = "writing"
        <4>1. down = <<>> => Len(down) < WireCap
          BY <1>3
        <4> QED
          BY <1>7, <3>3, <3>4, <4>1 DEF DaemonMoves
      <3>5. CASE up # <<>> /\ daemon = "select"
        BY <1>7, <3>5 DEF DaemonMoves
      <3> QED
        BY <1>0, <1>4, <1>7, <3>2, <3>3, <3>4, <3>5 DEF LoopShape, ServedInv
    <2> QED
      BY <1>1, <2>1, <2>2
  <1>8. CASE loop = "draining"
    BY <1>8 DEF TaskMoves
  <1> QED
    BY <1>4, <1>5, <1>6, <1>7, <1>8

(* Whoever waits on a oneshot waits for something: its request, its answer *)
(* or the end of the connection is on its way, the connection task is      *)
(* there to tell it, and the two loops never come to rest before, except   *)
(* when both write to a full socket.                                       *)
THEOREM WaitersServed == Spec => []WaiterIsServed
  <1>1. Init => ServedInv
    BY DEF Init, ServedInv
  <1>2. IInv /\ ServedInv => WaiterIsServed
    BY ServedMoves DEF WaiterIsServed
  <1> QED
    BY <1>1, <1>2, Invariance, ServedStep, PTL DEF Spec

-----------------------------------------------------------------------------
(* The abstract state, and how each step looks from there.                 *)
Asked == {c \in Calls : pc[c] # "idle"}
Told == [c \in Calls |-> Outcome(result[c])]

LEMMA StepMaps ==
  ASSUME IInv, IInv', [Next]_vars
  PROVE  [Promise!Next]_Promise!vars
  <1> USE DEF caller, task, stream, wire, remote, Become, Promise!vars
  <1>1. Promise!vars = <<Asked, ran, Told>>
    BY DEF Asked, Told
  <1>t. TypeOK /\ TypeOK' /\ LoopShape /\ CallInv
    BY DEF IInv
  <1>k. ASSUME NEW c \in Calls PROVE Knows(c)
    BY <1>t DEF CallInv, CallKnows
  <1>2. ASSUME UNCHANGED <<pc, result, ran>> PROVE UNCHANGED Promise!vars
    BY <1>2
  <1>3. ASSUME NEW c \in Calls, Start(c) PROVE Promise!Next
    <2>1. pc[c] = "idle" /\ UNCHANGED <<ran, result>>
      BY <1>3 DEF Start
    <2>2. pc'[c] # "idle" /\ \A x \in Calls \ {c} : pc'[x] = pc[x]
      BY <1>t, <1>3 DEF Start, TypeOK
    <2>3. c \notin Asked /\ Asked' = Asked \cup {c} /\ Told' = Told
      BY <2>1, <2>2 DEF Asked, Told
    <2>4. Promise!Ask(c)
      BY <2>1, <2>3 DEF Promise!Ask, Asked, Told
    <2> QED
      BY <2>4 DEF Promise!Next
  <1>4. ASSUME NEW c \in Calls, GotReceiver(c) \/ EnqueueSend(c) \/ EnqueueSubscribe(c)
        PROVE  UNCHANGED Promise!vars
    <2>1. UNCHANGED <<ran, result>> /\ pc[c] # "idle" /\ pc'[c] # "idle"
          /\ \A x \in Calls \ {c} : pc'[x] = pc[x]
      <3>f. DOMAIN pc = Calls
        BY <1>t DEF TypeOK
      <3>1. CASE GotReceiver(c)
        BY <3>f, <3>1 DEF GotReceiver
      <3>2. CASE EnqueueSend(c) \/ EnqueueSubscribe(c)
        BY <3>f, <3>2 DEF EnqueueSend, EnqueueSubscribe, Enqueue
      <3> QED
        BY <1>4, <3>1, <3>2
    <2>2. Asked' = Asked /\ Told' = Told
      BY <2>1 DEF Asked, Told
    <2> QED
      BY <2>1, <2>2 DEF Asked, Told
  <1>5. ASSUME NEW c \in Calls, Returns(c) PROVE Promise!Next
    <2>1. PICK r \in {"answered", "error", "closed", "timeout", "dropped"} :
            /\ Return(c, r)
            /\ r \in {"closed", "dropped"} => \/ pc[c] \in {"queueing", "subQueueing", "subWaiting"}
                                              \/ slot[c] = "lost"
            /\ r = "answered" => slot[c] = "answer"
            /\ pc[c] \notin {"idle", "done"}
      BY <1>5 DEF Returns, Answered, Failed, Closed, TimesOut, Abandon
    <2>2. /\ UNCHANGED ran /\ pc'[c] = "done" /\ result'[c] = r /\ result[c] = "none"
          /\ \A x \in Calls \ {c} : pc'[x] = pc[x] /\ result'[x] = result[x]
      BY <1>t, <1>k, <2>1 DEF Return, TypeOK, Knows
    <2>3. c \in Asked /\ Asked' = Asked
      BY <2>1, <2>2 DEF Asked
    <2>4. Told[c] = "none" /\ Told' = [Told EXCEPT ![c] = Outcome(r)]
      BY <2>2 DEF Told, Outcome
    <2>5. Promise!Tell(c, Outcome(r))
      BY <2>2, <2>3, <2>4 DEF Promise!Tell, Asked, Told
    <2>6. CASE r = "answered"
      <3>1. ran[c] = 1
        BY <1>k, <2>1, <2>6 DEF Knows
      <3>2. Outcome(r) = "answered"
        BY <2>6 DEF Outcome
      <3>3. Promise!Answer(c)
        BY <2>5, <3>1, <3>2 DEF Promise!Answer
      <3> QED
        BY <3>3 DEF Promise!Next
    <2>7. CASE r \in {"closed", "dropped"}
      <3>1. ran[c] = 0
        BY <1>k, <2>1, <2>7 DEF Knows
      <3>2. Outcome(r) = "refused"
        BY <2>7 DEF Outcome
      <3>3. Promise!Refuse(c)
        BY <2>5, <3>1, <3>2 DEF Promise!Refuse
      <3> QED
        BY <3>3 DEF Promise!Next
    <2>8. CASE r \in {"error", "timeout"}
      <3>1. Outcome(r) = "unknown"
        BY <2>8 DEF Outcome
      <3>2. Promise!Fail(c)
        BY <2>5, <3>1 DEF Promise!Fail
      <3> QED
        BY <3>2 DEF Promise!Next
    <2> QED
      BY <2>6, <2>7, <2>8
  <1>6. CASE DaemonReads
    <2>1. PICK c \in Calls : /\ Flying(c) /\ ran[c] = 0 /\ ran' = [ran EXCEPT ![c] = 1]
                             /\ UNCHANGED <<pc, slot, result>>
      BY <1>t, <1>6, DaemonStepRuns
    <2>2. c \in Asked /\ Told[c] # "refused"
      BY <1>k, <2>1 DEF Knows, Travels, Asked, Told, Outcome
    <2>3. Asked' = Asked /\ Told' = Told
      BY <2>1 DEF Asked, Told
    <2>4. Promise!Run(c)
      BY <2>1, <2>2, <2>3 DEF Promise!Run, Asked, Told
    <2> QED
      BY <2>4 DEF Promise!Next
  <1>7. CASE \/ \E c \in Subscribers : Receives(c)
             \/ StartClose \/ EnqueueClose \/ DropHandle
             \/ TakeSend \/ TakeSubscribe \/ TakeClose \/ Written \/ Breaks \/ ReadAnswer \/ ReadEvent \/ Finish
             \/ DaemonTakesEvent \/ DaemonWrites \/ DaemonEnds \/ Emit \/ EmitOverwrites \/ CutLink \/ UNCHANGED vars
    <2>1. UNCHANGED <<pc, result, ran>>
      BY <1>7 DEF Receives, RecvEvent, RecvLagged, DropReceiver, StartClose, EnqueueClose, DropHandle,
         TakeSend, TakeSubscribe, TakeClose, Written, Breaks, WriteFails, CloseSent, NoMoreHandles, ReadEnd,
         ReadAnswer, ReadEvent, Finish, DaemonTakesEvent, DaemonWrites, DaemonEnds,
       Emit, EmitOverwrites, CutLink, vars
    <2> QED
      BY <1>2, <2>1
  <1> QED
    BY <1>3, <1>4, <1>5, <1>6, <1>7, NextSplits

LEMMA InitMaps == Init => Promise!Init
  BY DEF Init, Promise!Init, Outcome

(* The client SDK implements its promise for any number of calls, queue    *)
(* and socket: the daemon runs a request at most once, an answer is of its *)
(* own run, and a call that returns Closed was not and will not be run.    *)
THEOREM ImplementsRequestReply == Spec => KeepsPromise
  <1>1. IInv /\ IInv' /\ [Next]_vars => [Promise!Next]_Promise!vars
    BY StepMaps
  <1> QED
    BY <1>1, InitMaps, Invariance, PTL DEF Spec, KeepsPromise, Promise!Spec

-----------------------------------------------------------------------------
(* Where an event is that a receiver is owed.                              *)
Covered(c, e) == e \in taken[c] \cup ToSet(inbox[c]) \cup missed[c] \cup OnTheWay \cup skipped

(* A receiver is owed what comes after its subscription was handled.       *)
EventInv ==
    /\ \A c \in Subscribers : ran[c] = 0 => since[c] = MaxEvents
    /\ link = "up" => \A c \in recv : \A e \in (since[c] + 1)..emitted : Covered(c, e)

LEMMA EventsOne ==
  ASSUME NEW f
  PROVE  EventsIn(<<f>>) = IF f.kind = "event" THEN {f.seq} ELSE {}
  <1>1. DOMAIN <<f>> = {1} /\ <<f>>[1] = f
    OBVIOUS
  <1> QED
    BY <1>1 DEF EventsIn

LEMMA EventsAppend ==
  ASSUME NEW s \in Seq(DownFrame), NEW f \in DownFrame
  PROVE  EventsIn(Append(s, f)) = EventsIn(s) \cup EventsIn(<<f>>)
  <1>1. /\ DOMAIN Append(s, f) = DOMAIN s \cup {Len(s) + 1}
        /\ \A i \in DOMAIN s : Append(s, f)[i] = s[i]
        /\ Append(s, f)[Len(s) + 1] = f
    BY Appended
  <1>2. CASE f.kind = "event"
    <2>1. {i \in DOMAIN Append(s, f) : Append(s, f)[i].kind = "event"} =
            {i \in DOMAIN s : s[i].kind = "event"} \cup {Len(s) + 1}
      BY <1>1, <1>2
    <2> QED
      BY <1>1, <1>2, <2>1, EventsOne DEF EventsIn
  <1>3. CASE f.kind # "event"
    <2>1. {i \in DOMAIN Append(s, f) : Append(s, f)[i].kind = "event"} =
            {i \in DOMAIN s : s[i].kind = "event"}
      BY <1>1, <1>3
    <2> QED
      BY <1>1, <1>3, <2>1, EventsOne DEF EventsIn
  <1> QED
    BY <1>2, <1>3

LEMMA EventsTail ==
  ASSUME NEW s \in Seq(DownFrame), s # <<>>
  PROVE  EventsIn(s) \subseteq EventsIn(<<Head(s)>>) \cup EventsIn(Tail(s))
  <1> SUFFICES ASSUME NEW k \in DOMAIN s, s[k].kind = "event"
               PROVE  s[k].seq \in EventsIn(<<Head(s)>>) \cup EventsIn(Tail(s))
    BY DEF EventsIn
  <1>1. CASE k = 1
    <2>1. Head(s) = s[1] /\ Head(s).kind = "event"
      BY <1>1, HeadTail
    <2> QED
      BY <1>1, <2>1, EventsOne
  <1>2. CASE k # 1
    <2>1. k - 1 \in DOMAIN Tail(s) /\ s[k] = Tail(s)[k - 1]
      BY <1>2, HeadTail
    <2> QED
      BY <2>1 DEF EventsIn
  <1> QED
    BY <1>1, <1>2

LEMMA MemberOf ==
  ASSUME NEW S, NEW s \in Seq(S), NEW k \in 1..Len(s)
  PROVE  s[k] \in S
  OBVIOUS

LEMMA NotOff ==
  ASSUME NEW s \in Seq(1..MaxEvents)
  PROVE  s # Off
  <1>1. \A k \in 1..Len(s) : s[k] \in 1..MaxEvents
    BY MemberOf
  <1> SUFFICES ASSUME s = Off PROVE FALSE
    OBVIOUS
  <1>2. Len(s) = 1 /\ s[1] = -1
    BY DEF Off
  <1>3. s[1] \in 1..MaxEvents
    BY <1>1, <1>2
  <1> QED
    BY <1>2, <1>3, ClientAssumption

LEMMA EventAppended ==
  ASSUME NEW s \in Seq(1..MaxEvents), NEW e \in 1..MaxEvents
  PROVE  Append(s, e) \in Seq(1..MaxEvents) /\ ToSet(Append(s, e)) = ToSet(s) \cup {e}
  <1> DEFINE S == 1..MaxEvents
  <1>1. s \in Seq(S) /\ e \in S
    OBVIOUS
  <1> HIDE DEF S
  <1>2. Append(s, e) \in Seq(S) /\ ToSet(Append(s, e)) = ToSet(s) \cup {e}
    BY <1>1, Appended, AppendedSet
  <1> QED
    BY <1>2 DEF S

LEMMA Prefix ==
  ASSUME NEW s \in Seq(1..MaxEvents), NEW k \in 0..Len(s)
  PROVE  /\ SubSeq(s, 1, k) \in Seq(1..MaxEvents) /\ DOMAIN SubSeq(s, 1, k) = 1..k
         /\ \A i \in 1..k : SubSeq(s, 1, k)[i] = s[i]
  <1> DEFINE S == 1..MaxEvents
  <1>1. s \in Seq(S) /\ Len(s) \in Nat /\ k \in Int /\ 0 <= k /\ k <= Len(s)
    OBVIOUS
  <1> HIDE DEF S
  <1>2. Len(SubSeq(s, 1, k)) = k /\ DOMAIN SubSeq(s, 1, k) = 1..k
    BY <1>1
  <1>3. \A i \in 1..k : SubSeq(s, 1, k)[i] = s[i]
    BY <1>1
  <1>4. SubSeq(s, 1, k) \in Seq(S)
    BY <1>1
  <1> QED
    BY <1>2, <1>3, <1>4 DEF S

LEMMA EventInit == Init => EventInv
  BY ClientAssumption DEF Init, EventInv

(* Steps that touch none of the event paths.                               *)
Apart == UNCHANGED <<recv, inbox, taken, missed, down, dOut, backlog, skipped, emitted, since, ran>>

LEMMA EventApart ==
  ASSUME EventInv, Apart, link' = "up" => link = "up"
  PROVE  EventInv'
  <1>1. OnTheWay' = OnTheWay
    BY DEF Apart, OnTheWay, EventsIn
  <1>2. \A c, e : Covered(c, e)' <=> Covered(c, e)
    BY <1>1 DEF Covered, Apart
  <1> QED
    BY <1>2 DEF EventInv, Apart

(* An event only moves on, from one place on its way to the next.          *)
LEMMA EventMoves ==
  ASSUME EventInv, UNCHANGED <<since, ran>>, link' = "up" => link = "up",
         \A c \in recv' : /\ c \in recv \/ since[c] = MaxEvents
                          /\ emitted' = emitted \/ \A e \in (emitted + 1)..emitted' : Covered(c, e)'
                          /\ \A e : c \in recv /\ link' = "up" /\ Covered(c, e) => Covered(c, e)',
         TypeOK, TypeOK'
  PROVE  EventInv'
  <1> SUFFICES ASSUME link' = "up", NEW c \in recv', NEW e \in (since[c] + 1)..emitted'
               PROVE  Covered(c, e)'
    BY DEF EventInv
  <1>1. since[c] \in 0..MaxEvents /\ emitted \in 0..MaxEvents /\ emitted' \in 0..MaxEvents
    BY DEF TypeOK
  <1>2. c \in recv
    BY <1>1, ClientAssumption
  <1>3. CASE e \in (since[c] + 1)..emitted
    BY <1>2, <1>3 DEF EventInv
  <1>4. CASE e \notin (since[c] + 1)..emitted
    <2>1. e \in (emitted + 1)..emitted' /\ emitted' # emitted
      BY <1>1, <1>4
    <2> QED
      BY <2>1
  <1> QED
    BY <1>3, <1>4

LEMMA EventStep ==
  ASSUME TypeOK, TypeOK', LoopShape, CallInv, EventInv, [Next]_vars
  PROVE  EventInv'
  <1> USE DEF caller, task, stream, wire, remote
  <1>1. ASSUME NEW c \in Calls, Start(c) \/ GotReceiver(c) \/ EnqueueSend(c) \/ EnqueueSubscribe(c)
        PROVE  EventInv'
    <2>1. Apart /\ link' = link
      BY <1>1 DEF Start, GotReceiver, EnqueueSend, EnqueueSubscribe, Enqueue, Apart
    <2> QED
      BY <2>1, EventApart
  <1>2. CASE StartClose \/ EnqueueClose \/ DropHandle \/ TakeSend \/ TakeClose \/ Written \/ Breaks \/ UNCHANGED vars
    <2>1. Apart /\ link' = link
      BY <1>2 DEF StartClose, EnqueueClose, DropHandle, TakeSend, TakeClose, Written, Breaks, WriteFails,
                  CloseSent, NoMoreHandles, ReadEnd, vars, Apart
    <2> QED
      BY <2>1, EventApart
  <1>3. CASE Finish \/ DaemonEnds \/ CutLink
    <2>1. link' = "cut" /\ UNCHANGED <<ran, since>>
      BY <1>3 DEF Finish, DaemonEnds, CutLink
    <2> QED
      BY <2>1 DEF EventInv
  <1>4. ASSUME NEW c \in Calls, Returns(c) PROVE EventInv'
    <2>1. PICK r : Return(c, r)
      BY <1>4 DEF Returns, Answered, Failed, Closed, TimesOut, Abandon
    <2>2. /\ UNCHANGED <<taken, missed, down, dOut, backlog, skipped, emitted, since, ran, link>>
          /\ recv' \subseteq recv /\ \A s \in recv' : s \in Subscribers /\ inbox'[s] = inbox[s]
      BY <2>1 DEF Return, TypeOK
    <2>3. OnTheWay' = OnTheWay
      BY <2>2 DEF OnTheWay, EventsIn
    <2>4. \A s \in recv' : \A e : Covered(s, e) => Covered(s, e)'
      BY <2>2, <2>3 DEF Covered
    <2> QED
      BY <2>2, <2>4, EventMoves
  <1>5. ASSUME NEW c \in Subscribers, Receives(c) PROVE EventInv'
    <2>1. /\ UNCHANGED <<missed, down, dOut, backlog, skipped, emitted, since, ran, link>>
          /\ recv' \subseteq recv
      BY <1>5 DEF Receives, RecvEvent, RecvLagged, DropReceiver
    <2>2. OnTheWay' = OnTheWay
      BY <2>1 DEF OnTheWay, EventsIn
    <2>3. ASSUME NEW s \in recv' PROVE taken[s] \cup ToSet(inbox[s]) \subseteq taken'[s] \cup ToSet(inbox'[s])
      <3>1. s \in Subscribers /\ s \in recv
        BY <2>1 DEF TypeOK
      <3>2. CASE RecvEvent(c)
        <4>1. CASE s = c
          <5>1. /\ taken'[s] = taken[s] \cup {Head(inbox[s])} /\ inbox'[s] = Tail(inbox[s])
                /\ inbox[s] # <<>> /\ inbox[s] \in Seq(1..MaxEvents)
            BY <3>1, <3>2, <4>1 DEF RecvEvent, TypeOK
          <5> QED
            BY <5>1, TailSet
        <4>2. CASE s # c
          BY <3>1, <3>2, <4>2 DEF RecvEvent, TypeOK
        <4> QED
          BY <4>1, <4>2
      <3>3. CASE RecvLagged(c)
        BY <3>3 DEF RecvLagged
      <3>4. CASE DropReceiver(c)
        BY <2>3, <3>1, <3>4 DEF DropReceiver, TypeOK
      <3> QED
        BY <1>5, <3>2, <3>3, <3>4 DEF Receives
    <2>4. \A s \in recv' : \A e : Covered(s, e) => Covered(s, e)'
      BY <2>1, <2>2, <2>3 DEF Covered
    <2> QED
      BY <2>1, <2>4, EventMoves
  <1>6. CASE TakeSubscribe
    <2> DEFINE c == Head(cmds).call
    <2>1. /\ UNCHANGED <<inbox, taken, missed, down, dOut, backlog, skipped, emitted, since, ran, link>>
          /\ recv' = IF slot[c] = "open" THEN recv \cup {c} ELSE recv
          /\ c \in Subscribers /\ Head(cmds) = SubscribeCmd(c)
      BY <1>6, HeadIs DEF TakeSubscribe
    <2>2. c \in Calls /\ Knows(c) /\ Asks(c)
      BY <1>6, <2>1, CmdTaken DEF Calls, CallInv, CallKnows, TakeSubscribe
    <2>3. slot[c] = "open" => since[c] = MaxEvents
      BY <2>1, <2>2 DEF Knows, EventInv
    <2>4. OnTheWay' = OnTheWay
      BY <2>1 DEF OnTheWay, EventsIn
    <2>5. \A s, e : Covered(s, e) => Covered(s, e)'
      BY <2>1, <2>4 DEF Covered
    <2> HIDE DEF c
    <2> QED
      BY <2>1, <2>3, <2>5, EventMoves
  <1>7. CASE ReadAnswer
    <2>1. /\ UNCHANGED <<recv, inbox, taken, missed, dOut, backlog, skipped, emitted, since, ran, link>>
          /\ down # <<>> /\ down' = Tail(down) /\ Head(down).kind = "answer" /\ down \in Seq(DownFrame)
      BY <1>7 DEF ReadAnswer, Read, TypeOK
    <2>2. EventsIn(down) \subseteq EventsIn(down')
      BY <2>1, EventsTail, EventsOne
    <2>3. EventsIn(<<dOut'>>) = EventsIn(<<dOut>>)
      BY <2>1
    <2>4. OnTheWay \subseteq OnTheWay'
      BY <2>1, <2>2, <2>3 DEF OnTheWay, EventsIn
    <2>5. \A s, e : Covered(s, e) => Covered(s, e)'
      BY <2>1, <2>4 DEF Covered
    <2> QED
      BY <2>1, <2>5, EventMoves
  <1>8. CASE ReadEvent
    <2>1. /\ UNCHANGED <<recv, taken, dOut, backlog, skipped, emitted, since, ran, link>>
          /\ down # <<>> /\ down' = Tail(down) /\ Head(down).kind = "event" /\ down \in Seq(DownFrame)
      BY <1>8 DEF ReadEvent, Read, TypeOK
    <2>2. EventsIn(down) \subseteq {Head(down).seq} \cup EventsIn(down')
      BY <2>1, EventsTail, EventsOne
    <2>3. OnTheWay \subseteq {Head(down).seq} \cup OnTheWay'
      BY <2>1, <2>2 DEF OnTheWay, EventsIn
    <2>4. Head(down).seq \in 1..MaxEvents
      BY <2>1, HeadTail DEF DownFrame
    <2>5. ASSUME NEW s \in recv
          PROVE  /\ ToSet(inbox[s]) \cup missed[s] \subseteq ToSet(inbox'[s]) \cup missed'[s]
                 /\ Head(down).seq \in ToSet(inbox'[s])
      <3>1. s \in Subscribers /\ inbox[s] \in Seq(1..MaxEvents)
        BY DEF TypeOK
      <3>2. CASE Len(inbox[s]) >= RecvCap
        <4>1. inbox'[s] = Append(Tail(inbox[s]), Head(down).seq) /\ missed'[s] = missed[s] \cup {Head(inbox[s])}
          BY <1>8, <3>1, <3>2 DEF ReadEvent
        <4>a. inbox[s] # <<>>
          BY <3>1, <3>2, ClientAssumption
        <4>2. inbox[s] # <<>> /\ Tail(inbox[s]) \in Seq(1..MaxEvents)
          BY <3>1, <4>a, HeadTail
        <4>3. ToSet(inbox[s]) = {Head(inbox[s])} \cup ToSet(Tail(inbox[s]))
          BY <3>1, <4>2, TailSet
        <4>4. ToSet(inbox'[s]) = ToSet(Tail(inbox[s])) \cup {Head(down).seq}
          BY <2>4, <4>1, <4>2, EventAppended
        <4> QED
          BY <4>1, <4>3, <4>4
      <3>3. CASE ~(Len(inbox[s]) >= RecvCap)
        <4>1. inbox'[s] = Append(inbox[s], Head(down).seq) /\ missed'[s] = missed[s]
          BY <1>8, <3>1, <3>3 DEF ReadEvent
        <4>2. ToSet(inbox'[s]) = ToSet(inbox[s]) \cup {Head(down).seq}
          BY <2>4, <3>1, <4>1, EventAppended
        <4> QED
          BY <4>1, <4>2
      <3> QED
        BY <3>2, <3>3
    <2>6. \A s \in recv : \A e : Covered(s, e) => Covered(s, e)'
      BY <2>1, <2>3, <2>5 DEF Covered
    <2> QED
      BY <2>1, <2>6, EventMoves
  <1>9. CASE DaemonReads
    <2>0. PICK c \in Calls : c = Head(up).call /\ ran[c] = 0 /\ ran' = [ran EXCEPT ![c] = 1]
      BY <1>9, DaemonStepRuns
    <2>1. /\ UNCHANGED <<recv, inbox, taken, missed, down, emitted, link>> /\ dOut = NoFrame
      BY <1>9 DEF DaemonReads, LoopShape
    <2>2. EventsIn(<<dOut>>) = {}
      BY <2>1, EventsOne DEF NoFrame
    <2>3. CASE c \in Subscribers
      <3>1. PICK k \in 0..Len(backlog) :
              /\ backlog' = IF backlog = Off THEN <<>> ELSE SubSeq(backlog, 1, k)
              /\ skipped' = skipped \cup IF backlog = Off THEN {} ELSE {backlog[i] : i \in (k + 1)..Len(backlog)}
              /\ since' = [since EXCEPT ![c] = emitted]
        BY <1>9, <2>0, <2>3 DEF DaemonReads, Piped
      <3>2. (IF backlog = Off THEN {} ELSE ToSet(backlog)) \subseteq
              (IF backlog' = Off THEN {} ELSE ToSet(backlog')) \cup skipped'
        <4>1. CASE backlog # Off
          <5>1. backlog \in Seq(1..MaxEvents)
            BY <4>1 DEF TypeOK
          <5>2. SubSeq(backlog, 1, k) \in Seq(1..MaxEvents) /\ DOMAIN SubSeq(backlog, 1, k) = 1..k
                /\ \A i \in 1..k : SubSeq(backlog, 1, k)[i] = backlog[i]
            <6>1. k \in 0..Len(backlog)
              OBVIOUS
            <6> QED
              BY <5>1, <6>1, Prefix
          <5>3. backlog' # Off /\ backlog' = SubSeq(backlog, 1, k)
            BY <3>1, <4>1, <5>2, NotOff
          <5>4. ASSUME NEW i \in DOMAIN backlog PROVE backlog[i] \in ToSet(backlog') \cup skipped'
            <6>1. CASE i \in 1..k
              BY <5>2, <5>3, <6>1 DEF ToSet
            <6>2. CASE i \notin 1..k
              <7>1. i \in (k + 1)..Len(backlog)
                BY <5>1, <6>2
              <7> QED
                BY <3>1, <4>1, <7>1
            <6> QED
              BY <6>1, <6>2
          <5> QED
            BY <4>1, <5>3, <5>4 DEF ToSet
        <4> QED
          BY <4>1
      <3>3. OnTheWay \subseteq OnTheWay' \cup skipped' /\ skipped \subseteq skipped'
        BY <2>1, <2>2, <3>1, <3>2 DEF OnTheWay, EventsIn
      <3>4. \A s, e : Covered(s, e) => Covered(s, e)'
        BY <2>1, <3>3 DEF Covered
      <3>5. /\ since'[c] = emitted /\ ran'[c] = 1
            /\ \A s \in Subscribers \ {c} : since'[s] = since[s] /\ ran'[s] = ran[s]
        <4>1. /\ since' = [since EXCEPT ![c] = emitted] /\ since \in [Subscribers -> 0..MaxEvents]
              /\ ran' = [ran EXCEPT ![c] = 1] /\ ran \in [Calls -> Nat]
          BY <2>0, <2>3, <3>1, TypeParts DEF RemoteOK
        <4> QED
          BY <2>0, <2>3, <4>1 DEF Calls
      <3>6. ASSUME link = "up", NEW s \in recv, NEW e \in (since'[s] + 1)..emitted PROVE Covered(s, e)'
        <4>1. s \in Subscribers /\ emitted \in Nat
          BY ClientAssumption DEF TypeOK
        <4>2. s # c
          BY <3>5, <3>6, <4>1
        <4> QED
          BY <3>4, <3>5, <3>6, <4>1, <4>2 DEF EventInv
      <3> QED
        BY <2>1, <3>5, <3>6 DEF EventInv
    <2>4. CASE c \notin Subscribers
      <3>1. UNCHANGED <<backlog, skipped, since>>
        BY <1>9, <2>0, <2>4 DEF DaemonReads
      <3>2. OnTheWay \subseteq OnTheWay'
        BY <2>1, <2>2, <3>1 DEF OnTheWay, EventsIn
      <3>3. \A s, e : Covered(s, e) => Covered(s, e)'
        BY <2>1, <3>1, <3>2 DEF Covered
      <3>4. \A s \in Subscribers : ran'[s] = ran[s]
        BY <2>0, <2>4 DEF TypeOK, Calls
      <3> QED
        BY <2>1, <3>1, <3>3, <3>4 DEF EventInv
    <2> QED
      BY <2>3, <2>4
  <1>10. CASE DaemonTakesEvent
    <2>1. /\ UNCHANGED <<recv, inbox, taken, missed, down, emitted, link, skipped, since, ran>> /\ dOut = NoFrame
          /\ dOut' = [kind |-> "event", seq |-> Head(backlog)] /\ backlog' = Tail(backlog)
          /\ backlog # Off /\ backlog # <<>> /\ backlog \in Seq(1..MaxEvents)
      BY <1>10 DEF DaemonTakesEvent, LoopShape, TypeOK
    <2>2. EventsIn(<<dOut>>) = {} /\ EventsIn(<<dOut'>>) = {Head(backlog)}
      <3>1. dOut.kind = "none" /\ dOut'.kind = "event" /\ dOut'.seq = Head(backlog)
        BY <2>1 DEF NoFrame
      <3>2. EventsIn(<<dOut>>) = {}
        BY <3>1, EventsOne
      <3>3. EventsIn(<<dOut'>>) = {dOut'.seq}
        BY <3>1, EventsOne
      <3> QED
        BY <3>1, <3>2, <3>3
    <2>3. backlog' # Off /\ ToSet(backlog) = {Head(backlog)} \cup ToSet(backlog')
      BY <2>1, HeadTail, TailSet, NotOff
    <2>4. OnTheWay \subseteq OnTheWay'
      BY <2>1, <2>2, <2>3 DEF OnTheWay, EventsIn
    <2>5. \A s, e : Covered(s, e) => Covered(s, e)'
      BY <2>1, <2>4 DEF Covered
    <2> QED
      BY <2>1, <2>5, EventMoves
  <1>11. CASE DaemonWrites
    <2>1. /\ UNCHANGED <<recv, inbox, taken, missed, backlog, emitted, link, skipped, since, ran>>
          /\ dOut \in DownFrame /\ down \in Seq(DownFrame) /\ down' = Append(down, dOut)
      BY <1>11 DEF DaemonWrites, LoopShape, TypeOK
    <2>2. EventsIn(down') = EventsIn(down) \cup EventsIn(<<dOut>>)
      BY <2>1, EventsAppend
    <2>3. OnTheWay \subseteq OnTheWay'
      BY <2>1, <2>2 DEF OnTheWay, EventsIn
    <2>4. \A s, e : Covered(s, e) => Covered(s, e)'
      BY <2>1, <2>3 DEF Covered
    <2> QED
      BY <2>1, <2>4, EventMoves
  <1>12. CASE Emit
    <2>1. /\ UNCHANGED <<recv, inbox, taken, missed, down, dOut, link, skipped, since, ran>>
          /\ emitted' = emitted + 1 /\ backlog' = Append(backlog, emitted + 1) /\ emitted \in 0..MaxEvents
          /\ backlog # Off /\ backlog \in Seq(1..MaxEvents) /\ emitted + 1 \in 1..MaxEvents
      BY <1>12 DEF Emit, TypeOK
    <2>2. backlog' # Off /\ ToSet(backlog') = ToSet(backlog) \cup {emitted + 1}
      BY <2>1, EventAppended, NotOff
    <2>3. OnTheWay \cup {emitted + 1} \subseteq OnTheWay'
      BY <2>1, <2>2 DEF OnTheWay, EventsIn
    <2>4. \A s, e : Covered(s, e) \/ e = emitted + 1 => Covered(s, e)'
      BY <2>1, <2>3 DEF Covered
    <2>5. \A e \in (emitted + 1)..emitted' : e = emitted + 1
      BY <2>1
    <2> QED
      BY <2>1, <2>4, <2>5, EventMoves
  <1>13. CASE EmitOverwrites
    <2> DEFINE k == Len(backlog) - CastCap + 1
    <2>1. /\ UNCHANGED <<recv, inbox, taken, missed, down, dOut, link, since, ran>>
          /\ emitted' = emitted + 1 /\ emitted \in 0..MaxEvents /\ emitted + 1 \in 1..MaxEvents
          /\ backlog # Off /\ backlog \in Seq(1..MaxEvents)
          /\ k \in 1..Len(backlog) /\ skipped' = skipped \cup {backlog[k]}
          /\ backlog' = Append(RemoveAt(backlog, k), emitted + 1)
      BY <1>13, ClientAssumption DEF EmitOverwrites, TypeOK
    <2> HIDE DEF k
    <2>2. RemoveAt(backlog, k) \in Seq(1..MaxEvents) /\ ToSet(backlog) \subseteq ToSet(RemoveAt(backlog, k)) \cup {backlog[k]}
      BY <2>1, Removed, RemovedSet
    <2>3. backlog' # Off /\ ToSet(backlog') = ToSet(RemoveAt(backlog, k)) \cup {emitted + 1}
      BY <2>1, <2>2, EventAppended, NotOff
    <2>4. OnTheWay \cup skipped \cup {emitted + 1} \subseteq OnTheWay' \cup skipped'
      BY <2>1, <2>2, <2>3 DEF OnTheWay, EventsIn
    <2>5. \A s, e : Covered(s, e) \/ e = emitted + 1 => Covered(s, e)'
      BY <2>1, <2>4 DEF Covered
    <2>6. \A e \in (emitted + 1)..emitted' : e = emitted + 1
      BY <2>1
    <2> QED
      BY <2>1, <2>5, <2>6, EventMoves
  <1> QED
    BY <1>1, <1>2, <1>3, <1>4, <1>5, <1>6, <1>7, <1>8, <1>9, <1>10, <1>11, <1>12, <1>13, NextSplits

(* No event is lost between the daemon and a receiver without a trace:     *)
(* after subscribe has returned, each is on the way, delivered, or counted *)
(* as lost: by a full receiver, by a new subscription, or in the broadcast *)
(* channel of the daemon, whose pump skips what was overwritten there.     *)
THEOREM NothingLost == Spec => []NoEventLost
  <1>1. Init => EventInv
    BY EventInit
  <1>2. IInv /\ IInv' /\ EventInv /\ [Next]_vars => EventInv'
    BY EventStep DEF IInv
  <1>3. EventInv => NoEventLost
    BY DEF EventInv, NoEventLost, Covered
  <1> QED
    BY <1>1, <1>2, <1>3, Invariance, PTL DEF Spec
-----------------------------------------------------------------------------
(* The order in which events reach a receiver.  They are numbered as they  *)
(* are emitted, and every place on their way is a queue.                   *)
Increasing(s) == \A i, j \in DOMAIN s : i < j => s[i] < s[j]
Before(S, T) == \A m \in S : \A n \in T : m < n
FramesInOrder(frames) ==
    \A i, j \in DOMAIN frames :
        i < j /\ frames[i].kind = "event" /\ frames[j].kind = "event" => frames[i].seq < frames[j].seq

Unsent == IF backlog = Off THEN {} ELSE ToSet(backlog)

(* On the wire: the frames sent, then the one at hand, then the backlog.   *)
WireOrder ==
    /\ FramesInOrder(down)
    /\ Before(EventsIn(down), EventsIn(<<dOut>>) \cup Unsent)
    /\ Before(EventsIn(<<dOut>>), Unsent)
    /\ backlog # Off => Increasing(backlog)
    /\ OnTheWay \subseteq 1..emitted

(* At a receiver: what it yielded, what it holds, then what is to come.    *)
ReceiverOrder(c) ==
    /\ taken[c] \cup ToSet(inbox[c]) \subseteq 1..emitted
    /\ Increasing(inbox[c])
    /\ Before(taken[c], ToSet(inbox[c]) \cup OnTheWay)
    /\ Before(ToSet(inbox[c]), OnTheWay)

OrderInv == WireOrder /\ \A c \in Subscribers : ReceiverOrder(c)

LEMMA IncreasingAppend ==
  ASSUME NEW s \in Seq(1..MaxEvents), NEW e \in 1..MaxEvents, Increasing(s), Before(ToSet(s), {e})
  PROVE  Increasing(Append(s, e))
  <1>1. /\ DOMAIN Append(s, e) = DOMAIN s \cup {Len(s) + 1} /\ Len(s) + 1 \notin DOMAIN s
        /\ \A i \in DOMAIN s : Append(s, e)[i] = s[i]
        /\ Append(s, e)[Len(s) + 1] = e /\ DOMAIN s = 1..Len(s) /\ Len(s) \in Nat
    BY Appended
  <1>2. \A i \in DOMAIN s : s[i] < e
    BY DEF Before, ToSet
  <1> SUFFICES ASSUME NEW i \in DOMAIN Append(s, e), NEW j \in DOMAIN Append(s, e), i < j
               PROVE  Append(s, e)[i] < Append(s, e)[j]
    BY DEF Increasing
  <1>3. i \in DOMAIN s
    BY <1>1
  <1>4. CASE j \in DOMAIN s
    BY <1>1, <1>3, <1>4 DEF Increasing
  <1>5. CASE j = Len(s) + 1
    BY <1>1, <1>2, <1>3, <1>5
  <1> QED
    BY <1>1, <1>4, <1>5

LEMMA IncreasingRemove ==
  ASSUME NEW s \in Seq(1..MaxEvents), NEW k \in 1..Len(s), Increasing(s)
  PROVE  Increasing(RemoveAt(s, k))
  <1>0. /\ DOMAIN s = 1..Len(s) /\ Len(s) \in Nat /\ DOMAIN RemoveAt(s, k) = 1..(Len(s) - 1)
        /\ \A i \in 1..(Len(s) - 1) : RemoveAt(s, k)[i] = IF i < k THEN s[i] ELSE s[i + 1]
    BY Removed
  <1> SUFFICES ASSUME NEW i \in 1..(Len(s) - 1), NEW j \in 1..(Len(s) - 1), i < j
               PROVE  RemoveAt(s, k)[i] < RemoveAt(s, k)[j]
    BY <1>0 DEF Increasing
  <1>1. PICK a \in DOMAIN s : RemoveAt(s, k)[i] = s[a] /\ a = IF i < k THEN i ELSE i + 1
    BY <1>0
  <1>2. PICK b \in DOMAIN s : RemoveAt(s, k)[j] = s[b] /\ b = IF j < k THEN j ELSE j + 1
    BY <1>0
  <1>3. a < b
    BY <1>0, <1>1, <1>2
  <1> QED
    BY <1>1, <1>2, <1>3 DEF Increasing

LEMMA IncreasingTail ==
  ASSUME NEW s \in Seq(1..MaxEvents), s # <<>>, Increasing(s)
  PROVE  Increasing(Tail(s)) /\ Before({Head(s)}, ToSet(Tail(s)))
  <1>1. /\ Head(s) = s[1] /\ 1 \in DOMAIN s /\ DOMAIN Tail(s) \subseteq Nat \ {0}
        /\ \A i \in DOMAIN Tail(s) : i + 1 \in DOMAIN s /\ Tail(s)[i] = s[i + 1]
    BY HeadTail
  <1>2. Increasing(Tail(s))
    BY <1>1 DEF Increasing
  <1>3. \A i \in DOMAIN Tail(s) : 1 < i + 1
    BY <1>1
  <1>4. \A i \in DOMAIN Tail(s) : Head(s) < Tail(s)[i]
    BY <1>1, <1>3 DEF Increasing
  <1> QED
    BY <1>2, <1>4 DEF Before, ToSet

LEMMA FramesAppend ==
  ASSUME NEW s \in Seq(DownFrame), NEW f \in DownFrame, FramesInOrder(s),
         Before(EventsIn(s), EventsIn(<<f>>))
  PROVE  FramesInOrder(Append(s, f))
  <1>1. /\ DOMAIN Append(s, f) = DOMAIN s \cup {Len(s) + 1} /\ Len(s) + 1 \notin DOMAIN s
        /\ \A i \in DOMAIN s : Append(s, f)[i] = s[i]
        /\ Append(s, f)[Len(s) + 1] = f
    BY Appended
  <1>a. DOMAIN s = 1..Len(s) /\ Len(s) \in Nat
    OBVIOUS
  <1>2. \A i \in DOMAIN s : s[i].kind = "event" /\ f.kind = "event" => s[i].seq < f.seq
    BY EventsOne DEF Before, EventsIn
  <1> SUFFICES ASSUME NEW i \in DOMAIN Append(s, f), NEW j \in DOMAIN Append(s, f), i < j,
                      Append(s, f)[i].kind = "event", Append(s, f)[j].kind = "event"
               PROVE  Append(s, f)[i].seq < Append(s, f)[j].seq
    BY DEF FramesInOrder
  <1>3. i \in DOMAIN s
    BY <1>1, <1>a
  <1>4. CASE j \in DOMAIN s
    BY <1>1, <1>3, <1>4 DEF FramesInOrder
  <1>5. CASE j = Len(s) + 1
    BY <1>1, <1>2, <1>3, <1>5
  <1> QED
    BY <1>1, <1>4, <1>5

LEMMA FramesTail ==
  ASSUME NEW s \in Seq(DownFrame), s # <<>>, FramesInOrder(s)
  PROVE  /\ FramesInOrder(Tail(s)) /\ EventsIn(Tail(s)) \subseteq EventsIn(s)
         /\ EventsIn(<<Head(s)>>) \subseteq EventsIn(s)
         /\ Before(EventsIn(<<Head(s)>>), EventsIn(Tail(s)))
  <1>1. /\ Head(s) = s[1] /\ 1 \in DOMAIN s
        /\ \A i \in DOMAIN Tail(s) : i + 1 \in DOMAIN s /\ Tail(s)[i] = s[i + 1]
    BY HeadTail
  <1>2. DOMAIN Tail(s) \subseteq Nat \ {0}
    BY HeadTail
  <1>3. FramesInOrder(Tail(s))
    BY <1>1, <1>2 DEF FramesInOrder
  <1>4. EventsIn(Tail(s)) \subseteq EventsIn(s)
    BY <1>1 DEF EventsIn
  <1>5. EventsIn(<<Head(s)>>) \subseteq EventsIn(s)
    BY <1>1, EventsOne DEF EventsIn
  <1>6. \A i \in DOMAIN Tail(s) : 1 < i + 1
    BY <1>2
  <1>7. \A i \in DOMAIN Tail(s) :
          Head(s).kind = "event" /\ Tail(s)[i].kind = "event" => Head(s).seq < Tail(s)[i].seq
    BY <1>1, <1>6 DEF FramesInOrder
  <1>8. Before(EventsIn(<<Head(s)>>), EventsIn(Tail(s)))
    BY <1>7, EventsOne DEF Before, EventsIn
  <1> QED
    BY <1>3, <1>4, <1>5, <1>8

-----------------------------------------------------------------------------
(* What a step of the SDK does to the events on the wire.                  *)
WireKept == UNCHANGED <<down, dOut, backlog, emitted>>
WireCut ==
    /\ down' \in {down, <<>>} /\ EventsIn(<<dOut'>>) \subseteq EventsIn(<<dOut>>)
    /\ backlog' = Off \/ UNCHANGED backlog
    /\ UNCHANGED emitted
WireRead == down # <<>> /\ down' = Tail(down) /\ UNCHANGED <<dOut, backlog, emitted>>

LEMMA WireMoves ==
  ASSUME TypeOK, [Next]_vars
  PROVE  \/ WireKept \/ WireCut \/ WireRead
         \/ DaemonReads \/ DaemonTakesEvent \/ DaemonWrites \/ Emit \/ EmitOverwrites
  <1> USE DEF caller, task, stream, wire, remote
  <1>1. ASSUME \/ \E c \in Calls : Start(c) \/ EnqueueSend(c) \/ EnqueueSubscribe(c) \/ GotReceiver(c) \/ Returns(c)
               \/ \E c \in Subscribers : Receives(c)
               \/ StartClose \/ EnqueueClose \/ DropHandle
               \/ TakeSend \/ TakeSubscribe \/ TakeClose \/ Written \/ Breaks \/ Finish \/ UNCHANGED vars
        PROVE  WireKept
    BY <1>1 DEF Start, EnqueueSend, EnqueueSubscribe, Enqueue, GotReceiver, Returns, Answered, Failed, Closed,
         TimesOut, Abandon, Return, Receives, RecvEvent, RecvLagged, DropReceiver, StartClose, EnqueueClose,
         DropHandle, TakeSend, TakeSubscribe, TakeClose, Written, Breaks, WriteFails, CloseSent, NoMoreHandles,
         ReadEnd, Finish, vars, WireKept
  <1>2. ReadAnswer \/ ReadEvent => WireRead
    BY DEF ReadAnswer, ReadEvent, Read, WireRead
  <1>3. DaemonEnds => WireCut
    BY EventsOne DEF DaemonEnds, WireCut, NoFrame
  <1>4. CutLink => WireCut
    BY DEF CutLink, WireCut
  <1> QED
    BY <1>1, <1>2, <1>3, <1>4, NextSplits

LEMMA WireStep ==
  ASSUME TypeOK, TypeOK', LoopShape, WireOrder, [Next]_vars
  PROVE  WireOrder' /\ OnTheWay' \subseteq OnTheWay \cup (emitted + 1)..emitted'
  <1> USE DEF caller, task, stream, wire, remote
  <1>t. /\ down \in Seq(DownFrame) /\ (backlog # Off => backlog \in Seq(1..MaxEvents))
        /\ emitted \in Nat /\ MaxEvents \in Nat
    BY ClientAssumption DEF TypeOK
  <1>1. CASE WireKept
    <2>1. UNCHANGED <<down, dOut, backlog, emitted>> /\ OnTheWay' = OnTheWay /\ Unsent' = Unsent
      BY <1>1 DEF WireKept, Unsent, OnTheWay, EventsIn
    <2> QED
      BY <2>1 DEF WireOrder, EventsIn, FramesInOrder, Increasing, Before
  <1>2. CASE WireCut
    <2>1. FramesInOrder(down') /\ EventsIn(down') \subseteq EventsIn(down)
      BY <1>2 DEF WireCut, WireOrder, FramesInOrder, EventsIn
    <2>2. EventsIn(<<dOut'>>) \subseteq EventsIn(<<dOut>>) /\ Unsent' \subseteq Unsent /\ OnTheWay' \subseteq OnTheWay
      BY <1>2, <2>1 DEF WireCut, Unsent, OnTheWay, EventsIn
    <2>3. backlog' # Off => Increasing(backlog')
      BY <1>2 DEF WireCut, WireOrder
    <2>4. emitted' = emitted
      BY <1>2 DEF WireCut
    <2> QED
      BY <2>1, <2>2, <2>3, <2>4 DEF WireOrder, Before, EventsIn, FramesInOrder, Increasing
  <1>3. CASE WireRead
    <2>1. FramesInOrder(down') /\ EventsIn(down') \subseteq EventsIn(down)
      BY <1>t, <1>3, FramesTail DEF WireRead, WireOrder
    <2>2. /\ UNCHANGED <<dOut, backlog, emitted>> /\ Unsent' = Unsent /\ OnTheWay' \subseteq OnTheWay
      BY <1>3, <2>1 DEF WireRead, Unsent, OnTheWay, EventsIn
    <2> QED
      BY <2>1, <2>2 DEF WireOrder, Before, EventsIn, FramesInOrder, Increasing
  <1>4. CASE DaemonReads
    <2>1. UNCHANGED <<down, emitted>> /\ EventsIn(<<dOut'>>) = {}
      BY <1>4, EventsOne DEF DaemonReads
    <2>2. (backlog' # Off => Increasing(backlog')) /\ Unsent' \subseteq Unsent
      <3>1. CASE UNCHANGED backlog
        BY <3>1 DEF WireOrder, Unsent
      <3>2. CASE backlog' = <<>>
        BY <3>2 DEF Increasing, Unsent, ToSet
      <3>3. CASE backlog # Off /\ backlog' # backlog
        <4>1. PICK k \in 0..Len(backlog) : backlog' = SubSeq(backlog, 1, k)
          BY <1>4, <3>3 DEF DaemonReads, Piped
        <4>2. /\ backlog' \in Seq(1..MaxEvents) /\ DOMAIN backlog' = 1..k
              /\ \A i \in 1..k : backlog'[i] = backlog[i]
          BY <1>t, <3>3, <4>1, Prefix
        <4>3. 1..k \subseteq DOMAIN backlog
          BY <1>t, <3>3
        <4>4. Increasing(backlog')
          BY <3>3, <4>2, <4>3 DEF WireOrder, Increasing
        <4>5. backlog' # Off
          BY <4>2, NotOff
        <4>6. ToSet(backlog') \subseteq ToSet(backlog)
          BY <4>2, <4>3 DEF ToSet
        <4> QED
          BY <3>3, <4>4, <4>5, <4>6 DEF Unsent
      <3> QED
        BY <1>4, <3>1, <3>2, <3>3 DEF DaemonReads
    <2>3. OnTheWay' \subseteq OnTheWay
      BY <2>1, <2>2 DEF OnTheWay, Unsent, EventsIn
    <2> QED
      BY <2>1, <2>2, <2>3 DEF WireOrder, Before, EventsIn, FramesInOrder, Increasing
  <1>5. CASE DaemonTakesEvent
    <2>1. /\ UNCHANGED <<down, emitted>> /\ dOut' = [kind |-> "event", seq |-> Head(backlog)]
          /\ backlog \in Seq(1..MaxEvents) /\ backlog # Off /\ backlog # <<>> /\ backlog' = Tail(backlog)
      BY <1>5, <1>t DEF DaemonTakesEvent
    <2>2. EventsIn(<<dOut'>>) = {Head(backlog)}
      <3>1. dOut'.kind = "event" /\ dOut'.seq = Head(backlog)
        BY <2>1
      <3>2. EventsIn(<<dOut'>>) = {dOut'.seq}
        BY <3>1, EventsOne
      <3> QED
        BY <3>1, <3>2
    <2>3. /\ backlog' # Off /\ ToSet(backlog) = {Head(backlog)} \cup ToSet(backlog')
          /\ Increasing(backlog') /\ Before({Head(backlog)}, ToSet(backlog'))
      BY <2>1, HeadTail, TailSet, NotOff, IncreasingTail DEF WireOrder
    <2>4. Unsent = ToSet(backlog) /\ Unsent' = ToSet(backlog')
      BY <2>1, <2>3 DEF Unsent
    <2>5. OnTheWay' \subseteq OnTheWay
      BY <2>1, <2>2, <2>3, <2>4 DEF OnTheWay, Unsent, EventsIn
    <2> QED
      BY <2>1, <2>2, <2>3, <2>4, <2>5 DEF WireOrder, Before, EventsIn, FramesInOrder
  <1>6. CASE DaemonWrites
    <2>1. /\ UNCHANGED <<backlog, emitted>> /\ down' = Append(down, dOut) /\ dOut \in DownFrame
          /\ dOut' = NoFrame
      BY <1>6 DEF DaemonWrites, LoopShape, TypeOK
    <2>2. EventsIn(down') = EventsIn(down) \cup EventsIn(<<dOut>>) /\ EventsIn(<<dOut'>>) = {}
      BY <1>t, <2>1, EventsAppend, EventsOne DEF NoFrame
    <2>3. Before(EventsIn(down), EventsIn(<<dOut>>))
      BY DEF WireOrder, Before
    <2>4. FramesInOrder(down')
      BY <1>t, <2>1, <2>3, FramesAppend DEF WireOrder
    <2>5. Unsent' = Unsent /\ OnTheWay' \subseteq OnTheWay
      BY <2>1, <2>2 DEF OnTheWay, Unsent, EventsIn
    <2> QED
      BY <2>1, <2>2, <2>4, <2>5 DEF WireOrder, Before, EventsIn, Increasing
  <1>7. CASE Emit
    <2>1. /\ UNCHANGED <<down, dOut>> /\ emitted' = emitted + 1 /\ backlog' = Append(backlog, emitted + 1)
          /\ backlog # Off /\ backlog \in Seq(1..MaxEvents) /\ emitted + 1 \in 1..MaxEvents
      BY <1>7, <1>t DEF Emit, TypeOK
    <2>2. backlog' # Off /\ ToSet(backlog') = ToSet(backlog) \cup {emitted + 1}
      BY <2>1, EventAppended, NotOff
    <2>3. Unsent = ToSet(backlog) /\ Unsent' = Unsent \cup {emitted + 1}
      BY <2>1, <2>2 DEF Unsent
    <2>4. OnTheWay' \subseteq OnTheWay \cup {emitted + 1} /\ Unsent \subseteq OnTheWay
      BY <2>1, <2>3 DEF OnTheWay, Unsent, EventsIn
    <2>5. Before(OnTheWay, {emitted + 1}) /\ EventsIn(down) \subseteq OnTheWay /\ EventsIn(<<dOut>>) \subseteq OnTheWay
      BY <1>t DEF WireOrder, Before, OnTheWay
    <2>6. Increasing(backlog')
      <3>1. Before(ToSet(backlog), {emitted + 1})
        BY <2>3, <2>4, <2>5 DEF Before
      <3> QED
        BY <2>1, <3>1, IncreasingAppend DEF WireOrder
    <2>7. OnTheWay' \subseteq 1..emitted'
      BY <1>t, <2>1, <2>4 DEF WireOrder
    <2>a. {emitted + 1} = (emitted + 1)..emitted'
      BY <1>t, <2>1
    <2>8. /\ Before(EventsIn(down), EventsIn(<<dOut>>) \cup Unsent') /\ Before(EventsIn(<<dOut>>), Unsent')
      BY <2>3, <2>5 DEF WireOrder, Before
    <2>9. FramesInOrder(down') /\ EventsIn(down') = EventsIn(down) /\ EventsIn(<<dOut'>>) = EventsIn(<<dOut>>)
      BY <2>1 DEF WireOrder
    <2> QED
      BY <2>4, <2>6, <2>7, <2>8, <2>9, <2>a DEF WireOrder
  <1>8. CASE EmitOverwrites
    <2> DEFINE k == Len(backlog) - CastCap + 1
               r == RemoveAt(backlog, k)
    <2>1. /\ UNCHANGED <<down, dOut>> /\ emitted' = emitted + 1 /\ backlog' = Append(r, emitted + 1)
          /\ backlog # Off /\ backlog \in Seq(1..MaxEvents) /\ emitted + 1 \in 1..MaxEvents
          /\ k \in 1..Len(backlog)
      BY <1>8, <1>t, ClientAssumption DEF EmitOverwrites, TypeOK
    <2>2. r \in Seq(1..MaxEvents) /\ ToSet(r) \subseteq ToSet(backlog) /\ Increasing(r)
      BY <2>1, Removed, RemovedSet, IncreasingRemove DEF WireOrder
    <2> HIDE DEF r, k
    <2>3. backlog' # Off /\ ToSet(backlog') = ToSet(r) \cup {emitted + 1}
      BY <2>1, <2>2, EventAppended, NotOff
    <2>4. Unsent = ToSet(backlog) /\ Unsent' \subseteq Unsent \cup {emitted + 1}
      BY <2>1, <2>2, <2>3 DEF Unsent
    <2>5. OnTheWay' \subseteq OnTheWay \cup {emitted + 1} /\ Unsent \subseteq OnTheWay
      BY <2>1, <2>4 DEF OnTheWay, Unsent, EventsIn
    <2>6. Before(OnTheWay, {emitted + 1}) /\ EventsIn(down) \subseteq OnTheWay /\ EventsIn(<<dOut>>) \subseteq OnTheWay
      BY <1>t DEF WireOrder, Before, OnTheWay
    <2>7. Increasing(backlog')
      <3>1. Before(ToSet(r), {emitted + 1})
        BY <2>2, <2>4, <2>5, <2>6 DEF Before
      <3> QED
        BY <2>1, <2>2, <3>1, IncreasingAppend
    <2>8. OnTheWay' \subseteq 1..emitted'
      BY <1>t, <2>1, <2>5 DEF WireOrder
    <2>9. {emitted + 1} = (emitted + 1)..emitted'
      BY <1>t, <2>1
    <2>10. /\ Before(EventsIn(down), EventsIn(<<dOut>>) \cup Unsent') /\ Before(EventsIn(<<dOut>>), Unsent')
      BY <2>4, <2>6 DEF WireOrder, Before
    <2>11. FramesInOrder(down') /\ EventsIn(down') = EventsIn(down) /\ EventsIn(<<dOut'>>) = EventsIn(<<dOut>>)
      BY <2>1 DEF WireOrder
    <2> QED
      BY <2>5, <2>7, <2>8, <2>9, <2>10, <2>11 DEF WireOrder
  <1> QED
    BY <1>1, <1>2, <1>3, <1>4, <1>5, <1>6, <1>7, <1>8, WireMoves

(* The steps after which no receiver has more to expect than before.       *)
LEMMA ReceiverKeeps ==
  ASSUME NEW c \in Subscribers, ReceiverOrder(c), OnTheWay' \subseteq OnTheWay, emitted' = emitted,
         taken'[c] = taken[c], inbox'[c] = inbox[c] \/ inbox'[c] = <<>>
  PROVE  ReceiverOrder(c)'
  <1>1. ToSet(inbox'[c]) \subseteq ToSet(inbox[c]) /\ Increasing(inbox'[c])
    BY DEF ReceiverOrder, Increasing, ToSet
  <1> QED
    BY <1>1 DEF ReceiverOrder, Before

LEMMA ReceiverStep ==
  ASSUME TypeOK, TypeOK', LoopShape, WireOrder, [Next]_vars, NEW c \in Subscribers, ReceiverOrder(c),
         OnTheWay' \subseteq OnTheWay \cup (emitted + 1)..emitted'
  PROVE  ReceiverOrder(c)'
  <1> USE DEF caller, task, stream, wire, remote
  <1>t. /\ down \in Seq(DownFrame) /\ (backlog # Off => backlog \in Seq(1..MaxEvents))
        /\ emitted \in 0..MaxEvents /\ MaxEvents \in Nat /\ inbox[c] \in Seq(1..MaxEvents)
        /\ taken[c] \subseteq 1..MaxEvents
    BY ClientAssumption DEF TypeOK
  <1>1. ASSUME NEW d \in Calls, Start(d) \/ EnqueueSend(d) \/ EnqueueSubscribe(d) \/ GotReceiver(d) \/ Returns(d)
        PROVE  ReceiverOrder(c)'
    <2>1. UNCHANGED <<down, dOut, backlog, emitted, taken>> /\ (inbox'[c] = inbox[c] \/ inbox'[c] = <<>>)
      BY <1>1 DEF Start, EnqueueSend, EnqueueSubscribe, Enqueue, GotReceiver, Returns, Answered, Failed, Closed,
         TimesOut, Abandon, Return
    <2>2. OnTheWay' = OnTheWay
      BY <2>1 DEF OnTheWay, EventsIn
    <2> QED
      BY <2>1, <2>2, ReceiverKeeps
  <1>2. CASE \/ StartClose \/ EnqueueClose \/ DropHandle
             \/ TakeSend \/ TakeSubscribe \/ TakeClose \/ Written \/ Breaks \/ Finish \/ UNCHANGED vars
    <2>1. UNCHANGED <<down, dOut, backlog, emitted, taken, inbox>>
      BY <1>2 DEF StartClose, EnqueueClose,
         DropHandle, TakeSend, TakeSubscribe, TakeClose, Written, Breaks, WriteFails, CloseSent, NoMoreHandles,
         ReadEnd, Finish, vars
    <2>2. OnTheWay' = OnTheWay
      BY <2>1 DEF OnTheWay, EventsIn
    <2> QED
      BY <2>1, <2>2, ReceiverKeeps
  <1>3. ASSUME NEW d \in Subscribers, Receives(d) PROVE ReceiverOrder(c)'
    <2>1. UNCHANGED <<down, dOut, backlog, emitted>>
      BY <1>3 DEF Receives, RecvEvent, RecvLagged, DropReceiver
    <2>2. OnTheWay' = OnTheWay
      BY <2>1 DEF OnTheWay, EventsIn
    <2>3. CASE RecvEvent(d) /\ d = c
      <3>1. /\ inbox[c] # <<>> /\ inbox'[c] = Tail(inbox[c])
            /\ taken'[c] = taken[c] \cup {Head(inbox[c])}
        BY <2>3 DEF RecvEvent, TypeOK
      <3>2. ToSet(inbox[c]) = {Head(inbox[c])} \cup ToSet(inbox'[c])
        BY <1>t, <3>1, TailSet
      <3>3. Increasing(inbox'[c]) /\ Before({Head(inbox[c])}, ToSet(inbox'[c]))
        BY <1>t, <3>1, IncreasingTail DEF ReceiverOrder
      <3> QED
        BY <2>1, <2>2, <3>1, <3>2, <3>3 DEF ReceiverOrder, Before
    <2>4. CASE ~(RecvEvent(d) /\ d = c)
      <3>1. taken'[c] = taken[c] /\ (inbox'[c] = inbox[c] \/ inbox'[c] = <<>>)
        <4>0. inbox \in [Subscribers -> Seq(1..MaxEvents)] /\ taken \in [Subscribers -> SUBSET (1..MaxEvents)]
          BY DEF TypeOK
        <4>1. CASE RecvEvent(d)
          BY <2>4, <4>0, <4>1 DEF RecvEvent
        <4>2. CASE RecvLagged(d)
          BY <4>2 DEF RecvLagged
        <4>3. CASE DropReceiver(d)
          BY <4>0, <4>3 DEF DropReceiver
        <4> QED
          BY <1>3, <4>1, <4>2, <4>3 DEF Receives
      <3> QED
        BY <2>1, <2>2, <3>1, ReceiverKeeps
    <2> QED
      BY <2>3, <2>4
  <1>4. CASE ReadAnswer
    <2>1. UNCHANGED <<dOut, backlog, emitted, taken, inbox>> /\ down # <<>> /\ down' = Tail(down)
      BY <1>4 DEF ReadAnswer, Read
    <2>2. EventsIn(down') \subseteq EventsIn(down)
      BY <1>t, <2>1, FramesTail DEF WireOrder
    <2>3. OnTheWay' \subseteq OnTheWay
      BY <2>1, <2>2 DEF OnTheWay, EventsIn
    <2> QED
      BY <2>1, <2>3, ReceiverKeeps
  <1>5. CASE ReadEvent
    <2> DEFINE e == Head(down).seq
    <2>1. /\ UNCHANGED <<dOut, backlog, emitted, taken>> /\ down # <<>> /\ down' = Tail(down)
          /\ Head(down).kind = "event"
      BY <1>5 DEF ReadEvent, Read
    <2>2. /\ EventsIn(down') \subseteq EventsIn(down) /\ EventsIn(<<Head(down)>>) = {e}
          /\ EventsIn(<<Head(down)>>) \subseteq EventsIn(down)
          /\ Before(EventsIn(<<Head(down)>>), EventsIn(down'))
      BY <1>t, <2>1, FramesTail, EventsOne DEF WireOrder
    <2>3. OnTheWay' \subseteq OnTheWay /\ e \in OnTheWay /\ EventsIn(<<dOut'>>) = EventsIn(<<dOut>>)
      BY <2>1, <2>2 DEF OnTheWay, EventsIn
    <2>4. Before({e}, OnTheWay')
      BY <2>1, <2>2, <2>3 DEF WireOrder, OnTheWay, Unsent, Before
    <2>a. OnTheWay \subseteq 1..emitted /\ 1..emitted \subseteq 1..MaxEvents
      BY <1>t DEF WireOrder
    <2>5. e \in 1..emitted /\ e \in 1..MaxEvents
      BY <2>3, <2>a
    <2>6. inbox'[c] \in {inbox[c], Append(inbox[c], e), Append(Tail(inbox[c]), e)}
          /\ (inbox'[c] = Append(Tail(inbox[c]), e) => inbox[c] # <<>> \/ inbox'[c] = Append(inbox[c], e))
      <3>1. CASE c \in recv /\ Len(inbox[c]) >= RecvCap
        <4>1. inbox'[c] = Append(Tail(inbox[c]), e)
          BY <1>5, <3>1 DEF ReadEvent
        <4>2. inbox[c] # <<>>
          BY <3>1, ClientAssumption
        <4> QED
          BY <4>1, <4>2
      <3>2. CASE ~(c \in recv /\ Len(inbox[c]) >= RecvCap)
        <4>1. inbox'[c] = IF c \in recv THEN Append(inbox[c], e) ELSE inbox[c]
          BY <1>5, <3>2 DEF ReadEvent
        <4>2. inbox[c] = <<>> \/ inbox[c] # <<>>
          OBVIOUS
        <4>3. inbox'[c] = inbox[c] \/ inbox'[c] = Append(inbox[c], e)
          BY <4>1
        <4> QED
          BY <4>2, <4>3, <1>t, <2>5
      <3> QED
        BY <3>1, <3>2
    <2>7. PICK s \in Seq(1..MaxEvents) :
            /\ inbox'[c] = s \/ inbox'[c] = Append(s, e)
            /\ Increasing(s) /\ ToSet(s) \subseteq ToSet(inbox[c])
      <3>1. Increasing(inbox[c])
        BY DEF ReceiverOrder
      <3>2. CASE inbox'[c] \in {inbox[c], Append(inbox[c], e)}
        BY <1>t, <3>1, <3>2
      <3>3. CASE inbox'[c] = Append(Tail(inbox[c]), e) /\ inbox[c] # <<>>
        BY <1>t, <3>1, <3>3, HeadTail, TailSet, IncreasingTail
      <3> QED
        BY <2>6, <3>2, <3>3
    <2> HIDE DEF e
    <2>8. Before(ToSet(s), {e})
      BY <2>3, <2>7 DEF ReceiverOrder, Before
    <2>9. Increasing(inbox'[c]) /\ ToSet(inbox'[c]) \subseteq ToSet(s) \cup {e}
      BY <2>5, <2>7, <2>8, IncreasingAppend, EventAppended
    <2> QED
      BY <2>1, <2>3, <2>4, <2>5, <2>7, <2>9 DEF ReceiverOrder, Before
  <1>6. CASE DaemonReads \/ DaemonTakesEvent \/ DaemonWrites \/ DaemonEnds \/ CutLink
    <2>1. UNCHANGED <<taken, inbox, emitted>>
      BY <1>6 DEF DaemonReads, DaemonTakesEvent, DaemonWrites, DaemonEnds, CutLink
    <2>2. OnTheWay' \subseteq OnTheWay
      BY <1>t, <2>1
    <2> QED
      BY <2>1, <2>2, ReceiverKeeps
  <1>7. CASE Emit \/ EmitOverwrites
    <2>1. UNCHANGED <<taken, inbox>> /\ emitted' = emitted + 1
      BY <1>7 DEF Emit, EmitOverwrites
    <2>2. OnTheWay' \subseteq OnTheWay \cup {emitted + 1}
      BY <1>t, <2>1
    <2>3. Before(1..emitted, {emitted + 1}) /\ 1..emitted \subseteq 1..(emitted + 1)
      BY <1>t DEF Before
    <2> QED
      BY <2>1, <2>2, <2>3 DEF ReceiverOrder, Before
  <1> QED
    BY <1>1, <1>2, <1>3, <1>4, <1>5, <1>6, <1>7, NextSplits

LEMMA OrderInit == Init => OrderInv
  <1> SUFFICES ASSUME Init PROVE OrderInv
    OBVIOUS
  <1>1. EventsIn(<<dOut>>) = {}
    BY EventsOne DEF Init, NoFrame
  <1>2. EventsIn(down) = {} /\ Unsent = {} /\ OnTheWay = {} /\ FramesInOrder(down)
    BY <1>1 DEF Init, EventsIn, Unsent, OnTheWay, FramesInOrder
  <1>3. WireOrder
    BY <1>1, <1>2 DEF Init, WireOrder, Before
  <1>4. ASSUME NEW c \in Subscribers PROVE ReceiverOrder(c)
    BY <1>2 DEF Init, ReceiverOrder, Increasing, Before, ToSet
  <1> QED
    BY <1>3, <1>4 DEF OrderInv

LEMMA OrderStep == IInv /\ IInv' /\ OrderInv /\ [Next]_vars => OrderInv'
  BY WireStep, ReceiverStep DEF IInv, OrderInv

(* Events stay in the order of the daemon wherever they are.               *)
THEOREM OrderInvariance == Spec => []OrderInv
  BY OrderInit, OrderStep, Invariance, PTL DEF Spec

(* A receiver yields each event after the older ones, and none of them     *)
(* twice: what it yields is newer than all that it has yielded.            *)
THEOREM YieldsInOrder ==
  Spec => [][\A c \in Subscribers : RecvEvent(c) => \A e \in taken[c] : e < Head(inbox[c])]_vars
  <1>1. IInv /\ OrderInv => \A c \in Subscribers : RecvEvent(c) => \A e \in taken[c] : e < Head(inbox[c])
    <2> SUFFICES ASSUME IInv, OrderInv, NEW c \in Subscribers, RecvEvent(c), NEW e \in taken[c]
                 PROVE  e < Head(inbox[c])
      OBVIOUS
    <2>1. inbox[c] # <<>> /\ inbox[c] \in Seq(1..MaxEvents)
      BY DEF RecvEvent, IInv, TypeOK
    <2>2. Head(inbox[c]) \in ToSet(inbox[c])
      BY <2>1, TailSet
    <2> QED
      BY <2>2 DEF OrderInv, ReceiverOrder, Before
  <1> QED
    BY <1>1, Invariance, OrderInvariance, PTL
=============================================================================
