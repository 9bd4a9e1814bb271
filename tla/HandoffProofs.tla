--------------------------- MODULE HandoffProofs ---------------------------
(***************************************************************************)
(* What Handoff keeps for every set of connections, devices and tasks and  *)
(* for every bound, proved with TLAPS.                                     *)
(***************************************************************************)
EXTENDS Handoff, FiniteSetTheorems, TLAPS

(* What a request holds while it waits for the database.                   *)
RequestShape ==
    \A c \in Conns :
        /\ req[c].pc = "upsert" => req[c].who \in Devices
        /\ req[c].pc = "send" => /\ req[c].task \in Tasks /\ req[c].who \in Devices
                                 /\ req[c].to \in Conns \cup {None}
        /\ req[c].pc = "notify" => /\ req[c].task \in Tasks /\ req[c].who \in Names
                                   /\ req[c].to \in Names

Took(t, from, by) ==
    \E i \in 1..Len(wins[t]) : wins[t][i].prev = from /\ wins[t][i].by = by
TookAfter(t, from, by) ==
    \E i \in 1..Len(wins'[t]) : wins'[t][i].prev = from /\ wins'[t][i].by = by

(* A takeover that still has to tell the previous owner was won from it.   *)
NotifyPending ==
    \A c \in Conns :
        req[c].pc = "notify" => Took(req[c].task, req[c].to, req[c].who)

(* Only a task with a row was ever won; a win with an expectation was won  *)
(* from the device it expected.                                            *)
WinsAsExpected ==
    \A t \in Tasks :
        /\ t \notin rows => wins[t] = <<>>
        /\ \A i \in 1..Len(wins[t]) :
              wins[t][i].expected # None => wins[t][i].prev = wins[t][i].expected

(* The identity of a connection is a device it registered.                 *)
IdentRegistered == \A c \in Conns : ident[c] # None => ident[c] \in ids[c]

(* A send goes to the connection its target had when it looked.            *)
RouteHeld ==
    \A c \in Conns :
        req[c].pc = "send" /\ req[c].to # None => req[c].who \in ids[req[c].to]

(* A message for a device is in the channel of a connection that           *)
(* registered that device, whatever came between the look at the map and   *)
(* the message.                                                            *)
ReachesAddressee ==
    \A c \in Conns : \A n \in 1..Len(inbox[c]) :
        inbox[c][n].kind # "state" => inbox[c][n].to \in ids[c]

(* The inductive invariant.                                                *)
IInv ==
    /\ TypeOK
    /\ RequestShape
    /\ IdentRegistered
    /\ WinsAsExpected
    /\ OwnershipChain
    /\ NotifyPending
    /\ NoticeFollowsLoss
    /\ SinkOutlives
    /\ WatchersOutlive
    /\ RouteHeld
    /\ ReachesAddressee

-----------------------------------------------------------------------------
LEMMA InitIInv == Init => IInv
  BY NamesAssumption, BoundsAssumption
     DEF Init, IInv, TypeOK, RequestShape, IdentRegistered, WinsAsExpected, OwnershipChain, NotifyPending,
         NoticeFollowsLoss, SinkOutlives, WatchersOutlive, RouteHeld, ReachesAddressee, Idle,
         Request, Msg, Win, Names

(* What a state_sync appends fits the channel.                             *)
LEMMA CopiesFit ==
  ASSUME TypeOK, NEW c \in Conns, NEW watching \in SUBSET Devices
  PROVE  /\ Copies(c, watching) \in Nat
         /\ Len(inbox[c]) + Copies(c, watching) <= PipeCap
<1> DEFINE mine == {d \in watching : sink[d] = c}
           room == IF up[c] = "open" THEN PipeCap - Len(inbox[c]) ELSE 0
<1>1. Cardinality(mine) \in Nat
  <2>1. mine \subseteq Devices
    OBVIOUS
  <2>2. IsFiniteSet(mine)
    BY <2>1, NamesAssumption, FS_Subset
  <2> QED
    BY <2>2, FS_CardinalityType
<1>2. Len(inbox[c]) \in Nat /\ Len(inbox[c]) <= PipeCap /\ PipeCap \in Nat
  BY BoundsAssumption DEF TypeOK
<1>3. room \in Nat /\ Len(inbox[c]) + room <= PipeCap
  <2>1. CASE up[c] = "open"
    BY <1>2, <2>1
  <2>2. CASE up[c] # "open"
    BY <1>2, <2>2
  <2> QED
    BY <2>1, <2>2
<1> QED
  BY <1>1, <1>2, <1>3 DEF Copies

LEMMA MeIsName == ASSUME TypeOK, NEW c \in Conns PROVE Me(c) \in Names
  BY DEF TypeOK, Me, Names

(* Sending one message keeps the channels typed and within capacity.       *)
LEMMA PushFits ==
  ASSUME TypeOK, NEW c, NEW m \in Msg, Push(c, m)
  PROVE  inbox' \in [Conns -> Seq(Msg)] /\ \A x \in Conns : Len(inbox'[x]) <= PipeCap
<1>1. ASSUME NEW x \in Conns
      PROVE  inbox'[x] \in Seq(Msg) /\ Len(inbox'[x]) <= PipeCap
  <2>1. inbox[x] \in Seq(Msg) /\ Len(inbox[x]) <= PipeCap /\ Len(inbox[x]) \in Nat
    BY DEF TypeOK
  <2>2. CASE x = c /\ Accepts(x)
    BY <2>1, <2>2, BoundsAssumption DEF Push, Accepts
  <2>3. CASE ~(x = c /\ Accepts(x))
    BY <2>1, <2>3 DEF Push
  <2> QED
    BY <2>2, <2>3
<1> QED
  BY <1>1 DEF Push

LEMMA TypeStep == TypeOK /\ RequestShape /\ [Next]_vars => TypeOK'
<1> SUFFICES ASSUME TypeOK, RequestShape, [Next]_vars PROVE TypeOK'
  OBVIOUS
<1> USE NamesAssumption, BoundsAssumption
    DEF conn, maps, tables, bounds
<1>1. ASSUME NEW c \in Conns, Connection(c) PROVE TypeOK'
  <2>1. CASE Open(c)
    BY <1>1, <2>1 DEF Open, TypeOK
  <2>2. CASE Deliver(c)
    BY <1>1, <2>2 DEF Deliver, TypeOK
  <2>3. CASE Close(c)
    BY <1>1, <2>3 DEF Close, Hangup, TypeOK
  <2>4. CASE Abort(c)
    BY <1>1, <2>4 DEF Abort, Hangup, TypeOK
  <2>5. CASE RegisterUpserts(c)
    BY <1>1, <2>5 DEF RegisterUpserts, TypeOK, RequestShape, Idle, Request
  <2>6. CASE RegisterRefused(c)
    BY <1>1, <2>6 DEF RegisterRefused, TypeOK, Idle, Request
  <2>7. CASE SendDelivers(c)
    <3> DEFINE m == [kind |-> "received", task |-> req[c].task, from |-> Me(c),
                     to |-> req[c].who]
    <3>1. m \in Msg
      BY <1>1, <2>7, MeIsName DEF SendDelivers, RequestShape, Msg, Names
    <3>2. inbox' \in [Conns -> Seq(Msg)] /\ \A x \in Conns : Len(inbox'[x]) <= PipeCap
      BY <1>1, <2>7, <3>1, PushFits DEF SendDelivers
    <3>3. req' \in [Conns -> Request]
      BY <1>1, <2>7 DEF SendDelivers, TypeOK, Idle, Request
    <3> QED
      BY <1>1, <2>7, <3>2, <3>3 DEF SendDelivers, TypeOK
  <2>8. CASE TakeoverNotifies(c)
    <3> DEFINE m == [kind |-> "taken_over", task |-> req[c].task, from |-> req[c].who,
                     to |-> req[c].to]
    <3>1. m \in Msg
      BY <1>1, <2>8 DEF TakeoverNotifies, RequestShape, Msg
    <3>2. inbox' \in [Conns -> Seq(Msg)] /\ \A x \in Conns : Len(inbox'[x]) <= PipeCap
      BY <1>1, <2>8, <3>1, PushFits DEF TakeoverNotifies
    <3>3. req' \in [Conns -> Request]
      BY <1>1, <2>8 DEF TakeoverNotifies, TypeOK, Idle, Request
    <3> QED
      BY <1>1, <2>8, <3>2, <3>3 DEF TakeoverNotifies, TypeOK
  <2>9. ASSUME NEW d \in Devices, RegisterConnects(c, d) PROVE TypeOK'
    <3>1. [Idle EXCEPT !.pc = "upsert", !.who = d] \in Request
      BY DEF Idle, Request, Names
    <3>2. req' \in [Conns -> Request]
      BY <1>1, <2>9, <3>1 DEF RegisterConnects, TypeOK
    <3>3. /\ sink' \in [Devices -> Conns \cup {None}]
          /\ ident' \in [Conns -> Devices \cup {None}]
          /\ ids' \in [Conns -> SUBSET Devices]
      BY <1>1, <2>9 DEF RegisterConnects, TypeOK
    <3> QED
      BY <1>1, <2>9, <3>2, <3>3 DEF RegisterConnects, TypeOK
  <2>10. ASSUME NEW t \in Tasks, Subscribe(c, t) PROVE TypeOK'
    <3>1. watchers[t] \cup {ident[c]} \in SUBSET Devices
      BY <1>1, <2>10 DEF Subscribe, TypeOK
    <3>2. watchers' \in [Tasks -> SUBSET Devices]
      BY <1>1, <2>10, <3>1 DEF Subscribe, TypeOK
    <3> QED
      BY <1>1, <2>10, <3>2 DEF Subscribe, TypeOK
  <2>11. ASSUME NEW t \in Tasks, Unsubscribe(c, t) PROVE TypeOK'
    <3>1. watchers' \in [Tasks -> SUBSET Devices]
      BY <1>1, <2>11 DEF Unsubscribe, TypeOK
    <3> QED
      BY <1>1, <2>11, <3>1 DEF Unsubscribe, TypeOK
  <2>12. ASSUME NEW t \in Tasks, StateSync(c, t) PROVE TypeOK'
    <3> DEFINE watching == watchers[t] \ {Me(c)}
               m == [kind |-> "state", task |-> t, from |-> Me(c), to |-> None]
    <3>1. m \in Msg
      BY <1>1, MeIsName DEF Msg
    <3>2. watching \in SUBSET Devices
      BY DEF TypeOK
    <3>3. ASSUME NEW x \in Conns
          PROVE  inbox'[x] \in Seq(Msg) /\ Len(inbox'[x]) <= PipeCap
      <4> DEFINE n == Copies(x, watching)
      <4>1. n \in Nat /\ Len(inbox[x]) + n <= PipeCap
        BY <3>2, CopiesFit
      <4>2. inbox[x] \in Seq(Msg)
        BY DEF TypeOK
      <4>3. inbox'[x] = inbox[x] \o [i \in 1..n |-> m]
        BY <1>1, <2>12 DEF StateSync
      <4> HIDE DEF n, m
      <4>4. [i \in 1..n |-> m] \in Seq(Msg) /\ Len([i \in 1..n |-> m]) = n
        BY <3>1, <4>1
      <4> QED
        BY <4>1, <4>2, <4>3, <4>4
    <3>4. inbox' \in [Conns -> Seq(Msg)]
      BY <2>12, <3>3 DEF StateSync
    <3>5. /\ requests' = requests + 1
          /\ UNCHANGED <<conn, req, maps, tables, takeovers, restarts>>
      BY <2>12 DEF StateSync
    <3> QED
      BY <3>3, <3>4, <3>5 DEF TypeOK
  <2>13. ASSUME NEW t \in Tasks, NEW d \in Devices, SendLooks(c, t, d) PROVE TypeOK'
    <3>1. [pc |-> "send", task |-> t, who |-> d, to |-> sink[d]] \in Request
      BY DEF TypeOK, Request, Names
    <3>2. req' \in [Conns -> Request]
      BY <1>1, <2>13, <3>1 DEF SendLooks, TypeOK
    <3> QED
      BY <1>1, <2>13, <3>2 DEF SendLooks, TypeOK
  <2>14. ASSUME NEW t \in Tasks, NEW expected \in Names \cup {None},
                TakeoverWins(c, t, expected)
         PROVE  TypeOK'
    <3> Me(c) \in Names
      BY MeIsName
    <3>1. owner' \in [Tasks -> Names \cup {None}]
      <4>1. CASE t \in rows
        BY <1>1, <2>14, <4>1 DEF TakeoverWins, TypeOK
      <4>2. CASE t \notin rows
        BY <1>1, <2>14, <4>2 DEF TakeoverWins, TypeOK
      <4> QED
        BY <4>1, <4>2
    <3>2. wins' \in [Tasks -> Seq(Win)]
      <4> DEFINE w == [prev |-> owner[t], by |-> Me(c), expected |-> expected]
      <4>1. w \in Win
        BY <1>1, <2>14 DEF Win, TypeOK
      <4>2. CASE t \in rows
        <5>1. wins' = [wins EXCEPT ![t] = Append(wins[t], w)]
          BY <2>14, <4>2 DEF TakeoverWins
        <5>2. wins[t] \in Seq(Win)
          BY DEF TypeOK
        <5> HIDE DEF w
        <5>3. Append(wins[t], w) \in Seq(Win)
          BY <4>1, <5>2
        <5> QED
          BY <5>1, <5>3 DEF TypeOK
      <4>3. CASE t \notin rows
        BY <1>1, <2>14, <4>3 DEF TakeoverWins, TypeOK
      <4> QED
        BY <4>2, <4>3
    <3>3. req' \in [Conns -> Request]
      BY <1>1, <2>14, MeIsName DEF TakeoverWins, TypeOK, Idle, Request
    <3> QED
      BY <1>1, <2>14, <3>1, <3>2, <3>3 DEF TakeoverWins, TypeOK
  <2>15. ASSUME NEW t \in Tasks, NEW expected \in Names \cup {None},
                TakeoverLoses(c, t, expected)
         PROVE  TypeOK'
    BY <1>1, <2>15 DEF TakeoverLoses, TypeOK
  <2> QED
    BY <1>1, <2>1, <2>2, <2>3, <2>4, <2>5, <2>6, <2>7, <2>8, <2>9, <2>10, <2>11, <2>12,
       <2>13, <2>14, <2>15 DEF Connection
<1>2. ASSUME NEW t \in Tasks, InsertTask(t) PROVE TypeOK'
  BY <1>2 DEF InsertTask, TypeOK
<1>3. CASE Restart
  BY <1>3 DEF Restart, TypeOK, Idle, Request
<1>4. CASE UNCHANGED vars
  BY <1>4 DEF vars, TypeOK
<1> QED
  BY <1>1, <1>2, <1>3, <1>4 DEF Next

-----------------------------------------------------------------------------
(* How a step changes the wins, rows and owner of a task: not at all, by   *)
(* its assignment, or by one takeover.                                     *)
OwnershipSame(t) ==
    wins'[t] = wins[t] /\ owner'[t] = owner[t] /\ (t \in rows' <=> t \in rows)
OwnershipBegins(t) ==
    t \notin rows /\ wins'[t] = wins[t] /\ owner'[t] = owner[t]
OwnershipPasses(t) ==
    /\ t \in rows /\ t \in rows'
    /\ \E by \in Names, expected \in Names \cup {None} :
        /\ wins'[t] = Append(wins[t], [prev |-> owner[t], by |-> by, expected |-> expected])
        /\ owner'[t] = by
        /\ expected # None => owner[t] = expected

LEMMA WinsChange ==
  ASSUME TypeOK, [Next]_vars, NEW t \in Tasks
  PROVE  OwnershipSame(t) \/ OwnershipBegins(t) \/ OwnershipPasses(t)
<1> USE DEF conn, maps, tables, bounds
<1>1. ASSUME NEW c \in Conns, Connection(c)
      PROVE  OwnershipSame(t) \/ OwnershipPasses(t)
  <2>1. ASSUME NEW u \in Tasks, NEW expected \in Names \cup {None},
               TakeoverWins(c, u, expected)
        PROVE  OwnershipSame(t) \/ OwnershipPasses(t)
    <3>1. CASE u \in rows /\ u = t
      <4>1. rows' = rows /\ owner'[t] = Me(c)
        BY <2>1, <3>1 DEF TakeoverWins, TypeOK
      <4>2. wins'[t] = Append(wins[t],
                              [prev |-> owner[t], by |-> Me(c), expected |-> expected])
        BY <2>1, <3>1 DEF TakeoverWins, TypeOK
      <4>3. expected # None => owner[t] = expected
        BY <2>1, <3>1 DEF TakeoverWins, MayTake
      <4>4. Me(c) \in Names
        BY MeIsName
      <4> QED
        BY <3>1, <4>1, <4>2, <4>3, <4>4 DEF OwnershipPasses
    <3>2. CASE ~(u \in rows /\ u = t)
      BY <2>1, <3>2 DEF TakeoverWins, OwnershipSame, TypeOK
    <3> QED
      BY <3>1, <3>2
  <2>2. CASE \A u \in Tasks, expected \in Names \cup {None} : ~TakeoverWins(c, u, expected)
    BY <1>1, <2>2
       DEF Connection, Open, Deliver, Close, Abort, Hangup, RegisterUpserts, RegisterRefused,
           SendDelivers, TakeoverNotifies, RegisterConnects, Subscribe, Unsubscribe, StateSync,
           SendLooks, TakeoverLoses, OwnershipSame
  <2> QED
    BY <2>1, <2>2
<1>2. ASSUME NEW u \in Tasks, InsertTask(u) PROVE OwnershipSame(t) \/ OwnershipBegins(t)
  BY <1>2 DEF InsertTask, OwnershipSame, OwnershipBegins
<1>3. CASE Restart
  BY <1>3 DEF Restart, OwnershipSame
<1>4. CASE UNCHANGED vars
  BY <1>4 DEF vars, OwnershipSame
<1> QED
  BY <1>1, <1>2, <1>3, <1>4 DEF Next

(* A takeover, once in the list, stays.                                    *)
LEMMA WinsGrow ==
  ASSUME TypeOK, [Next]_vars, NEW t \in Tasks, NEW from, NEW by, Took(t, from, by)
  PROVE  TookAfter(t, from, by)
<1>1. CASE wins'[t] = wins[t]
  BY <1>1 DEF Took, TookAfter
<1>2. ASSUME NEW w, wins'[t] = Append(wins[t], w) PROVE TookAfter(t, from, by)
  <2>1. PICK i \in 1..Len(wins[t]) : wins[t][i].prev = from /\ wins[t][i].by = by
    BY DEF Took, TookAfter
  <2>2. wins[t] \in Seq(Win)
    BY DEF TypeOK
  <2>3. i \in 1..Len(wins'[t]) /\ wins'[t][i] = wins[t][i]
    BY <1>2, <2>2
  <2> QED
    BY <2>1, <2>3 DEF Took, TookAfter
<1>3. wins'[t] = wins[t] \/ \E w : wins'[t] = Append(wins[t], w)
  BY WinsChange DEF OwnershipSame, OwnershipBegins, OwnershipPasses
<1> QED
  BY <1>1, <1>2, <1>3

-----------------------------------------------------------------------------
LEMMA ExpectedStep ==
  TypeOK /\ WinsAsExpected /\ [Next]_vars => WinsAsExpected'
<1> SUFFICES ASSUME TypeOK, WinsAsExpected, [Next]_vars, NEW t \in Tasks
             PROVE  /\ t \notin rows' => wins'[t] = <<>>
                    /\ \A i \in 1..Len(wins'[t]) :
                         wins'[t][i].expected # None => wins'[t][i].prev = wins'[t][i].expected
  BY DEF WinsAsExpected
<1>1. CASE OwnershipSame(t) \/ OwnershipBegins(t)
  BY <1>1 DEF OwnershipSame, OwnershipBegins, WinsAsExpected
<1>2. CASE OwnershipPasses(t)
  <2>1. PICK by \in Names, expected \in Names \cup {None} :
           /\ wins'[t] = Append(wins[t], [prev |-> owner[t], by |-> by, expected |-> expected])
           /\ expected # None => owner[t] = expected
    BY <1>2 DEF OwnershipPasses
  <2> DEFINE w == [prev |-> owner[t], by |-> by, expected |-> expected]
  <2>2. w.expected # None => w.prev = w.expected
    BY <2>1
  <2>3. wins[t] \in Seq(Win)
    BY DEF TypeOK
  <2> HIDE DEF w
  <2>4. ASSUME NEW i \in 1..Len(wins'[t])
        PROVE  wins'[t][i].expected # None => wins'[t][i].prev = wins'[t][i].expected
    <3>1. CASE i \in 1..Len(wins[t])
      <4>1. wins'[t][i] = wins[t][i]
        BY <2>1, <2>3, <3>1 DEF w
      <4> QED
        BY <3>1, <4>1 DEF WinsAsExpected
    <3>2. CASE i \notin 1..Len(wins[t])
      <4>1. wins'[t] = Append(wins[t], w)
        BY <2>1 DEF w
      <4>2. wins'[t][i] = w
        BY <2>3, <2>4, <3>2, <4>1
      <4> QED
        BY <2>2, <4>2
    <3> QED
      BY <3>1, <3>2
  <2> QED
    BY <1>2, <2>4 DEF OwnershipPasses
<1> QED
  BY <1>1, <1>2, WinsChange

(* The winner appended last took the task from the owner, which was the    *)
(* winner before it.                                                       *)
LEMMA ChainStep ==
  TypeOK /\ OwnershipChain /\ [Next]_vars => OwnershipChain'
<1> DEFINE Linked(w, o) ==
      /\ o = (IF w = <<>> THEN None ELSE w[Len(w)].by)
      /\ \A i \in 1..Len(w) : w[i].prev = (IF i = 1 THEN None ELSE w[i - 1].by)
<1> SUFFICES ASSUME TypeOK, OwnershipChain, [Next]_vars, NEW t \in Tasks
             PROVE  Linked(wins'[t], owner'[t])
  BY DEF OwnershipChain
<1>1. Linked(wins[t], owner[t])
  BY DEF OwnershipChain
<1>2. CASE OwnershipSame(t) \/ OwnershipBegins(t)
  BY <1>1, <1>2 DEF OwnershipSame, OwnershipBegins
<1>3. CASE OwnershipPasses(t)
  <2>1. PICK by \in Names, expected \in Names \cup {None} :
           /\ wins'[t] = Append(wins[t], [prev |-> owner[t], by |-> by, expected |-> expected])
           /\ owner'[t] = by
    BY <1>3 DEF OwnershipPasses
  <2> DEFINE w == [prev |-> owner[t], by |-> by, expected |-> expected]
  <2>2. w.prev = owner[t] /\ w.by = owner'[t] /\ wins'[t] = Append(wins[t], w)
    BY <2>1
  <2>3. wins[t] \in Seq(Win)
    BY DEF TypeOK
  <2> HIDE DEF w
  <2>4. /\ Len(wins'[t]) = Len(wins[t]) + 1 /\ Len(wins[t]) \in Nat
        /\ wins'[t] # <<>> /\ wins'[t][Len(wins'[t])] = w
        /\ \A i \in 1..Len(wins[t]) : wins'[t][i] = wins[t][i]
    BY <2>2, <2>3
  <2>5. ASSUME NEW i \in 1..Len(wins'[t])
        PROVE  wins'[t][i].prev = (IF i = 1 THEN None ELSE wins'[t][i - 1].by)
    <3>1. CASE i \in 1..Len(wins[t])
      <4>1. i - 1 \in 1..Len(wins[t]) \/ i = 1
        BY <2>4, <3>1
      <4>2. wins'[t][i] = wins[t][i] /\ (i # 1 => wins'[t][i - 1] = wins[t][i - 1])
        BY <2>4, <3>1, <4>1
      <4> QED
        BY <1>1, <3>1, <4>2
    <3>2. CASE i \notin 1..Len(wins[t])
      <4>1. i = Len(wins[t]) + 1 /\ wins'[t][i] = w
        BY <2>4, <2>5, <3>2
      <4>2. CASE wins[t] = <<>>
        BY <1>1, <2>2, <4>1, <4>2
      <4>3. CASE wins[t] # <<>>
        <5>1. Len(wins[t]) \in 1..Len(wins[t])
          BY <2>3, <4>3
        <5>2. wins'[t][i - 1] = wins[t][Len(wins[t])]
          BY <2>4, <4>1, <5>1
        <5> QED
          BY <1>1, <2>2, <2>4, <4>1, <4>3, <5>1, <5>2
      <4> QED
        BY <4>2, <4>3
    <3> QED
      BY <3>1, <3>2
  <2> QED
    BY <2>2, <2>4, <2>5
<1> QED
  BY <1>2, <1>3, WinsChange

(* Of two wins with the same expectation, the one before the later is by   *)
(* the expected device.                                                    *)
LEMMA ChainExcludesDoubleWin ==
  TypeOK /\ WinsAsExpected /\ OwnershipChain => NoDoubleWin
<1> SUFFICES ASSUME TypeOK, WinsAsExpected, OwnershipChain,
                    NEW t \in Tasks, NEW i \in 1..Len(wins[t]), NEW j \in 1..Len(wins[t]),
                    i < j, wins[t][j].expected # None
             PROVE  \E k \in i..(j - 1) : wins[t][k].by = wins[t][j].expected
  BY DEF NoDoubleWin
<1>1. wins[t] \in Seq(Win) /\ Len(wins[t]) \in Nat
  BY DEF TypeOK
<1>2. wins[t][j].prev = wins[t][j].expected
  BY DEF WinsAsExpected
<1>3. j # 1 /\ wins[t][j].prev = wins[t][j - 1].by
  BY <1>1 DEF OwnershipChain
<1>4. j - 1 \in i..(j - 1)
  BY <1>1
<1> QED
  BY <1>2, <1>3, <1>4

-----------------------------------------------------------------------------
(* Of the requests only that of the connection that takes a step changes,  *)
(* but for a restart; where it starts to wait it has this shape, and a     *)
(* takeover that waits was just won.                                       *)
LEMMA RequestChange ==
  ASSUME TypeOK, WinsAsExpected, OwnershipChain, [Next]_vars, NEW x \in Conns
  PROVE  \/ req'[x] = req[x]
         \/ req'[x].pc \in {"idle"}
         \/ req'[x].pc = "upsert" /\ req'[x].who \in Devices
         \/ /\ req'[x].pc = "send" /\ req'[x].task \in Tasks /\ req'[x].who \in Devices
            /\ req'[x].to \in Conns \cup {None} /\ req'[x].to = sink[req'[x].who]
         \/ /\ req'[x].pc = "notify" /\ req'[x].task \in Tasks /\ req'[x].who \in Names
            /\ req'[x].to \in Names /\ TookAfter(req'[x].task, req'[x].to, req'[x].who)
<1> DEFINE Goal ==
      \/ req'[x] = req[x]
      \/ req'[x].pc \in {"idle"}
      \/ req'[x].pc = "upsert" /\ req'[x].who \in Devices
      \/ /\ req'[x].pc = "send" /\ req'[x].task \in Tasks /\ req'[x].who \in Devices
         /\ req'[x].to \in Conns \cup {None} /\ req'[x].to = sink[req'[x].who]
      \/ /\ req'[x].pc = "notify" /\ req'[x].task \in Tasks /\ req'[x].who \in Names
         /\ req'[x].to \in Names /\ TookAfter(req'[x].task, req'[x].to, req'[x].who)
<1>1. ASSUME NEW c \in Conns, Connection(c) PROVE Goal
  <2>1. CASE Open(c) \/ Deliver(c) \/ Close(c) \/ Abort(c)
    BY <2>1 DEF Open, Deliver, Close, Abort, Hangup
  <2>2. CASE RegisterUpserts(c) \/ RegisterRefused(c) \/ SendDelivers(c) \/ TakeoverNotifies(c)
    <3>1. req' = [req EXCEPT ![c] = Idle]
      BY <2>2 DEF RegisterUpserts, RegisterRefused, SendDelivers, TakeoverNotifies
    <3> QED
      BY <3>1 DEF TypeOK, Idle
  <2>3. ASSUME NEW d \in Devices, RegisterConnects(c, d) PROVE Goal
    <3>1. req' = [req EXCEPT ![c] = [Idle EXCEPT !.pc = "upsert", !.who = d]]
      BY <2>3 DEF RegisterConnects
    <3> QED
      BY <3>1 DEF TypeOK, Idle
  <2>4. ASSUME NEW t \in Tasks, Subscribe(c, t) \/ Unsubscribe(c, t) \/ StateSync(c, t)
        PROVE  Goal
    BY <2>4 DEF Subscribe, Unsubscribe, StateSync
  <2>5. ASSUME NEW t \in Tasks, NEW d \in Devices, SendLooks(c, t, d) PROVE Goal
    <3>1. req' = [req EXCEPT ![c] = [pc |-> "send", task |-> t, who |-> d, to |-> sink[d]]]
      BY <2>5 DEF SendLooks
    <3>2. sink[d] \in Conns \cup {None}
      BY DEF TypeOK
    <3> QED
      BY <3>1, <3>2 DEF TypeOK
  <2>6. ASSUME NEW t \in Tasks, NEW expected \in Names \cup {None},
               TakeoverWins(c, t, expected)
        PROVE  Goal
    <3>1. CASE x # c
      BY <2>6, <3>1 DEF TakeoverWins, TypeOK
    <3>2. CASE x = c /\ owner[t] = None
      BY <2>6, <3>2 DEF TakeoverWins, TypeOK, Idle
    <3>3. CASE x = c /\ owner[t] # None
      <4>1. req'[x] = [pc |-> "notify", task |-> t, who |-> Me(c), to |-> owner[t]]
        BY <2>6, <3>3 DEF TakeoverWins, TypeOK
      <4>2. owner[t] \in Names /\ Me(c) \in Names
        BY <3>3, MeIsName DEF TypeOK
      <4>3. TookAfter(t, owner[t], Me(c))
        <5> DEFINE w == [prev |-> owner[t], by |-> Me(c), expected |-> expected]
        <5>1. t \in rows
          BY <3>3 DEF WinsAsExpected, OwnershipChain
        <5>2. wins'[t] = Append(wins[t], w) /\ wins[t] \in Seq(Win)
          BY <2>6, <5>1 DEF TakeoverWins, TypeOK
        <5>3. w.prev = owner[t] /\ w.by = Me(c)
          OBVIOUS
        <5> HIDE DEF w
        <5>4. Len(wins'[t]) \in 1..Len(wins'[t]) /\ wins'[t][Len(wins'[t])] = w
          BY <5>2
        <5> QED
          BY <5>3, <5>4 DEF TookAfter
      <4> QED
        BY <4>1, <4>2, <4>3
    <3> QED
      BY <3>1, <3>2, <3>3
  <2>7. ASSUME NEW t \in Tasks, NEW expected \in Names \cup {None},
               TakeoverLoses(c, t, expected)
        PROVE  Goal
    BY <2>7 DEF TakeoverLoses
  <2> QED
    BY <1>1, <2>1, <2>2, <2>3, <2>4, <2>5, <2>6, <2>7 DEF Connection
<1>2. ASSUME NEW t \in Tasks, InsertTask(t) PROVE Goal
  BY <1>2 DEF InsertTask
<1>3. CASE Restart
  BY <1>3 DEF Restart, Idle
<1>4. CASE UNCHANGED vars
  BY <1>4 DEF vars
<1> QED
  BY <1>1, <1>2, <1>3, <1>4 DEF Next

LEMMA ShapeStep ==
  TypeOK /\ WinsAsExpected /\ OwnershipChain /\ RequestShape /\ [Next]_vars => RequestShape'
  BY RequestChange DEF RequestShape

LEMMA PendingStep ==
  TypeOK /\ WinsAsExpected /\ OwnershipChain /\ RequestShape /\ NotifyPending /\ [Next]_vars
      => NotifyPending'
<1> SUFFICES ASSUME TypeOK, WinsAsExpected, OwnershipChain, RequestShape, NotifyPending,
                    [Next]_vars, NEW x \in Conns, req'[x].pc = "notify"
             PROVE  TookAfter(req'[x].task, req'[x].to, req'[x].who)
  BY DEF NotifyPending, Took, TookAfter
<1>1. CASE req'[x] = req[x]
  <2>1. Took(req[x].task, req[x].to, req[x].who) /\ req[x].task \in Tasks
    BY <1>1 DEF NotifyPending, RequestShape
  <2>2. ASSUME NEW t \in Tasks, NEW from, NEW by, Took(t, from, by)
        PROVE  TookAfter(t, from, by)
    BY <2>2, WinsGrow
  <2> QED
    BY <1>1, <2>1, <2>2
<1> QED
  BY <1>1, RequestChange

(* A message in a channel was there before, or is the one a request of     *)
(* this step sends: a notice only comes from a takeover that was pending.  *)
LEMMA InboxChange ==
  ASSUME TypeOK, RequestShape, [Next]_vars, NEW x \in Conns, NEW n \in 1..Len(inbox'[x])
  PROVE  \/ \E k \in 1..Len(inbox[x]) : inbox'[x][n] = inbox[x][k]
         \/ inbox'[x][n].kind = "state"
         \/ \E c \in Conns : /\ req[c].pc = "send" /\ x = req[c].to
                             /\ inbox'[x][n].kind = "received"
                             /\ inbox'[x][n].to = req[c].who
         \/ \E c \in Conns : /\ req[c].pc = "notify" /\ x = SinkOf(req[c].to)
                             /\ inbox'[x][n].task = req[c].task
                             /\ inbox'[x][n].to = req[c].to
                             /\ inbox'[x][n].from = req[c].who
<1> DEFINE Old == \E k \in 1..Len(inbox[x]) : inbox'[x][n] = inbox[x][k]
           Sent == \E c \in Conns : /\ req[c].pc = "send" /\ x = req[c].to
                                    /\ inbox'[x][n].kind = "received"
                                    /\ inbox'[x][n].to = req[c].who
           Notice == \E c \in Conns : /\ req[c].pc = "notify" /\ x = SinkOf(req[c].to)
                                      /\ inbox'[x][n].task = req[c].task
                                      /\ inbox'[x][n].to = req[c].to
                                      /\ inbox'[x][n].from = req[c].who
           Goal == Old \/ inbox'[x][n].kind = "state" \/ Sent \/ Notice
<1>1. inbox[x] \in Seq(Msg) /\ Len(inbox[x]) \in Nat
  BY DEF TypeOK
<1>2. CASE inbox'[x] = inbox[x] \/ inbox'[x] = <<>> \/ inbox'[x] = Tail(inbox[x])
  <2>1. CASE inbox'[x] = inbox[x]
    BY <2>1
  <2>2. CASE inbox'[x] = <<>>
    BY <2>2
  <2>3. CASE inbox'[x] = Tail(inbox[x])
    <3>1. CASE inbox[x] = <<>>
      BY <1>1, <2>3, <3>1
    <3>2. CASE inbox[x] # <<>>
      <4>1. n + 1 \in 1..Len(inbox[x]) /\ inbox'[x][n] = inbox[x][n + 1]
        BY <1>1, <2>3, <3>2
      <4> QED
        BY <4>1
    <3> QED
      BY <3>1, <3>2
  <2> QED
    BY <1>2, <2>1, <2>2, <2>3
<1>3. ASSUME NEW c, NEW m \in Msg, Push(c, m) PROVE Old \/ (inbox'[x][n] = m /\ x = c)
  <2>1. CASE inbox'[x] = inbox[x]
    BY <2>1
  <2>2. CASE inbox'[x] = Append(inbox[x], m) /\ x = c
    BY <1>1, <2>2
  <2> QED
    BY <1>3, <2>1, <2>2 DEF Push
<1>4. ASSUME NEW c \in Conns, Connection(c) PROVE Goal
  <2>1. CASE Open(c) \/ RegisterUpserts(c) \/ RegisterRefused(c)
    BY <1>2, <2>1 DEF Open, RegisterUpserts, RegisterRefused
  <2>2. CASE Deliver(c)
    BY <1>2, <2>2 DEF Deliver, TypeOK
  <2>3. CASE Close(c) \/ Abort(c)
    BY <1>2, <2>3 DEF Close, Abort, Hangup, TypeOK
  <2>4. CASE SendDelivers(c)
    <3> DEFINE m == [kind |-> "received", task |-> req[c].task, from |-> Me(c),
                     to |-> req[c].who]
    <3>1. m \in Msg /\ Push(req[c].to, m) /\ req[c].pc = "send"
      BY <2>4, MeIsName DEF SendDelivers, RequestShape, Msg, Names
    <3> QED
      BY <1>3, <3>1
  <2>5. CASE TakeoverNotifies(c)
    <3> DEFINE m == [kind |-> "taken_over", task |-> req[c].task, from |-> req[c].who,
                     to |-> req[c].to]
    <3>1. m \in Msg /\ Push(SinkOf(req[c].to), m) /\ req[c].pc = "notify"
      BY <2>5 DEF TakeoverNotifies, RequestShape, Msg
    <3>2. Old \/ (inbox'[x][n] = m /\ x = SinkOf(req[c].to))
      BY <1>3, <3>1
    <3> QED
      BY <3>1, <3>2
  <2>6. ASSUME NEW d \in Devices, RegisterConnects(c, d) PROVE Goal
    BY <1>2, <2>6 DEF RegisterConnects
  <2>7. ASSUME NEW t \in Tasks, Subscribe(c, t) \/ Unsubscribe(c, t) PROVE Goal
    BY <1>2, <2>7 DEF Subscribe, Unsubscribe
  <2>8. ASSUME NEW t \in Tasks, StateSync(c, t) PROVE Goal
    <3> DEFINE watching == watchers[t] \ {Me(c)}
               size == Copies(x, watching)
               m == [kind |-> "state", task |-> t, from |-> Me(c), to |-> None]
    <3>1. watching \in SUBSET Devices
      BY DEF TypeOK
    <3>2. size \in Nat
      BY <3>1, CopiesFit
    <3>3. inbox'[x] = inbox[x] \o [i \in 1..size |-> m]
      BY <2>8 DEF StateSync
    <3>4. m.kind = "state"
      OBVIOUS
    <3> HIDE DEF size, m
    <3>5. CASE n \in 1..Len(inbox[x])
      BY <1>1, <3>2, <3>3, <3>5
    <3>6. CASE n \notin 1..Len(inbox[x])
      <4> DEFINE copies == [i \in 1..size |-> m]
      <4>1. copies \in Seq({m}) /\ Len(copies) = size
        BY <3>2
      <4>2. n - Len(inbox[x]) \in 1..size /\ inbox'[x][n] = copies[n - Len(inbox[x])]
        BY <1>1, <3>2, <3>3, <3>6, <4>1
      <4> QED
        BY <3>4, <4>2
    <3> QED
      BY <3>5, <3>6
  <2>9. ASSUME NEW t \in Tasks, NEW d \in Devices, SendLooks(c, t, d) PROVE Goal
    BY <1>2, <2>9 DEF SendLooks
  <2>10. ASSUME NEW t \in Tasks, NEW expected \in Names \cup {None},
                TakeoverWins(c, t, expected) \/ TakeoverLoses(c, t, expected)
         PROVE  Goal
    BY <1>2, <2>10 DEF TakeoverWins, TakeoverLoses
  <2> QED
    BY <1>4, <2>1, <2>2, <2>3, <2>4, <2>5, <2>6, <2>7, <2>8, <2>9, <2>10 DEF Connection
<1>5. ASSUME NEW t \in Tasks, InsertTask(t) PROVE Goal
  BY <1>2, <1>5 DEF InsertTask
<1>6. CASE Restart
  BY <1>2, <1>6 DEF Restart
<1>7. CASE UNCHANGED vars
  BY <1>2, <1>7 DEF vars
<1> QED
  BY <1>4, <1>5, <1>6, <1>7 DEF Next

LEMMA NoticeStep ==
  TypeOK /\ RequestShape /\ NotifyPending /\ NoticeFollowsLoss /\ [Next]_vars
      => NoticeFollowsLoss'
<1> SUFFICES ASSUME TypeOK, RequestShape, NotifyPending, NoticeFollowsLoss, [Next]_vars,
                    NEW x \in Conns, NEW n \in 1..Len(inbox'[x]),
                    inbox'[x][n].kind = "taken_over"
             PROVE  TookAfter(inbox'[x][n].task, inbox'[x][n].to, inbox'[x][n].from)
  BY DEF NoticeFollowsLoss, TookAfter
<1> DEFINE m == inbox'[x][n]
<1>1. m.task \in Tasks /\ Took(m.task, m.to, m.from)
  <2>1. CASE \E k \in 1..Len(inbox[x]) : m = inbox[x][k]
    <3>1. PICK k \in 1..Len(inbox[x]) : m = inbox[x][k]
      BY <2>1
    <3>2. inbox[x][k] \in Msg
      BY DEF TypeOK
    <3>3. inbox[x][k].kind = "taken_over"
      BY <3>1
    <3>4. Took(inbox[x][k].task, inbox[x][k].to, inbox[x][k].from)
      BY <3>3 DEF NoticeFollowsLoss, Took
    <3> QED
      BY <3>1, <3>2, <3>4 DEF Msg
  <2>2. CASE \E c \in Conns : /\ req[c].pc = "notify" /\ m.task = req[c].task
                             /\ m.to = req[c].to /\ m.from = req[c].who
    BY <2>2 DEF NotifyPending, RequestShape
  <2> QED
    BY <2>1, <2>2, InboxChange
<1>2. ASSUME NEW t \in Tasks, NEW from, NEW by, Took(t, from, by)
      PROVE  TookAfter(t, from, by)
  BY <1>2, WinsGrow
<1> QED
  BY <1>1, <1>2

-----------------------------------------------------------------------------
(* Connections, identities and the two maps change in few actions only.    *)
Reach == <<up, ident, ids, sink, watchers>>

LEMMA ReachChange ==
  ASSUME [Next]_vars
  PROVE  \/ UNCHANGED Reach
         \/ \E c \in Conns : Open(c) \/ Close(c) \/ Abort(c)
         \/ \E c \in Conns, d \in Devices : RegisterConnects(c, d)
         \/ \E c \in Conns, t \in Tasks : Subscribe(c, t) \/ Unsubscribe(c, t)
         \/ Restart
<1> USE DEF conn, maps, tables, bounds, Reach
<1>1. ASSUME NEW c \in Conns, Deliver(c) \/ RegisterUpserts(c) \/ RegisterRefused(c)
                               \/ SendDelivers(c) \/ TakeoverNotifies(c)
      PROVE  UNCHANGED Reach
  BY <1>1 DEF Deliver, RegisterUpserts, RegisterRefused, SendDelivers, TakeoverNotifies
<1>2. ASSUME NEW c \in Conns, NEW t \in Tasks, StateSync(c, t) PROVE UNCHANGED Reach
  BY <1>2 DEF StateSync
<1>3. ASSUME NEW c \in Conns, NEW t \in Tasks, NEW d \in Devices, SendLooks(c, t, d)
      PROVE  UNCHANGED Reach
  BY <1>3 DEF SendLooks
<1>4. ASSUME NEW c \in Conns, NEW t \in Tasks, NEW expected \in Names \cup {None},
             TakeoverWins(c, t, expected) \/ TakeoverLoses(c, t, expected)
      PROVE  UNCHANGED Reach
  BY <1>4 DEF TakeoverWins, TakeoverLoses
<1>5. ASSUME NEW t \in Tasks, InsertTask(t) PROVE UNCHANGED Reach
  BY <1>5 DEF InsertTask
<1>6. CASE UNCHANGED vars
  BY <1>6 DEF vars
<1> QED
  BY <1>1, <1>2, <1>3, <1>4, <1>5, <1>6 DEF Next, Connection

LEMMA IdentStep == TypeOK /\ IdentRegistered /\ [Next]_vars => IdentRegistered'
<1> SUFFICES ASSUME TypeOK, IdentRegistered, [Next]_vars PROVE IdentRegistered'
  OBVIOUS
<1>1. CASE UNCHANGED Reach
  BY <1>1 DEF Reach, IdentRegistered
<1>2. ASSUME NEW c \in Conns, Open(c) \/ Close(c) \/ Abort(c) PROVE IdentRegistered'
  BY <1>2 DEF Open, Close, Abort, Hangup, IdentRegistered
<1>3. ASSUME NEW c \in Conns, NEW d \in Devices, RegisterConnects(c, d)
      PROVE  IdentRegistered'
  BY <1>3 DEF RegisterConnects, IdentRegistered, TypeOK
<1>4. ASSUME NEW c \in Conns, NEW t \in Tasks, Subscribe(c, t) \/ Unsubscribe(c, t)
      PROVE  IdentRegistered'
  BY <1>4 DEF Subscribe, Unsubscribe, IdentRegistered, conn
<1>5. CASE Restart
  BY <1>5 DEF Restart, IdentRegistered
<1> QED
  BY <1>1, <1>2, <1>3, <1>4, <1>5, ReachChange

LEMMA SinkStep == TypeOK /\ SinkOutlives /\ [Next]_vars => SinkOutlives'
<1> SUFFICES ASSUME TypeOK, SinkOutlives, [Next]_vars PROVE SinkOutlives'
  OBVIOUS
<1> USE NamesAssumption
<1>1. CASE UNCHANGED Reach
  BY <1>1 DEF Reach, SinkOutlives
<1>2. ASSUME NEW c \in Conns, Open(c) PROVE SinkOutlives'
  BY <1>2 DEF Open, SinkOutlives, TypeOK, maps
<1>3. ASSUME NEW c \in Conns, Close(c) PROVE SinkOutlives'
  BY <1>3 DEF Close, Hangup, SinkOutlives, TypeOK
<1>4. ASSUME NEW c \in Conns, Abort(c) PROVE SinkOutlives'
  BY <1>4 DEF Abort, Hangup, SinkOutlives, TypeOK, maps
<1>5. ASSUME NEW c \in Conns, NEW d \in Devices, RegisterConnects(c, d)
      PROVE  SinkOutlives'
  BY <1>5 DEF RegisterConnects, Ready, SinkOutlives, TypeOK
<1>6. ASSUME NEW c \in Conns, NEW t \in Tasks, Subscribe(c, t) \/ Unsubscribe(c, t)
      PROVE  SinkOutlives'
  BY <1>6 DEF Subscribe, Unsubscribe, SinkOutlives, conn
<1>7. CASE Restart
  BY <1>7 DEF Restart, SinkOutlives
<1> QED
  BY <1>1, <1>2, <1>3, <1>4, <1>5, <1>6, <1>7, ReachChange

LEMMA WatchersStep ==
  TypeOK /\ IdentRegistered /\ WatchersOutlive /\ [Next]_vars => WatchersOutlive'
<1> DEFINE Lasts(c, d) == d \in ids[c] /\ (up[c] = "open" \/ up[c] = "aborted" \/ ident[c] # d)
<1> SUFFICES ASSUME TypeOK, IdentRegistered, WatchersOutlive, [Next]_vars
             PROVE  WatchersOutlive'
  OBVIOUS
<1>1. CASE UNCHANGED Reach
  BY <1>1 DEF Reach, WatchersOutlive
<1>2. ASSUME NEW c \in Conns, Open(c) PROVE WatchersOutlive'
  BY <1>2 DEF Open, WatchersOutlive, TypeOK, maps
<1>3. ASSUME NEW c \in Conns, Close(c) PROVE WatchersOutlive'
  <2>1. ASSUME NEW t \in Tasks, NEW d \in watchers'[t]
        PROVE  \E x \in Conns : Lasts(x, d)'
    <3>1. d \in watchers[t] /\ d # ident[c]
      BY <1>3, <2>1 DEF Close, TypeOK
    <3>2. PICK x \in Conns : Lasts(x, d)
      BY <3>1 DEF WatchersOutlive
    <3>3. Lasts(x, d)'
      BY <1>3, <3>1, <3>2 DEF Close, Hangup, TypeOK
    <3> QED
      BY <3>3
  <2> QED
    BY <2>1 DEF WatchersOutlive
<1>4. ASSUME NEW c \in Conns, Abort(c) PROVE WatchersOutlive'
  BY <1>4 DEF Abort, Hangup, WatchersOutlive, TypeOK, maps
<1>5. ASSUME NEW c \in Conns, NEW e \in Devices, RegisterConnects(c, e)
      PROVE  WatchersOutlive'
  <2>1. ASSUME NEW x \in Conns, NEW d, Lasts(x, d) PROVE Lasts(x, d)'
    BY <1>5, <2>1 DEF RegisterConnects, Ready, TypeOK
  <2> QED
    BY <1>5, <2>1 DEF RegisterConnects, WatchersOutlive
<1>6. ASSUME NEW c \in Conns, NEW u \in Tasks, Subscribe(c, u) PROVE WatchersOutlive'
  <2>1. ASSUME NEW t \in Tasks, NEW d \in watchers'[t]
        PROVE  \E x \in Conns : Lasts(x, d)
    <3>1. CASE d \in watchers[t]
      BY <3>1 DEF WatchersOutlive
    <3>2. CASE d \notin watchers[t]
      <4>1. d = ident[c] /\ ident[c] # None /\ up[c] = "open"
        BY <1>6, <2>1, <3>2 DEF Subscribe, Ready, TypeOK
      <4> QED
        BY <4>1 DEF IdentRegistered
    <3> QED
      BY <3>1, <3>2
  <2> QED
    BY <1>6, <2>1 DEF Subscribe, WatchersOutlive, conn
<1>7. ASSUME NEW c \in Conns, NEW u \in Tasks, Unsubscribe(c, u) PROVE WatchersOutlive'
  BY <1>7 DEF Unsubscribe, WatchersOutlive, conn, TypeOK
<1>8. CASE Restart
  BY <1>8 DEF Restart, WatchersOutlive
<1> QED
  BY <1>1, <1>2, <1>3, <1>4, <1>5, <1>6, <1>7, <1>8, ReachChange

-----------------------------------------------------------------------------
(* A connection never forgets a device it registered.                      *)
LEMMA IdsGrow == ASSUME TypeOK, [Next]_vars, NEW x \in Conns PROVE ids[x] \subseteq ids'[x]
<1>1. ASSUME NEW c \in Conns, NEW d \in Devices, RegisterConnects(c, d)
      PROVE  ids[x] \subseteq ids'[x]
  BY <1>1 DEF RegisterConnects, TypeOK
<1>2. CASE UNCHANGED ids
  BY <1>2
<1> QED
  BY <1>1, <1>2, ReachChange
     DEF Reach, Open, Close, Abort, Hangup, Subscribe, Unsubscribe, Restart, conn

LEMMA RouteStep ==
  /\ TypeOK /\ RequestShape /\ WinsAsExpected /\ OwnershipChain /\ SinkOutlives /\ RouteHeld
  /\ [Next]_vars
  => RouteHeld'
<1> SUFFICES ASSUME TypeOK, RequestShape, WinsAsExpected, OwnershipChain, SinkOutlives, RouteHeld,
                    [Next]_vars, NEW x \in Conns, req'[x].pc = "send", req'[x].to # None
             PROVE  req'[x].who \in ids'[req'[x].to]
  BY DEF RouteHeld
<1>1. ASSUME NEW d, NEW c \in Conns, d \in ids[c] PROVE d \in ids'[c]
  BY <1>1, IdsGrow
<1>2. CASE req'[x] = req[x]
  <2>1. req[x].to \in Conns /\ req[x].who \in ids[req[x].to]
    BY <1>2 DEF RequestShape, RouteHeld
  <2> QED
    BY <1>1, <1>2, <2>1
<1>3. CASE /\ req'[x].who \in Devices /\ req'[x].to \in Conns \cup {None}
           /\ req'[x].to = sink[req'[x].who]
  <2>1. req'[x].who \in ids[req'[x].to]
    BY <1>3 DEF SinkOutlives
  <2> QED
    BY <1>1, <1>3, <2>1
<1> QED
  BY <1>2, <1>3, RequestChange

LEMMA AddressStep ==
  TypeOK /\ RequestShape /\ SinkOutlives /\ RouteHeld /\ ReachesAddressee /\ [Next]_vars
      => ReachesAddressee'
<1> SUFFICES ASSUME TypeOK, RequestShape, SinkOutlives, RouteHeld, ReachesAddressee, [Next]_vars,
                    NEW x \in Conns, NEW n \in 1..Len(inbox'[x]), inbox'[x][n].kind # "state"
             PROVE  inbox'[x][n].to \in ids[x]
  BY IdsGrow DEF ReachesAddressee
<1>1. CASE \E k \in 1..Len(inbox[x]) : inbox'[x][n] = inbox[x][k]
  BY <1>1 DEF ReachesAddressee
<1>2. ASSUME NEW c \in Conns, req[c].pc = "send", x = req[c].to, inbox'[x][n].to = req[c].who
      PROVE  inbox'[x][n].to \in ids[x]
  BY <1>2, NamesAssumption DEF RouteHeld
<1>3. ASSUME NEW c \in Conns, req[c].pc = "notify", x = SinkOf(req[c].to),
             inbox'[x][n].to = req[c].to
      PROVE  inbox'[x][n].to \in ids[x]
  BY <1>3, NamesAssumption DEF SinkOf, SinkOutlives
<1> QED
  BY <1>1, <1>2, <1>3, InboxChange

-----------------------------------------------------------------------------
LEMMA IInvStep == IInv /\ [Next]_vars => IInv'
  BY TypeStep, ShapeStep, IdentStep, ExpectedStep, ChainStep, PendingStep, NoticeStep,
     SinkStep, WatchersStep, RouteStep, AddressStep DEF IInv

(* The inductive invariant holds in every reachable state.                 *)
THEOREM Invariance == Spec => []IInv
  BY InitIInv, IInvStep, PTL DEF Spec

(* Maps, tables, channels and requests keep their types; no channel holds  *)
(* more than its capacity.                                                 *)
THEOREM TypeCorrect == Spec => []TypeOK
  BY Invariance, PTL DEF IInv

(* The owner of a task is its last winner, and every winner took it from   *)
(* the winner before.                                                      *)
THEOREM OwnershipPassesOn == Spec => []OwnershipChain
  BY Invariance, PTL DEF IInv

(* Of any number of devices racing to take a task from the same owner one  *)
(* wins.                                                                   *)
THEOREM OneWinner == Spec => []NoDoubleWin
<1>1. IInv => NoDoubleWin
  BY ChainExcludesDoubleWin DEF IInv
<1> QED
  BY <1>1, Invariance, PTL

(* Only a device that lost a task is told that it was taken over, and by   *)
(* whom, however late the message is sent.                                 *)
THEOREM NoticesAreTrue == Spec => []NoticeFollowsLoss
  BY Invariance, PTL DEF IInv

(* The map holds no connection that ended in order under the device it     *)
(* last registered.                                                        *)
THEOREM SinksAreLive == Spec => []SinkOutlives
  BY Invariance, PTL DEF IInv

(* Nor a watcher whose connections all ended so.                           *)
THEOREM WatchersAreLive == Spec => []WatchersOutlive
  BY Invariance, PTL DEF IInv

(* A message for a device only gets into the channel of a connection that  *)
(* registered the device: a send that waited for the database does not end *)
(* up with another one.                                                    *)
THEOREM MessagesReachAddressee == Spec => []ReachesAddressee
  BY Invariance, PTL DEF IInv

-----------------------------------------------------------------------------
(* The register of owners.                                                 *)
LEMMA TakenIs ==
  ASSUME NEW x
  PROVE  /\ x \in Taken <=> \E t \in Tasks : \E i \in 1..Len(wins[t]) :
                x = <<t, wins[t][i].prev, wins[t][i].by, wins[t][i].expected>>
         /\ x \in Taken' <=> \E t \in Tasks : \E i \in 1..Len(wins'[t]) :
                x = <<t, wins'[t][i].prev, wins'[t][i].by, wins'[t][i].expected>>
  BY DEF Taken

LEMMA ToldIs ==
  ASSUME NEW x
  PROVE  /\ x \in Told <=> \E c \in Conns : \E n \in 1..Len(inbox[c]) :
                /\ inbox[c][n].kind = "taken_over"
                /\ x = <<inbox[c][n].task, inbox[c][n].to, inbox[c][n].from>>
         /\ x \in Told' <=> \E c \in Conns : \E n \in 1..Len(inbox'[c]) :
                /\ inbox'[c][n].kind = "taken_over"
                /\ x = <<inbox'[c][n].task, inbox'[c][n].to, inbox'[c][n].from>>
  BY DEF Told, Notices

(* Of the steps that touch rows, owners or wins: an assignment, or a       *)
(* takeover of a task that has a row.                                      *)
LEMMA TablesChange ==
  ASSUME [Next]_vars
  PROVE  \/ UNCHANGED <<rows, owner, wins>>
         \/ \E t \in Tasks : InsertTask(t)
         \/ \E c \in Conns, t \in Tasks, expected \in Names \cup {None} :
                TakeoverWins(c, t, expected) /\ t \in rows
<1> USE DEF conn, maps, tables, bounds
<1>1. ASSUME NEW c \in Conns, NEW t \in Tasks, NEW expected \in Names \cup {None},
             TakeoverWins(c, t, expected), t \notin rows
      PROVE  UNCHANGED <<rows, owner, wins>>
  BY <1>1 DEF TakeoverWins
<1>2. ASSUME NEW c \in Conns, Connection(c),
             \A t \in Tasks, expected \in Names \cup {None} : ~TakeoverWins(c, t, expected)
      PROVE  UNCHANGED <<rows, owner, wins>>
  <2>1. CASE \/ Open(c) \/ Deliver(c) \/ Close(c) \/ Abort(c)
             \/ RegisterUpserts(c) \/ RegisterRefused(c) \/ SendDelivers(c) \/ TakeoverNotifies(c)
    BY <2>1 DEF Open, Deliver, Close, Abort, Hangup, RegisterUpserts, RegisterRefused,
           SendDelivers, TakeoverNotifies
  <2>2. ASSUME NEW d \in Devices, RegisterConnects(c, d) PROVE UNCHANGED <<rows, owner, wins>>
    BY <2>2 DEF RegisterConnects
  <2>3. ASSUME NEW t \in Tasks, Subscribe(c, t) \/ Unsubscribe(c, t) \/ StateSync(c, t)
        PROVE  UNCHANGED <<rows, owner, wins>>
    BY <2>3 DEF Subscribe, Unsubscribe, StateSync
  <2>4. ASSUME NEW t \in Tasks, NEW d \in Devices, SendLooks(c, t, d)
        PROVE  UNCHANGED <<rows, owner, wins>>
    BY <2>4 DEF SendLooks
  <2>5. ASSUME NEW t \in Tasks, NEW expected \in Names \cup {None}, TakeoverLoses(c, t, expected)
        PROVE  UNCHANGED <<rows, owner, wins>>
    BY <2>5 DEF TakeoverLoses
  <2> QED
    BY <1>2, <2>1, <2>2, <2>3, <2>4, <2>5 DEF Connection
<1>3. CASE Restart \/ UNCHANGED vars
  BY <1>3 DEF Restart, vars
<1> QED
  BY <1>1, <1>2, <1>3 DEF Next

LEMMA RegisterStep ==
  TypeOK /\ RequestShape /\ NotifyPending /\ [Next]_vars => Register!Next \/ UNCHANGED Register!vars
<1> SUFFICES ASSUME TypeOK, RequestShape, NotifyPending, [Next]_vars PROVE Register!Next
  OBVIOUS
<1>1. CASE UNCHANGED <<rows, owner, wins>>
  <2>1. UNCHANGED <<rows, owner, Taken>>
    BY <1>1 DEF Taken
  <2>2. ASSUME NEW x \in Told'
        PROVE  x \in Told \/ \E y \in Taken : x = <<y[1], y[2], y[3]>>
    <3>0. PICK c \in Conns : \E n \in 1..Len(inbox'[c]) :
             /\ inbox'[c][n].kind = "taken_over"
             /\ x = <<inbox'[c][n].task, inbox'[c][n].to, inbox'[c][n].from>>
      BY <2>2, ToldIs
    <3>1. PICK n \in 1..Len(inbox'[c]) :
             /\ inbox'[c][n].kind = "taken_over"
             /\ x = <<inbox'[c][n].task, inbox'[c][n].to, inbox'[c][n].from>>
      BY <3>0
    <3>2. CASE \E k \in 1..Len(inbox[c]) : inbox'[c][n] = inbox[c][k]
      BY <3>1, <3>2, ToldIs
    <3>3. ASSUME NEW d \in Conns, req[d].pc = "notify", inbox'[c][n].task = req[d].task,
                 inbox'[c][n].to = req[d].to, inbox'[c][n].from = req[d].who
          PROVE  \E y \in Taken : x = <<y[1], y[2], y[3]>>
      <4> DEFINE t == req[d].task
      <4>1. t \in Tasks /\ Took(t, req[d].to, req[d].who)
        BY <3>3 DEF RequestShape, NotifyPending
      <4>2. PICK i \in 1..Len(wins[t]) : wins[t][i].prev = req[d].to /\ wins[t][i].by = req[d].who
        BY <4>1 DEF Took
      <4>3. <<t, req[d].to, req[d].who, wins[t][i].expected>> \in Taken
        BY <4>1, <4>2, TakenIs
      <4> QED
        BY <3>1, <3>3, <4>3
    <3> QED
      BY <3>1, <3>2, <3>3, InboxChange
  <2>3. Register!Tell
    BY <2>1, <2>2 DEF Register!Tell
  <2> QED
    BY <2>3 DEF Register!Next
<1>2. ASSUME NEW t \in Tasks, InsertTask(t) PROVE Register!Next
  <2>1. rows' = rows \cup {t} /\ UNCHANGED <<owner, Taken, Told>>
    BY <1>2 DEF InsertTask, Taken, Told, Notices
  <2> QED
    BY <2>1 DEF Register!Next, Register!Assign
<1>3. ASSUME NEW c \in Conns, NEW t \in Tasks, NEW expected \in Names \cup {None},
             TakeoverWins(c, t, expected), t \in rows
      PROVE  Register!Next
  <2> DEFINE w == [prev |-> owner[t], by |-> Me(c), expected |-> expected]
             new == <<t, owner[t], Me(c), expected>>
  <2>1. /\ MayTake(c, t, expected)
        /\ owner' = [owner EXCEPT ![t] = Me(c)]
        /\ wins' = [wins EXCEPT ![t] = Append(wins[t], w)]
        /\ UNCHANGED <<rows, inbox>>
    BY <1>3 DEF TakeoverWins, tables
  <2>2. new = <<t, w.prev, w.by, w.expected>>
    OBVIOUS
  <2> HIDE DEF w, new
  <2>3. /\ wins[t] \in Seq(Win) /\ Len(wins'[t]) = Len(wins[t]) + 1
        /\ wins'[t][Len(wins'[t])] = w
        /\ \A i \in 1..Len(wins[t]) : wins'[t][i] = wins[t][i]
        /\ \A u \in Tasks : u # t => wins'[u] = wins[u]
    BY <2>1 DEF TypeOK
  <2>4. ASSUME NEW x \in Taken PROVE x \in Taken'
    <3>0. PICK u \in Tasks : \E i \in 1..Len(wins[u]) :
             x = <<u, wins[u][i].prev, wins[u][i].by, wins[u][i].expected>>
      BY <2>4, TakenIs
    <3>1. PICK i \in 1..Len(wins[u]) :
             x = <<u, wins[u][i].prev, wins[u][i].by, wins[u][i].expected>>
      BY <3>0
    <3>2. i \in 1..Len(wins'[u]) /\ wins'[u][i] = wins[u][i]
      BY <2>3
    <3> QED
      BY <3>1, <3>2, TakenIs
  <2>5. new \in Taken'
    <3>1. Len(wins'[t]) \in 1..Len(wins'[t])
      BY <2>3
    <3> QED
      BY <2>2, <2>3, <3>1, TakenIs
  <2>6. ASSUME NEW x \in Taken' PROVE x \in Taken \/ x = new
    <3>0. PICK u \in Tasks : \E i \in 1..Len(wins'[u]) :
             x = <<u, wins'[u][i].prev, wins'[u][i].by, wins'[u][i].expected>>
      BY <2>6, TakenIs
    <3>1. PICK i \in 1..Len(wins'[u]) :
             x = <<u, wins'[u][i].prev, wins'[u][i].by, wins'[u][i].expected>>
      BY <3>0
    <3>2. CASE i \in 1..Len(wins[u])
      <4>1. wins'[u][i] = wins[u][i]
        BY <2>3, <3>2
      <4> QED
        BY <3>1, <3>2, <4>1, TakenIs
    <3>3. CASE i \notin 1..Len(wins[u])
      <4>1. u = t /\ wins'[u][i] = w
        BY <2>3, <3>3
      <4> QED
        BY <2>2, <3>1, <4>1
    <3> QED
      BY <3>2, <3>3
  <2>7. Taken' = Taken \cup {new}
    BY <2>4, <2>5, <2>6
  <2>8. UNCHANGED Told
    BY <2>1 DEF Told, Notices
  <2>9. IF expected = None THEN owner[t] \in {None, Me(c)} ELSE owner[t] = expected
    BY <2>1 DEF MayTake
  <2>10. Register!Take(t, Me(c), expected)
    BY <1>3, <2>1, <2>7, <2>8, <2>9 DEF Register!Take, new
  <2>11. Me(c) \in Names
    BY MeIsName
  <2> QED
    BY <2>10, <2>11 DEF Register!Next
<1> QED
  BY <1>1, <1>2, <1>3, TablesChange

(* The runtime implements a register with compare-and-swap, for every set  *)
(* of connections, devices and tasks: a task leaves its owner only for a   *)
(* request that expected that owner, and every notice is of a takeover     *)
(* that happened.                                                          *)
THEOREM ImplementsRegister == Spec => KeepsRegister
<1>1. Init => Register!Init
  <2>1. Init => Taken = {}
    BY DEF Init, Taken
  <2>2. Init => Told = {}
    BY DEF Init, Told, Notices
  <2> QED
    BY <2>1, <2>2 DEF Init, Register!Init
<1>2. IInv /\ [Next]_vars => [Register!Next]_Register!vars
  BY RegisterStep DEF IInv
<1> QED
  BY <1>1, <1>2, Invariance, PTL DEF Spec, KeepsRegister, Register!Spec

=============================================================================
