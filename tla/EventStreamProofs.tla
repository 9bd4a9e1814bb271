------------------------- MODULE EventStreamProofs -------------------------
(***************************************************************************)
(* What EventStream keeps for every set of tasks and clients, every        *)
(* capacity and every bound, proved with TLAPS: types, the order of the    *)
(* three steps of a broadcast, and what a replay from the table brings.    *)
(***************************************************************************)
EXTENDS EventStream, FiniteSetTheorems, TLAPS

(* A sequence of whatever it is made of.                                   *)
IsSequence(s) == \E S : s \in Seq(S)

-----------------------------------------------------------------------------
LEMMA AppendIsSequence ==
  ASSUME NEW s, IsSequence(s), NEW e
  PROVE  IsSequence(Append(s, e)) /\ ToSet(Append(s, e)) = ToSet(s) \cup {e}
<1>1. PICK S : s \in Seq(S)
  BY DEF IsSequence
<1>2. s \in Seq(S \cup {e})
  BY <1>1
<1>3. Append(s, e) \in Seq(S \cup {e})
  BY <1>2
<1>4. ToSet(Append(s, e)) = ToSet(s) \cup {e}
  <2>1. Len(s) \in Nat /\ DOMAIN s = 1..Len(s)
    BY <1>2
  <2>2. DOMAIN Append(s, e) = 1..(Len(s) + 1)
    BY <1>2
  <2>3. /\ Append(s, e)[Len(s) + 1] = e
        /\ \A i \in 1..Len(s) : Append(s, e)[i] = s[i]
    BY <1>2
  <2>4. ASSUME NEW x \in ToSet(Append(s, e)) PROVE x \in ToSet(s) \cup {e}
    <3>1. PICK i \in 1..(Len(s) + 1) : x = Append(s, e)[i]
      BY <2>2, <2>4 DEF ToSet
    <3>2. CASE i = Len(s) + 1
      BY <2>3, <3>1, <3>2
    <3>3. CASE i \in 1..Len(s)
      BY <2>1, <2>3, <3>1, <3>3 DEF ToSet
    <3> QED
      BY <2>1, <3>2, <3>3
  <2>5. ASSUME NEW x \in ToSet(s) \cup {e} PROVE x \in ToSet(Append(s, e))
    <3>1. CASE x = e
      <4>1. Len(s) + 1 \in DOMAIN Append(s, e)
        BY <2>1, <2>2
      <4> QED
        BY <2>3, <3>1, <4>1 DEF ToSet
    <3>2. CASE x \in ToSet(s)
      <4>1. PICK i \in 1..Len(s) : x = s[i]
        BY <2>1, <3>2 DEF ToSet
      <4>2. i \in DOMAIN Append(s, e) /\ x = Append(s, e)[i]
        BY <2>1, <2>2, <2>3, <4>1
      <4> QED
        BY <4>2 DEF ToSet
    <3> QED
      BY <2>5, <3>1, <3>2
  <2> QED
    BY <2>4, <2>5
<1> QED
  BY <1>3, <1>4 DEF IsSequence

LEMMA TailIsSequence ==
  ASSUME NEW s, IsSequence(s), s # <<>>
  PROVE  IsSequence(Tail(s)) /\ ToSet(Tail(s)) \subseteq ToSet(s)
<1>1. PICK S : s \in Seq(S)
  BY DEF IsSequence
<1>2. Tail(s) \in Seq(S)
  BY <1>1
<1>3. ToSet(Tail(s)) \subseteq ToSet(s)
  BY <1>1 DEF ToSet
<1> QED
  BY <1>2, <1>3 DEF IsSequence

(* What one step of a broadcast does to the ring.                          *)
LEMMA PushedHot ==
  ASSUME IsSequence(hot), NEW b, PushHot(b)
  PROVE  IsSequence(hot)' /\ ToSet(hot)' \subseteq ToSet(hot) \cup {b.event}
<1> DEFINE base == IF Len(hot) >= HotCap THEN Tail(hot) ELSE hot
<1>1. IsSequence(base) /\ ToSet(base) \subseteq ToSet(hot)
  <2>1. CASE Len(hot) >= HotCap
    <3>1. hot # <<>>
      BY <2>1, CapsAssumption
    <3> QED
      BY <2>1, <3>1, TailIsSequence
  <2>2. CASE ~(Len(hot) >= HotCap)
    BY <2>2
  <2> QED
    BY <2>1, <2>2
<1>2. hot' = Append(base, b.event)
  BY DEF PushHot
<1> HIDE DEF base
<1>3. IsSequence(Append(base, b.event)) /\ ToSet(Append(base, b.event)) = ToSet(base) \cup {b.event}
  BY <1>1, AppendIsSequence
<1> QED
  BY <1>1, <1>2, <1>3

-----------------------------------------------------------------------------
(* Type correctness.                                                       *)

NumbersOK ==
    /\ nextSeq \in Nat \ {0} /\ subscribes \in [Clients -> Nat]
    /\ restarts \in Nat /\ dbErrors \in Nat /\ prunes \in Nat
LogOK ==
    /\ hot \in Seq(Event) /\ Len(hot) <= HotCap
    /\ cold \subseteq Event /\ fanned \subseteq Event /\ pruned \subseteq Event
    /\ unlogged \subseteq Event
    /\ \A e, f \in cold : e.seq = f.seq => e = f
CastsOK == casts \subseteq Broadcast
ConnOK ==
    /\ subs \in [Clients -> SUBSET Tasks]
    /\ ring \in [Clients -> [Tasks -> Seq(Event)]]
    /\ pipe \in [Clients -> Seq(Event)]
    /\ got \in [Clients -> SUBSET Event]
    /\ lagged \in [Clients -> SUBSET Event]
ReplayOK == replay \in [Clients -> Request]

LEMMA TypeParts == TypeOK <=> NumbersOK /\ LogOK /\ CastsOK /\ ConnOK /\ ReplayOK
  BY DEF TypeOK, NumbersOK, LogOK, CastsOK, ConnOK, ReplayOK

LEMMA PartsKept == NumbersOK' /\ LogOK' /\ CastsOK' /\ ConnOK' /\ ReplayOK' => TypeOK'
  BY DEF TypeOK, NumbersOK, LogOK, CastsOK, ConnOK, ReplayOK

LEMMA AscendingIsSequence ==
  ASSUME NEW S, NEW key, NEW n \in Nat, NEW p \in Ascending(S, key, n)
  PROVE  p \in Seq(S)
<1>1. PICK k \in 0..n : p \in [1..k -> S]
  BY DEF Ascending
<1> QED
  BY <1>1

LEMMA PageIsSequence ==
  ASSUME NEW S, NEW key, NEW p \in Pages(S, key)
  PROVE  /\ p \in Seq(S)
         /\ \A x \in S \ ToSet(p) :
              Len(p) = Limit /\ \A i \in DOMAIN p : key[p[i]] < key[x]
<1>1. p \in Ascending(S, key, Limit) /\ Limit \in Nat
  BY CapsAssumption DEF Pages
<1>2. p \in Seq(S)
  BY <1>1, AscendingIsSequence
<1> QED
  BY <1>2 DEF Pages

(* Decoding drops no row of an event that was fanned out in this run.      *)
LEMMA DecodedRows ==
  ASSUME NEW page \in Seq(Event), NEW rows \in Decoded(page)
  PROVE  /\ rows \in Seq(Event) /\ ToSet(rows) \subseteq ToSet(page)
         /\ \A e \in ToSet(page) : e \in fanned => e \in ToSet(rows)
<1> DEFINE S == ToSet(page)
           key == [e \in ToSet(page) |-> e.seq]
<1>1. rows \in Ascending(S, key, Len(page)) /\ Len(page) \in Nat
  BY DEF Decoded
<1>2. S \subseteq Event
  BY DEF ToSet
<1>3. \A e \in S \ ToSet(rows) : e \notin fanned
  BY DEF Decoded
<1> HIDE DEF S, key
<1>4. rows \in Seq(S)
  BY <1>1, AscendingIsSequence
<1>5. rows \in Seq(Event) /\ ToSet(rows) \subseteq S
  BY <1>2, <1>4 DEF ToSet
<1> QED
  BY <1>3, <1>5 DEF S

LEMMA HotPageIsSequence ==
  ASSUME TypeOK, NEW cursor, NEW page \in HotSince(cursor)
  PROVE  page \in Seq(Event) /\ ToSet(page) \subseteq ToSet(hot)
<1> DEFINE S == {i \in DOMAIN hot : hot[i].seq > cursor}
           key == [i \in DOMAIN hot |-> i]
<1>1. PICK p \in Pages(S, key) : page = [i \in DOMAIN p |-> hot[p[i]]]
  BY DEF HotSince
<1>2. p \in Seq(S)
  BY <1>1, PageIsSequence
<1> HIDE DEF S, key
<1>3. hot \in Seq(Event) /\ S \subseteq DOMAIN hot
  BY DEF TypeOK, S
<1>4. /\ DOMAIN p = 1..Len(p) /\ Len(p) \in Nat
      /\ \A i \in DOMAIN p : p[i] \in S
  BY <1>2
<1>5. \A i \in DOMAIN p : hot[p[i]] \in Event /\ p[i] \in DOMAIN hot
  BY <1>3, <1>4
<1>6. page \in [1..Len(p) -> Event]
  BY <1>1, <1>4, <1>5
<1>7. page \in Seq(Event)
  BY <1>4, <1>6
<1>8. ToSet(page) \subseteq ToSet(hot)
  BY <1>1, <1>5 DEF ToSet
<1> QED
  BY <1>7, <1>8

LEMMA ColdPageIsSequence ==
  ASSUME TypeOK, NEW cursor, NEW page \in ColdSince(cursor)
  PROVE  page \in Seq(Event) /\ ToSet(page) \subseteq cold
<1> DEFINE S == {e \in cold : e.seq > Signed(cursor)}
<1>1. page \in Seq(S)
  BY PageIsSequence DEF ColdSince
<1>2. S \subseteq cold /\ cold \subseteq Event
  BY DEF TypeOK
<1> HIDE DEF S
<1>3. page \in Seq(cold)
  BY <1>1, <1>2
<1> QED
  BY <1>2, <1>3 DEF ToSet

LEMMA InitType == Init => TypeOK
<1> SUFFICES ASSUME Init PROVE TypeOK
  OBVIOUS
<1>1. Idle \in Request
  BY DEF Idle, Request
<1> QED
  BY <1>1, CapsAssumption DEF Init, TypeOK

(* A broadcast that moves on is still a broadcast.                         *)
LEMMA AdvanceKeeps ==
  ASSUME CastsOK, NEW b \in casts, NEW stage \in {"numbered", "pushed", "logged"},
         Advance(b, stage)
  PROVE  /\ CastsOK'
         /\ \E n \in Broadcast :
              /\ casts' = (casts \ {b}) \cup {n}
              /\ n.event = b.event /\ n.stage = stage /\ n.by = b.by
<1> DEFINE n == [b EXCEPT !.stage = stage]
<1>1. b \in Broadcast
  BY DEF CastsOK
<1>2. n \in Broadcast /\ n.event = b.event /\ n.stage = stage /\ n.by = b.by
  BY <1>1 DEF Broadcast
<1>3. casts' = (casts \ {b}) \cup {n}
  BY DEF Advance
<1> HIDE DEF n
<1> QED
  BY <1>2, <1>3 DEF CastsOK

LEMMA BroadcastType ==
  ASSUME TypeOK, NEW b \in casts, BroadcastStep(b)
  PROVE  TypeOK'
<1> USE DEF log, client, bounds
<1>0. NumbersOK /\ LogOK /\ CastsOK /\ ConnOK /\ ReplayOK
  BY TypeParts
<1>1. b.event \in Event /\ b.event.task \in Tasks /\ b.event.seq \in Nat
  BY <1>0 DEF CastsOK, Broadcast, Event
<1>2. CASE PushHot(b)
  <2>1. CastsOK'
    BY <1>0, <1>2, AdvanceKeeps DEF PushHot
  <2>2. UNCHANGED <<cold, fanned, pruned, unlogged>>
    BY <1>2 DEF PushHot
  <2>3. hot' \in Seq(Event) /\ Len(hot') <= HotCap
    <3>1. hot \in Seq(Event) /\ Len(hot) <= HotCap /\ Len(hot) \in Nat /\ HotCap \in Nat \ {0}
      BY <1>0, CapsAssumption DEF LogOK
    <3>2. CASE Len(hot) >= HotCap
      <4>1. hot # <<>> /\ Len(hot) = HotCap
        BY <3>1, <3>2
      <4>2. Tail(hot) \in Seq(Event) /\ Len(Tail(hot)) = Len(hot) - 1
        BY <3>1, <4>1
      <4>3. hot' = Append(Tail(hot), b.event)
        BY <1>2, <3>2 DEF PushHot
      <4> QED
        BY <1>1, <3>1, <4>1, <4>2, <4>3
    <3>3. CASE ~(Len(hot) >= HotCap)
      <4>1. hot' = Append(hot, b.event)
        BY <1>2, <3>3 DEF PushHot
      <4> QED
        BY <1>1, <3>1, <3>3, <4>1
    <3> QED
      BY <3>2, <3>3
  <2>4. LogOK'
    BY <1>0, <2>2, <2>3 DEF LogOK
  <2>5. NumbersOK' /\ ConnOK' /\ ReplayOK'
    BY <1>0, <1>2 DEF PushHot, NumbersOK, ConnOK, ReplayOK
  <2> QED
    BY <2>1, <2>4, <2>5, PartsKept
<1>3. CASE InsertCold(b)
  <2>1. CastsOK'
    BY <1>0, <1>3, AdvanceKeeps DEF InsertCold
  <2>2. UNCHANGED <<hot, fanned, pruned, unlogged>>
    BY <1>3 DEF InsertCold
  <2>3. cold' \subseteq Event /\ \A e, f \in cold' : e.seq = f.seq => e = f
    BY <1>0, <1>1, <1>3 DEF InsertCold, SeqTaken, LogOK
  <2>4. LogOK'
    BY <1>0, <2>2, <2>3 DEF LogOK
  <2>5. NumbersOK' /\ ConnOK' /\ ReplayOK'
    BY <1>0, <1>3 DEF InsertCold, NumbersOK, ConnOK, ReplayOK
  <2> QED
    BY <2>1, <2>4, <2>5, PartsKept
<1>4. CASE InsertColdFails(b)
  <2>1. CastsOK'
    BY <1>0, <1>4, AdvanceKeeps DEF InsertColdFails
  <2>2. LogOK' /\ ConnOK' /\ ReplayOK'
    BY <1>0, <1>1, <1>4 DEF InsertColdFails, LogOK, ConnOK, ReplayOK
  <2>3. NumbersOK'
    BY <1>0, <1>4 DEF InsertColdFails, NumbersOK
  <2> QED
    BY <2>1, <2>2, <2>3, PartsKept
<1>5. CASE FanOut(b)
  <2> DEFINE t == b.event.task
             full == {c \in Clients : t \in subs[c] /\ Len(ring[c][t]) >= RingCap}
  <2>1. CastsOK'
    BY <1>0, <1>5 DEF FanOut, CastsOK
  <2>2. LogOK'
    BY <1>0, <1>1, <1>5 DEF FanOut, LogOK
  <2>3. NumbersOK' /\ ReplayOK' /\ UNCHANGED <<subs, pipe, got>>
    BY <1>0, <1>5 DEF FanOut, NumbersOK, ReplayOK
  <2>4. ring' \in [Clients -> [Tasks -> Seq(Event)]]
    <3>1. ASSUME NEW c \in Clients
          PROVE  (IF t \notin subs[c] THEN ring[c]
                  ELSE [ring[c] EXCEPT ![t] =
                          Append(IF c \in full THEN Tail(@) ELSE @, b.event)])
                   \in [Tasks -> Seq(Event)]
      <4>1. ring[c] \in [Tasks -> Seq(Event)] /\ ring[c][t] \in Seq(Event)
        BY <1>0, <1>1 DEF ConnOK
      <4>2. c \in full => ring[c][t] # <<>>
        BY <4>1, CapsAssumption
      <4>3. (IF c \in full THEN Tail(ring[c][t]) ELSE ring[c][t]) \in Seq(Event)
        BY <4>1, <4>2
      <4> QED
        BY <1>1, <4>1, <4>3
    <3>2. ring' = [c \in Clients |->
                    IF t \notin subs[c] THEN ring[c]
                    ELSE [ring[c] EXCEPT ![t] =
                            Append(IF c \in full THEN Tail(@) ELSE @, b.event)]]
      BY <1>5 DEF FanOut
    <3> HIDE DEF t, full
    <3> QED
      BY <3>1, <3>2
  <2>5. lagged' \in [Clients -> SUBSET Event]
    <3>1. ASSUME NEW c \in Clients
          PROVE  (IF c \in full THEN lagged[c] \cup {Head(ring[c][t])} ELSE lagged[c])
                   \in SUBSET Event
      <4>1. ring[c][t] \in Seq(Event) /\ lagged[c] \in SUBSET Event
        BY <1>0, <1>1 DEF ConnOK
      <4>2. c \in full => ring[c][t] # <<>>
        BY <4>1, CapsAssumption
      <4>3. c \in full => Head(ring[c][t]) \in Event
        BY <4>1, <4>2
      <4> QED
        BY <4>1, <4>3
    <3>2. lagged' = [c \in Clients |->
                      IF c \in full THEN lagged[c] \cup {Head(ring[c][t])} ELSE lagged[c]]
      BY <1>5 DEF FanOut
    <3> HIDE DEF t, full
    <3> QED
      BY <3>1, <3>2
  <2>6. ConnOK'
    BY <1>0, <2>3, <2>4, <2>5 DEF ConnOK
  <2> QED
    BY <2>1, <2>2, <2>3, <2>6, PartsKept
<1> QED
  BY <1>2, <1>3, <1>4, <1>5 DEF BroadcastStep

LEMMA ForgetKeeps == ASSUME ReplayOK, NEW c \in Clients, Forget(c) PROVE ReplayOK'
<1>1. replay[c] \in Request
  BY DEF ReplayOK
<1>2. [replay[c] EXCEPT !.want = {}] \in Request
  BY <1>1 DEF Request
<1>3. replay' = [replay EXCEPT ![c] = [replay[c] EXCEPT !.want = {}]]
  BY DEF Forget
<1> QED
  BY <1>2, <1>3 DEF ReplayOK

LEMMA ConnectionType ==
  ASSUME TypeOK, NEW c \in Clients,
         \/ \E t \in Tasks : Subscribe(c, t) \/ Unsubscribe(c, t) \/ Pump(c, t)
         \/ Disconnect(c) \/ Deliver(c)
  PROVE  TypeOK'
<1> USE DEF log, client, bounds
<1>0. NumbersOK /\ LogOK /\ CastsOK /\ ConnOK /\ ReplayOK
  BY TypeParts
<1>1. ASSUME NEW t \in Tasks, Subscribe(c, t) PROVE TypeOK'
  <2>1. LogOK' /\ CastsOK'
    BY <1>0, <1>1 DEF Subscribe, LogOK, CastsOK
  <2>2. NumbersOK'
    BY <1>0, <1>1 DEF Subscribe, NumbersOK
  <2>3. ConnOK'
    BY <1>0, <1>1 DEF Subscribe, ConnOK
  <2>4. ReplayOK'
    BY <1>0, <1>1, ForgetKeeps DEF Subscribe
  <2> QED
    BY <2>1, <2>2, <2>3, <2>4, PartsKept
<1>2. ASSUME NEW t \in Tasks, Unsubscribe(c, t) PROVE TypeOK'
  <2>1. LogOK' /\ CastsOK' /\ NumbersOK'
    BY <1>0, <1>2 DEF Unsubscribe, LogOK, CastsOK, NumbersOK
  <2>2. ConnOK'
    BY <1>0, <1>2 DEF Unsubscribe, ConnOK
  <2>3. ReplayOK'
    BY <1>0, <1>2, ForgetKeeps DEF Unsubscribe
  <2> QED
    BY <2>1, <2>2, <2>3, PartsKept
<1>3. ASSUME NEW t \in Tasks, Pump(c, t) PROVE TypeOK'
  <2>1. LogOK' /\ CastsOK' /\ NumbersOK' /\ ReplayOK'
    BY <1>0, <1>3 DEF Pump, LogOK, CastsOK, NumbersOK, ReplayOK
  <2>2. ring[c][t] \in Seq(Event) /\ ring[c][t] # <<>> /\ pipe[c] \in Seq(Event)
    BY <1>0, <1>3 DEF Pump, ConnOK
  <2>3. /\ Head(ring[c][t]) \in Event /\ Tail(ring[c][t]) \in Seq(Event)
        /\ Append(pipe[c], Head(ring[c][t])) \in Seq(Event)
    BY <2>2
  <2>4. /\ pipe' = [pipe EXCEPT ![c] = Append(pipe[c], Head(ring[c][t]))]
        /\ ring' = [ring EXCEPT ![c] = [ring[c] EXCEPT ![t] = Tail(ring[c][t])]]
        /\ UNCHANGED <<subs, got, lagged>>
    BY <1>3 DEF Pump
  <2>5. ConnOK'
    BY <1>0, <2>3, <2>4 DEF ConnOK
  <2> QED
    BY <2>1, <2>5, PartsKept
<1>4. CASE Disconnect(c)
  <2>1. LogOK' /\ CastsOK' /\ NumbersOK'
    BY <1>0, <1>4 DEF Disconnect, LogOK, CastsOK, NumbersOK
  <2>2. ConnOK'
    BY <1>0, <1>4 DEF Disconnect, ConnOK
  <2>3. ReplayOK'
    BY <1>0, <1>4, ForgetKeeps DEF Disconnect
  <2> QED
    BY <2>1, <2>2, <2>3, PartsKept
<1>5. CASE Deliver(c)
  <2>1. LogOK' /\ CastsOK' /\ NumbersOK' /\ ReplayOK'
    BY <1>0, <1>5 DEF Deliver, LogOK, CastsOK, NumbersOK, ReplayOK
  <2>2. pipe[c] \in Seq(Event) /\ pipe[c] # <<>>
    BY <1>0, <1>5 DEF Deliver, ConnOK
  <2>3. Head(pipe[c]) \in Event /\ Tail(pipe[c]) \in Seq(Event)
    BY <2>2
  <2>4. /\ got' = [got EXCEPT ![c] = got[c] \cup {Head(pipe[c])}]
        /\ pipe' = [pipe EXCEPT ![c] = Tail(pipe[c])]
        /\ UNCHANGED <<subs, ring, lagged>>
    BY <1>5 DEF Deliver
  <2>5. ConnOK'
    BY <1>0, <2>3, <2>4 DEF ConnOK
  <2> QED
    BY <2>1, <2>5, PartsKept
<1> QED
  BY <1>1, <1>2, <1>3, <1>4, <1>5

LEMMA AskedIsRequest ==
  ASSUME TypeOK, NEW c \in Clients, NEW cursor \in Cursors
  PROVE  Asked(c, cursor) \in Request
<1>1. cursor \in Nat
  BY CapsAssumption
<1>2. Missing(c, cursor) \in SUBSET Event
  BY DEF Missing, TypeOK
<1>3. replay[c].asked \in Nat
  BY DEF TypeOK, Request
<1> QED
  BY <1>1, <1>2, <1>3 DEF Asked, Request

(* What a replay that was just asked leaves alone.                         *)
LEMMA AsksFrame ==
  ASSUME NEW c, ReplayAsks(c)
  PROVE  /\ UNCHANGED <<nextSeq, casts, fanned, log, subs, ring, pipe, got, subscribes, bounds>>
         /\ lagged' = [lagged EXCEPT ![c] = {}]
  BY Zenon DEF ReplayAsks

LEMMA QueryReads ==
  ASSUME TypeOK, NEW c \in Clients, ReplayQueries(c)
  PROVE  \E page \in ColdSince(replay[c].cursor) : \E rows \in Decoded(page) :
           replay' = [replay EXCEPT ![c] =
             [replay[c] EXCEPT !.pc = "sending", !.todo = rows, !.want = Within(@, page)]]
<1>1. PICK page \in ColdSince(replay[c].cursor) : \E rows \in Decoded(page) :
        replay' = [replay EXCEPT ![c].pc = "sending", ![c].todo = rows,
                                 ![c].want = Within(@, page)]
  BY Zenon DEF ReplayQueries
<1>2. PICK rows \in Decoded(page) :
        replay' = [replay EXCEPT ![c].pc = "sending", ![c].todo = rows,
                                 ![c].want = Within(@, page)]
  BY <1>1
<1>3. replay \in [Clients -> Request] /\ replay[c] \in Request
  BY DEF TypeOK
<1>4. replay' = [replay EXCEPT ![c] =
                  [replay[c] EXCEPT !.pc = "sending", !.todo = rows, !.want = Within(@, page)]]
  BY <1>2, <1>3 DEF Request
<1> QED
  BY <1>4

LEMMA ReplayType ==
  ASSUME TypeOK, NEW c \in Clients, ReplayAsks(c) \/ ReplayStep(c)
  PROVE  TypeOK'
<1> USE DEF log, client, bounds
<1>0. NumbersOK /\ LogOK /\ CastsOK /\ ConnOK /\ ReplayOK
  BY TypeParts
<1>1. replay[c] \in Request /\ replay[c].todo \in Seq(Event)
  BY <1>0 DEF ReplayOK, Request
<1>2. CASE ReplayAsks(c)
  <2>0. UNCHANGED <<nextSeq, casts, fanned, log, subscribes, bounds>>
    BY <1>2, AsksFrame
  <2>1. LogOK' /\ CastsOK' /\ NumbersOK'
    BY <1>0, <2>0 DEF LogOK, CastsOK, NumbersOK
  <2>2. ConnOK'
    BY <1>0, <1>2 DEF ReplayAsks, ConnOK
  <2>3. ReplayOK'
    <3>1. PICK cursor \in Cursors :
            \/ \E page \in HotSince(cursor) :
                 replay' = [replay EXCEPT ![c] =
                   [Asked(c, cursor) EXCEPT !.pc = "sending", !.via = "hot", !.todo = page]]
            \/ replay' = [replay EXCEPT ![c] = Asked(c, cursor)]
      BY <1>2 DEF ReplayAsks
    <3>2. Asked(c, cursor) \in Request
      BY AskedIsRequest
    <3>3. ASSUME NEW page \in HotSince(cursor)
          PROVE  [Asked(c, cursor) EXCEPT !.pc = "sending", !.via = "hot", !.todo = page]
                   \in Request
      <4>1. page \in Seq(Event)
        BY HotPageIsSequence
      <4> QED
        BY <3>2, <4>1 DEF Request
    <3> QED
      BY <1>0, <3>1, <3>2, <3>3 DEF ReplayOK
  <2> QED
    BY <2>1, <2>2, <2>3, PartsKept
<1>3. CASE ReplayQueries(c)
  <2>1. LogOK' /\ CastsOK' /\ NumbersOK' /\ ConnOK'
    BY <1>0, <1>3 DEF ReplayQueries, LogOK, CastsOK, NumbersOK, ConnOK
  <2>2. PICK page \in ColdSince(replay[c].cursor) : \E rows \in Decoded(page) :
          replay' = [replay EXCEPT ![c] =
            [replay[c] EXCEPT !.pc = "sending", !.todo = rows, !.want = Within(@, page)]]
    BY <1>3, QueryReads
  <2>3. PICK rows \in Decoded(page) :
          replay' = [replay EXCEPT ![c] =
            [replay[c] EXCEPT !.pc = "sending", !.todo = rows, !.want = Within(@, page)]]
    BY <2>2
  <2>4. rows \in Seq(Event)
    BY ColdPageIsSequence, DecodedRows
  <2>5. Within(replay[c].want, page) \in SUBSET Event
    BY <1>1 DEF Within, Request
  <2>6. [replay[c] EXCEPT !.pc = "sending", !.todo = rows, !.want = Within(@, page)]
          \in Request
    BY <1>1, <2>4, <2>5 DEF Request
  <2>7. ReplayOK'
    BY <1>0, <2>3, <2>6 DEF ReplayOK
  <2> QED
    BY <2>1, <2>7, PartsKept
<1>4. CASE ReplayQueryFails(c)
  <2>1. LogOK' /\ CastsOK' /\ NumbersOK' /\ ConnOK'
    BY <1>0, <1>4 DEF ReplayQueryFails, LogOK, CastsOK, NumbersOK, ConnOK
  <2>2. [replay[c] EXCEPT !.pc = "sending", !.via = "failed"] \in Request
    BY <1>1 DEF Request
  <2>3. ReplayOK'
    BY <1>0, <1>4, <2>2 DEF ReplayQueryFails, ReplayOK
  <2> QED
    BY <2>1, <2>3, PartsKept
<1>5. CASE ReplaySends(c)
  <2>1. LogOK' /\ NumbersOK' /\ ConnOK'
    BY <1>0, <1>5 DEF ReplaySends, LogOK, NumbersOK, ConnOK
  <2>2. Head(replay[c].todo) \in Event /\ Tail(replay[c].todo) \in Seq(Event)
    BY <1>1, <1>5 DEF ReplaySends
  <2>3. CastsOK'
    BY <1>0, <1>5, <2>2 DEF ReplaySends, CastsOK, Broadcast
  <2>4. [replay[c] EXCEPT !.todo = Tail(replay[c].todo)] \in Request
    BY <1>1, <2>2 DEF Request
  <2>5. ReplayOK'
    BY <1>0, <1>5, <2>4 DEF ReplaySends, ReplayOK
  <2> QED
    BY <2>1, <2>3, <2>5, PartsKept
<1>6. CASE ReplayAnswers(c)
  <2>1. LogOK' /\ CastsOK' /\ NumbersOK' /\ ConnOK'
    BY <1>0, <1>6 DEF ReplayAnswers, LogOK, CastsOK, NumbersOK, ConnOK
  <2>2. [replay[c] EXCEPT !.pc = "idle"] \in Request
    BY <1>1 DEF Request
  <2>3. ReplayOK'
    BY <1>0, <1>6, <2>2 DEF ReplayAnswers, ReplayOK
  <2> QED
    BY <2>1, <2>3, PartsKept
<1> QED
  BY <1>2, <1>3, <1>4, <1>5, <1>6 DEF ReplayStep

LEMMA TypeStep == TypeOK /\ [Next]_vars => TypeOK'
<1> SUFFICES ASSUME TypeOK, [Next]_vars PROVE TypeOK'
  OBVIOUS
<1> USE DEF log, client, bounds
<1>0. NumbersOK /\ LogOK /\ CastsOK /\ ConnOK /\ ReplayOK
  BY TypeParts
<1>1. ASSUME NEW t \in Tasks, Number(t) PROVE TypeOK'
  <2>1. NumbersOK' /\ LogOK' /\ ConnOK' /\ ReplayOK'
    BY <1>0, <1>1 DEF Number, NumbersOK, LogOK, ConnOK, ReplayOK
  <2>2. [run |-> restarts, seq |-> nextSeq, task |-> t] \in Event
    BY <1>0 DEF Event, NumbersOK
  <2>3. CastsOK'
    BY <1>0, <1>1, <2>2 DEF Number, CastsOK, Broadcast
  <2> QED
    BY <2>1, <2>3, PartsKept
<1>2. CASE NumberUnused
  <2>1. NumbersOK' /\ LogOK' /\ ConnOK' /\ ReplayOK' /\ CastsOK'
    BY <1>0, <1>2 DEF NumberUnused, NumbersOK, LogOK, ConnOK, ReplayOK, CastsOK
  <2> QED
    BY <2>1, PartsKept
<1>3. ASSUME NEW b \in casts, BroadcastStep(b) PROVE TypeOK'
  BY <1>3, BroadcastType
<1>4. ASSUME NEW c \in Clients, NEW t \in Tasks,
             Subscribe(c, t) \/ Unsubscribe(c, t) \/ Pump(c, t)
      PROVE  TypeOK'
  BY <1>4, ConnectionType
<1>5. ASSUME NEW c \in Clients, Disconnect(c) \/ Deliver(c) PROVE TypeOK'
  BY <1>5, ConnectionType
<1>6. ASSUME NEW c \in Clients, ReplayAsks(c) \/ ReplayStep(c) PROVE TypeOK'
  BY <1>6, ReplayType
<1>7. CASE Prune
  <2>1. NumbersOK' /\ CastsOK' /\ ConnOK' /\ ReplayOK' /\ UNCHANGED <<hot, fanned, unlogged>>
    BY <1>0, <1>7 DEF Prune, NumbersOK, ConnOK, ReplayOK, CastsOK
  <2>2. PICK e \in cold :
          LET old == {f \in cold : f.run < e.run \/ (f.run = e.run /\ f.seq <= e.seq)} IN
          cold' = cold \ old /\ pruned' = pruned \cup old
    BY <1>7 DEF Prune
  <2>3. LogOK'
    BY <1>0, <2>1, <2>2 DEF LogOK
  <2> QED
    BY <2>1, <2>3, PartsKept
<1>8. CASE Restart
  <2>1. NumbersOK' /\ CastsOK'
    BY <1>0, <1>8 DEF Restart, NumbersOK, CastsOK
  <2>2. LogOK'
    <3>1. hot' = <<>> /\ fanned' = {} /\ UNCHANGED <<cold, pruned, unlogged>>
      BY <1>8 DEF Restart
    <3> QED
      BY <1>0, <3>1, CapsAssumption DEF LogOK
  <2>3. ConnOK'
    BY <1>0, <1>8 DEF Restart, ConnOK
  <2>4. ASSUME NEW c \in Clients PROVE [Idle EXCEPT !.asked = replay[c].asked] \in Request
    <3>1. replay[c].asked \in Nat
      BY <1>0 DEF ReplayOK, Request
    <3>2. Idle \in Request
      BY DEF Idle, Request
    <3> QED
      BY <3>1, <3>2 DEF Request
  <2>5. ReplayOK'
    BY <1>8, <2>4 DEF Restart, ReplayOK
  <2> QED
    BY <2>1, <2>2, <2>3, <2>5, PartsKept
<1>9. CASE UNCHANGED vars
  <2>1. NumbersOK' /\ LogOK'
    BY <1>0, <1>9 DEF vars, NumbersOK, LogOK
  <2>2. CastsOK' /\ ConnOK' /\ ReplayOK'
    BY <1>0, <1>9 DEF vars, CastsOK, ConnOK, ReplayOK
  <2> QED
    BY <2>1, <2>2, PartsKept
<1> QED
  BY <1>1, <1>2, <1>3, <1>4, <1>5, <1>6, <1>7, <1>8, <1>9 DEF Next

(* Every variable keeps its type, the ring its capacity, and the table at  *)
(* most one row per sequence number.                                       *)
THEOREM TypeCorrect == Spec => []TypeOK
  BY InitType, TypeStep, PTL DEF Spec

-----------------------------------------------------------------------------
(* The order of a broadcast, and a replay from the table.                  *)

(* The events that are stored or on their way.                             *)
Known(e) ==
    \/ e \in cold
    \/ e \in ToSet(hot)
    \/ \E b \in casts : b.event = e
    \/ \E c \in Clients : e \in ToSet(replay[c].todo)

(* In one run of the daemon a number names one event.                      *)
NumberedOnce ==
    \A e, f \in Event : Known(e) /\ Known(f) =>
        /\ e.run <= restarts /\ (e.run = restarts => e.seq < nextSeq)
        /\ e.run = restarts /\ f.run = restarts /\ e.seq = f.seq => e = f

(* What an earlier run numbered is known from the table only.              *)
OldKept == \A e \in Event : Known(e) /\ e.run < restarts => e \in cold \cup pruned

(* An event that is past its insert.                                       *)
Backed(e) == e \in cold \cup pruned \cup unlogged \/ Reused(e)
RowKept ==
    /\ \A e \in fanned : Backed(e)
    /\ \A b \in casts : b.stage = "logged" => Backed(b.event)

(* A connection that works on no page has none to send.                    *)
LoopShape ==
    \A c \in Clients : replay[c].pc # "sending" => replay[c].todo = <<>> /\ ~Sending(c)

(* What a client misses stays fanned out, and it stays subscribed to it.   *)
WantFanned ==
    \A c \in Clients : \A e \in replay[c].want :
        e \in fanned /\ e.seq > replay[c].cursor /\ e.task \in subs[c]

(* An event that has reached the client, is on its way to it, was skipped  *)
(* or has no row.                                                          *)
Coming(c, e) ==
    \/ e \in got[c] \/ e \in lagged[c] \/ e \in pruned \cup unlogged \/ Reused(e)
    \/ e \in ToSet(pipe[c]) \/ \E t \in Tasks : e \in ToSet(ring[c][t])
    \/ e \in ToSet(replay[c].todo)
    \/ \E b \in casts : b.by = c /\ b.event = e

Covered ==
    \A c \in Clients : replay[c].pc # "querying" /\ replay[c].via = "cold" =>
        \A e \in replay[c].want : Coming(c, e)

(* The inductive invariant.                                                *)
GapInv ==
    /\ TypeOK
    /\ NumberedOnce /\ OldKept /\ RowKept
    /\ LoopShape /\ WantFanned /\ Covered

LEMMA HeadAndTail ==
  ASSUME NEW S, NEW s \in Seq(S), s # <<>>
  PROVE  ToSet(s) = {Head(s)} \cup ToSet(Tail(s))
<1>1. Len(s) \in Nat \ {0} /\ DOMAIN s = 1..Len(s) /\ Head(s) = s[1]
  OBVIOUS
<1>2. /\ DOMAIN Tail(s) = 1..(Len(s) - 1)
      /\ \A i \in 1..(Len(s) - 1) : Tail(s)[i] = s[i + 1]
  BY <1>1
<1>3. ASSUME NEW x \in ToSet(s) PROVE x \in {Head(s)} \cup ToSet(Tail(s))
  <2>1. PICK i \in 1..Len(s) : x = s[i]
    BY <1>1, <1>3 DEF ToSet
  <2>2. CASE i = 1
    BY <1>1, <2>1, <2>2
  <2>3. CASE i # 1
    <3>1. i - 1 \in 1..(Len(s) - 1) /\ (i - 1) + 1 = i
      BY <1>1, <2>3
    <3>2. Tail(s)[i - 1] = x
      BY <1>2, <2>1, <3>1
    <3> QED
      BY <1>2, <3>1, <3>2 DEF ToSet
  <2> QED
    BY <2>2, <2>3
<1>4. ASSUME NEW x \in {Head(s)} \cup ToSet(Tail(s)) PROVE x \in ToSet(s)
  <2>1. CASE x = Head(s)
    <3>1. 1 \in 1..Len(s)
      BY <1>1
    <3> QED
      BY <1>1, <2>1, <3>1 DEF ToSet
  <2>2. CASE x \in ToSet(Tail(s))
    <3>1. PICK i \in 1..(Len(s) - 1) : x = Tail(s)[i]
      BY <1>2, <2>2 DEF ToSet
    <3>2. i + 1 \in 1..Len(s) /\ x = s[i + 1]
      BY <1>1, <1>2, <3>1
    <3> QED
      BY <1>1, <3>2 DEF ToSet
  <2> QED
    BY <1>4, <2>1, <2>2
<1> QED
  BY <1>3, <1>4

(* The numbers stay single when no event appears that was not known.       *)
LEMMA NumberedOnceStays ==
  ASSUME NumberedOnce, OldKept, UNCHANGED nextSeq, UNCHANGED restarts,
         cold \cup pruned \subseteq cold' \cup pruned',
         \A e \in Event : Known(e)' => Known(e)
  PROVE  NumberedOnce' /\ OldKept'
  BY DEF NumberedOnce, OldKept

(* Rows do not go without a trace.                                         *)
LEMMA BackedStays ==
  ASSUME cold \cup pruned \subseteq cold' \cup pruned', unlogged \subseteq unlogged'
  PROVE  \A e : (Backed(e) => Backed(e)') /\ (Reused(e) => Reused(e)')
<1>1. ASSUME NEW e, Reused(e) PROVE Reused(e)'
  BY <1>1 DEF Reused
<1> QED
  BY <1>1 DEF Backed

LEMMA NumberKeepsOnce ==
  ASSUME TypeOK, NumberedOnce, OldKept, NEW t \in Tasks, Number(t)
  PROVE  NumberedOnce' /\ OldKept'
<1> DEFINE new == [run |-> restarts, seq |-> nextSeq, task |-> t]
<1>1. /\ nextSeq \in Nat /\ restarts \in Nat /\ nextSeq' = nextSeq + 1
      /\ UNCHANGED <<restarts, hot, cold, pruned, replay>>
  BY DEF TypeOK, Number, log, bounds
<1>2. new.seq = nextSeq /\ new.run = restarts
  OBVIOUS
<1>3. casts' = casts \cup {[event |-> new, stage |-> "numbered", by |-> "thread"]}
  BY DEF Number
<1> HIDE DEF new
<1>4. \A e \in Event : Known(e)' => Known(e) \/ e = new
  BY <1>1, <1>3 DEF Known
<1>5. \A e \in Event : e.seq \in Nat /\ e.run \in Nat
  BY DEF Event
<1>6. \A x \in Event : Known(x) => x.run <= restarts /\ (x.run = restarts => x.seq < nextSeq)
  BY DEF NumberedOnce
<1>7. OldKept'
  <2> SUFFICES ASSUME NEW e \in Event, Known(e)', e.run < restarts' PROVE (e \in cold \cup pruned)'
    BY DEF OldKept
  <2>1. Known(e) \/ e = new
    BY <1>4
  <2>2. e # new
    BY <1>1, <1>2
  <2> QED
    BY <1>1, <2>1, <2>2 DEF OldKept
<1>8. ASSUME NEW e \in Event, Known(e)'
      PROVE  e.run <= restarts' /\ (e.run = restarts' => e.seq < nextSeq')
  BY <1>1, <1>2, <1>4, <1>5, <1>6, <1>8
<1>9. ASSUME NEW e \in Event, NEW f \in Event, Known(e)', Known(f)',
             e.run = restarts', f.run = restarts', e.seq = f.seq
      PROVE  e = f
  <2>1. (Known(e) \/ e = new) /\ (Known(f) \/ f = new)
    BY <1>4, <1>9
  <2>2. CASE e = new
    BY <1>1, <1>2, <1>5, <1>6, <1>9, <2>1, <2>2
  <2>3. CASE f = new
    BY <1>1, <1>2, <1>5, <1>6, <1>9, <2>1, <2>3
  <2>4. CASE Known(e) /\ Known(f)
    BY <1>1, <1>9, <2>4 DEF NumberedOnce
  <2> QED
    BY <2>1, <2>2, <2>3, <2>4
<1>10. NumberedOnce'
  BY <1>8, <1>9 DEF NumberedOnce
<1> QED
  BY <1>7, <1>10

LEMMA BroadcastKnows ==
  ASSUME TypeOK, NEW b \in casts, BroadcastStep(b), NEW e \in Event, Known(e)'
  PROVE  Known(e)
<1> USE DEF log, client, bounds
<1>0. CastsOK
  BY TypeParts
<1>1. CASE PushHot(b)
  <2>1. PICK n \in Broadcast : casts' = (casts \ {b}) \cup {n} /\ n.event = b.event
    BY <1>0, <1>1, AdvanceKeeps DEF PushHot
  <2>2. IsSequence(hot)
    BY DEF TypeOK, IsSequence
  <2>3. ToSet(hot)' \subseteq ToSet(hot) \cup {b.event}
    BY <1>1, <2>2, PushedHot
  <2>4. UNCHANGED <<cold, replay>>
    BY <1>1 DEF PushHot
  <2> QED
    BY <2>1, <2>3, <2>4 DEF Known
<1>2. CASE InsertCold(b)
  <2>1. PICK n \in Broadcast : casts' = (casts \ {b}) \cup {n} /\ n.event = b.event
    BY <1>0, <1>2, AdvanceKeeps DEF InsertCold
  <2>2. UNCHANGED <<hot, replay>> /\ cold' \subseteq cold \cup {b.event}
    BY <1>2 DEF InsertCold
  <2> QED
    BY <2>1, <2>2 DEF Known
<1>3. CASE InsertColdFails(b)
  <2>1. PICK n \in Broadcast : casts' = (casts \ {b}) \cup {n} /\ n.event = b.event
    BY <1>0, <1>3, AdvanceKeeps DEF InsertColdFails
  <2>2. UNCHANGED <<hot, replay, cold>>
    BY <1>3 DEF InsertColdFails
  <2> QED
    BY <2>1, <2>2 DEF Known
<1>4. CASE FanOut(b)
  <2>1. UNCHANGED <<hot, replay, cold>> /\ casts' = casts \ {b}
    BY <1>4 DEF FanOut
  <2> QED
    BY <2>1 DEF Known
<1> QED
  BY <1>1, <1>2, <1>3, <1>4 DEF BroadcastStep

(* What the steps of a replay, and a request that forgets it, do to it.    *)
Others(c) == \A d \in Clients : d # c => replay'[d] = replay[d]

LEMMA ForgetFacts ==
  ASSUME TypeOK, NEW c \in Clients, Forget(c)
  PROVE  /\ Others(c) /\ replay'[c].want = {}
         /\ replay'[c].pc = replay[c].pc /\ replay'[c].todo = replay[c].todo
         /\ replay'[c].via = replay[c].via /\ replay'[c].cursor = replay[c].cursor
<1>1. replay[c] \in Request /\ DOMAIN replay = Clients
  BY DEF TypeOK
<1>2. replay' = [replay EXCEPT ![c] = [replay[c] EXCEPT !.want = {}]]
  BY DEF Forget
<1> QED
  BY <1>1, <1>2 DEF Request, Others

LEMMA AsksFacts ==
  ASSUME TypeOK, NEW c \in Clients, ReplayAsks(c)
  PROVE  /\ Others(c)
         /\ \E cursor \in Cursors :
              replay'[c].want = Missing(c, cursor) /\ replay'[c].cursor = cursor
         /\ \/ /\ replay'[c].pc = "querying" /\ replay'[c].todo = <<>>
               /\ replay'[c].via = "cold"
            \/ /\ replay'[c].pc = "sending" /\ ToSet(replay'[c].todo) \subseteq ToSet(hot)
               /\ replay'[c].via = "hot"
<1>1. DOMAIN replay = Clients
  BY DEF TypeOK
<1>2. PICK cursor \in Cursors :
        \/ \E page \in HotSince(cursor) :
             replay' = [replay EXCEPT ![c] =
               [Asked(c, cursor) EXCEPT !.pc = "sending", !.via = "hot", !.todo = page]]
        \/ replay' = [replay EXCEPT ![c] = Asked(c, cursor)]
  BY DEF ReplayAsks
<1>3. Asked(c, cursor) \in Request
  BY AskedIsRequest
<1>4. /\ Asked(c, cursor).pc = "querying" /\ Asked(c, cursor).todo = <<>>
      /\ Asked(c, cursor).via = "cold" /\ Asked(c, cursor).cursor = cursor
      /\ Asked(c, cursor).want = Missing(c, cursor)
  BY DEF Asked
<1>5. CASE replay' = [replay EXCEPT ![c] = Asked(c, cursor)]
  BY <1>1, <1>4, <1>5 DEF Others
<1>6. ASSUME NEW page \in HotSince(cursor),
             replay' = [replay EXCEPT ![c] =
               [Asked(c, cursor) EXCEPT !.pc = "sending", !.via = "hot", !.todo = page]]
      PROVE  /\ Others(c)
             /\ replay'[c].want = Missing(c, cursor) /\ replay'[c].cursor = cursor
             /\ replay'[c].pc = "sending" /\ replay'[c].todo = page
             /\ replay'[c].via = "hot"
  BY <1>1, <1>3, <1>4, <1>6 DEF Request, Others
<1>7. \A page \in HotSince(cursor) : ToSet(page) \subseteq ToSet(hot)
  BY HotPageIsSequence
<1> QED
  BY <1>2, <1>5, <1>6, <1>7

LEMMA QueriesFacts ==
  ASSUME TypeOK, NEW c \in Clients, ReplayQueries(c)
  PROVE  \E page \in ColdSince(replay[c].cursor) :
           /\ Others(c) /\ replay[c].pc = "querying" /\ replay'[c].pc = "sending"
           /\ replay'[c].todo \in Decoded(page)
           /\ replay'[c].want = Within(replay[c].want, page)
           /\ replay'[c].via = replay[c].via /\ replay'[c].cursor = replay[c].cursor
<1>1. replay[c] \in Request /\ DOMAIN replay = Clients
  BY DEF TypeOK
<1>2. PICK page \in ColdSince(replay[c].cursor) : \E rows \in Decoded(page) :
        replay' = [replay EXCEPT ![c] =
          [replay[c] EXCEPT !.pc = "sending", !.todo = rows, !.want = Within(@, page)]]
  BY QueryReads
<1>3. PICK rows \in Decoded(page) :
        replay' = [replay EXCEPT ![c] =
          [replay[c] EXCEPT !.pc = "sending", !.todo = rows, !.want = Within(@, page)]]
  BY <1>2
<1>4. replay[c].pc = "querying"
  BY DEF ReplayQueries
<1> QED
  BY <1>1, <1>3, <1>4 DEF Request, Others

LEMMA QueryFailsFacts ==
  ASSUME TypeOK, NEW c \in Clients, ReplayQueryFails(c)
  PROVE  /\ Others(c) /\ replay[c].pc = "querying" /\ replay'[c].pc = "sending"
         /\ replay'[c].todo = replay[c].todo /\ replay'[c].via = "failed"
         /\ replay'[c].want = replay[c].want /\ replay'[c].cursor = replay[c].cursor
<1>1. replay[c] \in Request /\ DOMAIN replay = Clients
  BY DEF TypeOK
<1>2. replay' = [replay EXCEPT ![c] =
                  [replay[c] EXCEPT !.pc = "sending", !.via = "failed"]]
  BY DEF ReplayQueryFails
<1>3. replay[c].pc = "querying"
  BY DEF ReplayQueryFails
<1> QED
  BY <1>1, <1>2, <1>3 DEF Request, Others

LEMMA SendsFacts ==
  ASSUME TypeOK, NEW c \in Clients, ReplaySends(c)
  PROVE  /\ Others(c) /\ replay[c].pc = "sending" /\ replay'[c].pc = "sending"
         /\ ToSet(replay[c].todo) = {Head(replay[c].todo)} \cup ToSet(replay'[c].todo)
         /\ replay'[c].want = replay[c].want
         /\ replay'[c].via = replay[c].via /\ replay'[c].cursor = replay[c].cursor
<1>1. replay[c] \in Request /\ DOMAIN replay = Clients
  BY DEF TypeOK
<1>2. replay' = [replay EXCEPT ![c] = [replay[c] EXCEPT !.todo = Tail(replay[c].todo)]]
  BY DEF ReplaySends
<1>3. replay[c].pc = "sending" /\ replay[c].todo # <<>>
  BY DEF ReplaySends
<1>4. replay[c].todo \in Seq(Event)
  BY <1>1 DEF Request
<1>5. ToSet(replay[c].todo) = {Head(replay[c].todo)} \cup ToSet(Tail(replay[c].todo))
  BY <1>3, <1>4, HeadAndTail
<1>6. replay'[c] = [replay[c] EXCEPT !.todo = Tail(replay[c].todo)] /\ Others(c)
  BY <1>1, <1>2 DEF Others
<1>7. replay'[c].todo = Tail(replay[c].todo)
  BY <1>1, <1>6 DEF Request
<1> QED
  BY <1>1, <1>3, <1>5, <1>6, <1>7 DEF Request

LEMMA AnswersFacts ==
  ASSUME TypeOK, NEW c \in Clients, ReplayAnswers(c)
  PROVE  /\ Others(c) /\ replay[c].pc = "sending" /\ replay'[c].pc = "idle"
         /\ replay[c].todo = <<>> /\ replay'[c].todo = <<>> /\ ~Sending(c)
         /\ replay'[c].want = replay[c].want
         /\ replay'[c].via = replay[c].via /\ replay'[c].cursor = replay[c].cursor
<1>1. replay[c] \in Request /\ DOMAIN replay = Clients
  BY DEF TypeOK
<1>2. replay' = [replay EXCEPT ![c] = [replay[c] EXCEPT !.pc = "idle"]]
  BY DEF ReplayAnswers
<1>3. replay[c].pc = "sending" /\ replay[c].todo = <<>> /\ ~Sending(c)
  BY DEF ReplayAnswers
<1> QED
  BY <1>1, <1>2, <1>3 DEF Request, Others

(* A step of a broadcast before its fan-out: it stays the same broadcast,  *)
(* and nothing moves in the channels.                                      *)
LEMMA AdvanceGap ==
  ASSUME GapInv, NEW b \in casts, NEW n \in Broadcast,
         casts' = (casts \ {b}) \cup {n}, n.event = b.event, n.by = b.by,
         UNCHANGED <<fanned, replay, subs, ring, pipe, got, lagged>>,
         cold \cup pruned \subseteq cold' \cup pruned', pruned \subseteq pruned',
         unlogged \subseteq unlogged',
         n.stage = "logged" => Backed(b.event)'
  PROVE  LoopShape' /\ WantFanned' /\ Covered' /\ RowKept'
<1>0. \A e : (Backed(e) => Backed(e)') /\ (Reused(e) => Reused(e)')
  BY BackedStays
<1>1. \A c \in Clients : Sending(c)' => Sending(c)
  BY DEF Sending
<1>2. LoopShape'
  BY <1>1 DEF GapInv, LoopShape
<1>3. WantFanned'
  BY DEF GapInv, WantFanned
<1>4. \A c \in Clients : \A e : Coming(c, e) => Coming(c, e)'
  BY <1>0 DEF Coming
<1>5. Covered'
  BY <1>4 DEF GapInv, Covered
<1>6. RowKept'
  BY <1>0 DEF GapInv, RowKept
<1> QED
  BY <1>2, <1>3, <1>5, <1>6

LEMMA FanOutGap ==
  ASSUME GapInv, NEW b \in casts, FanOut(b)
  PROVE  LoopShape' /\ WantFanned' /\ Covered' /\ RowKept'
<1> USE DEF log, client, bounds
<1> DEFINE t == b.event.task
           full == {c \in Clients : t \in subs[c] /\ Len(ring[c][t]) >= RingCap}
<1>1. /\ UNCHANGED <<cold, pruned, unlogged, replay, subs, pipe, got>>
      /\ fanned' = fanned \cup {b.event} /\ casts' = casts \ {b} /\ b.stage = "logged"
  BY DEF FanOut
<1>2. \A e : (Backed(e) <=> Backed(e)') /\ (Reused(e) <=> Reused(e)')
  BY <1>1 DEF Backed, Reused
<1>3. RowKept' /\ LoopShape' /\ WantFanned'
  BY <1>1, <1>2 DEF GapInv, RowKept, LoopShape, Sending, WantFanned
<1>4. TypeOK /\ b.event \in Event /\ t \in Tasks
  BY DEF GapInv, TypeOK, Broadcast, Event
<1>5. ASSUME NEW c \in Clients
      PROVE  /\ lagged[c] \subseteq lagged'[c]
             /\ \A u \in Tasks : ToSet(ring[c][u]) \subseteq ToSet(ring'[c][u]) \cup lagged'[c]
             /\ t \in subs[c] => b.event \in ToSet(ring'[c][t])
  <2>1. lagged'[c] = IF c \in full THEN lagged[c] \cup {Head(ring[c][t])} ELSE lagged[c]
    BY DEF FanOut
  <2>2. ring'[c] = IF t \notin subs[c] THEN ring[c]
                   ELSE [ring[c] EXCEPT ![t] =
                           Append(IF c \in full THEN Tail(@) ELSE @, b.event)]
    BY DEF FanOut
  <2>3. ring[c] \in [Tasks -> Seq(Event)] /\ ring[c][t] \in Seq(Event)
    BY <1>4 DEF TypeOK
  <2>4. c \in full => ring[c][t] # <<>> /\ t \in subs[c]
    BY <2>3, CapsAssumption
  <2> DEFINE base == IF c \in full THEN Tail(ring[c][t]) ELSE ring[c][t]
  <2>5. base \in Seq(Event) /\ ToSet(ring[c][t]) \subseteq ToSet(base) \cup lagged'[c]
    <3>1. CASE c \in full
      BY <2>1, <2>3, <2>4, <3>1, HeadAndTail
    <3>2. CASE c \notin full
      BY <2>3, <3>2
    <3> QED
      BY <3>1, <3>2
  <2>6. t \in subs[c] => ring'[c] = [ring[c] EXCEPT ![t] = Append(base, b.event)]
    BY <2>2
  <2> HIDE DEF full, base
  <2>7. CASE t \notin subs[c]
    BY <2>1, <2>2, <2>7
  <2>8. CASE t \in subs[c]
    <3> HIDE DEF t
    <3>1. IsSequence(base)
      BY <2>5 DEF IsSequence
    <3>2. ToSet(Append(base, b.event)) = ToSet(base) \cup {b.event}
      BY <3>1, AppendIsSequence
    <3>3. \A u \in Tasks :
            ring'[c][u] = IF u = t THEN Append(base, b.event) ELSE ring[c][u]
      BY <2>3, <2>6, <2>8
    <3>4. ToSet(ring'[c][t]) = ToSet(base) \cup {b.event}
      BY <1>4, <3>2, <3>3
    <3>5. lagged[c] \subseteq lagged'[c]
      BY <2>1
    <3> QED
      BY <2>5, <3>3, <3>4, <3>5
  <2> QED
    BY <2>7, <2>8
<1>6. Covered'
  <2> SUFFICES ASSUME NEW c \in Clients, replay'[c].pc # "querying",
                      replay'[c].via = "cold", NEW e \in replay'[c].want
               PROVE  Coming(c, e)'
    BY DEF Covered
  <2>1. Coming(c, e) /\ e.task \in subs[c]
    BY <1>1 DEF GapInv, Covered, WantFanned
  <2>2. CASE b.by = c /\ b.event = e
    BY <1>4, <1>5, <2>1, <2>2 DEF Coming
  <2>3. CASE ~(b.by = c /\ b.event = e)
    <3>1. (\E x \in casts : x.by = c /\ x.event = e) => \E x \in casts' : x.by = c /\ x.event = e
      BY <1>1, <2>3
    <3>2. /\ e \in lagged[c] => e \in lagged'[c]
          /\ \A u \in Tasks :
               e \in ToSet(ring[c][u]) => e \in ToSet(ring'[c][u]) \/ e \in lagged'[c]
      BY <1>5
    <3> HIDE DEF t, full
    <3> QED
      BY <1>1, <1>2, <2>1, <3>1, <3>2 DEF Coming
  <2> QED
    BY <2>2, <2>3
<1> QED
  BY <1>3, <1>6

(* The insert leaves the event backed: its row is there, or one that an    *)
(* earlier run wrote under its number.                                     *)
LEMMA InsertBacks ==
  ASSUME GapInv, NEW b \in casts, InsertCold(b)
  PROVE  Backed(b.event)' /\ cold \subseteq cold' /\ UNCHANGED <<pruned, unlogged>>
<1> USE DEF log, client, bounds
<1>1. TypeOK /\ b.event \in Event /\ b.event.run \in Nat /\ restarts \in Nat
  BY DEF GapInv, TypeOK, Broadcast, Event
<1>2. cold \subseteq cold' /\ UNCHANGED <<pruned, unlogged>>
  BY DEF InsertCold
<1>3. CASE ~SeqTaken(b.event)
  <2>1. b.event \in cold'
    BY <1>3 DEF InsertCold
  <2> QED
    BY <1>2, <2>1 DEF Backed
<1>4. CASE SeqTaken(b.event)
  <2>1. PICK f \in cold : f.seq = b.event.seq
    BY <1>4 DEF SeqTaken
  <2>2. f \in Event /\ f.run \in Nat /\ Known(f) /\ Known(b.event)
    BY <1>1, <2>1 DEF TypeOK, Known, Event
  <2>3. f.run <= restarts /\ b.event.run <= restarts
    BY <1>1, <2>2 DEF GapInv, NumberedOnce
  <2>4. CASE f.run < b.event.run
    <3>1. Reused(b.event)'
      BY <1>2, <2>1, <2>4 DEF Reused
    <3> QED
      BY <1>2, <3>1 DEF Backed
  <2>5. CASE b.event.run < restarts
    <3>1. b.event \in cold \cup pruned
      BY <1>1, <2>2, <2>5 DEF GapInv, OldKept
    <3> QED
      BY <1>2, <3>1 DEF Backed
  <2>6. CASE f.run = restarts /\ b.event.run = restarts
    <3>1. f = b.event
      BY <1>1, <2>1, <2>2, <2>6 DEF GapInv, NumberedOnce
    <3> QED
      BY <1>2, <2>1, <3>1 DEF Backed
  <2> QED
    BY <1>1, <2>2, <2>3, <2>4, <2>5, <2>6
<1> QED
  BY <1>2, <1>3, <1>4

LEMMA BroadcastGap ==
  ASSUME GapInv, TypeOK', NEW b \in casts, BroadcastStep(b)
  PROVE  GapInv'
<1> USE DEF log, client, bounds
<1>1. TypeOK /\ CastsOK /\ b \in Broadcast /\ b.event \in Event
  BY TypeParts DEF GapInv, CastsOK, Broadcast
<1>2. /\ UNCHANGED <<nextSeq, restarts>> /\ pruned \subseteq pruned'
      /\ cold \subseteq cold' /\ unlogged \subseteq unlogged'
  BY DEF BroadcastStep, PushHot, InsertCold, InsertColdFails, FanOut
<1>3. NumberedOnce' /\ OldKept'
  <2>1. \A e \in Event : Known(e)' => Known(e)
    BY <1>1, BroadcastKnows
  <2>2. cold \cup pruned \subseteq cold' \cup pruned'
    BY <1>2
  <2> QED
    BY <1>2, <2>1, <2>2, NumberedOnceStays DEF GapInv
<1>4. CASE PushHot(b)
  <2>1. PICK n \in Broadcast : /\ casts' = (casts \ {b}) \cup {n} /\ n.event = b.event
                               /\ n.by = b.by /\ n.stage = "pushed"
    BY <1>1, <1>4, AdvanceKeeps DEF PushHot
  <2>2. UNCHANGED <<cold, pruned, unlogged, fanned, replay, subs, ring, pipe, got, lagged>>
    BY <1>4 DEF PushHot
  <2>3. LoopShape' /\ WantFanned' /\ Covered' /\ RowKept'
    BY <2>1, <2>2, AdvanceGap
  <2> QED
    BY <1>3, <2>3 DEF GapInv
<1>5. CASE InsertCold(b)
  <2>1. PICK n \in Broadcast : /\ casts' = (casts \ {b}) \cup {n} /\ n.event = b.event
                               /\ n.by = b.by /\ n.stage = "logged"
    BY <1>1, <1>5, AdvanceKeeps DEF InsertCold
  <2>2. UNCHANGED <<fanned, replay, subs, ring, pipe, got, lagged>>
    BY <1>5 DEF InsertCold
  <2>3. Backed(b.event)' /\ cold \subseteq cold' /\ UNCHANGED <<pruned, unlogged>>
    BY <1>5, InsertBacks
  <2>4. LoopShape' /\ WantFanned' /\ Covered' /\ RowKept'
    BY <2>1, <2>2, <2>3, AdvanceGap
  <2> QED
    BY <1>3, <2>4 DEF GapInv
<1>6. CASE InsertColdFails(b)
  <2>1. PICK n \in Broadcast : /\ casts' = (casts \ {b}) \cup {n} /\ n.event = b.event
                               /\ n.by = b.by
    BY <1>1, <1>6, AdvanceKeeps DEF InsertColdFails
  <2>2. /\ UNCHANGED <<cold, pruned, fanned, replay, subs, ring, pipe, got, lagged>>
        /\ unlogged' = unlogged \cup {b.event}
    BY <1>6 DEF InsertColdFails
  <2>3. Backed(b.event)'
    BY <2>2 DEF Backed
  <2>4. LoopShape' /\ WantFanned' /\ Covered' /\ RowKept'
    BY <2>1, <2>2, <2>3, AdvanceGap
  <2> QED
    BY <1>3, <2>4 DEF GapInv
<1>7. CASE FanOut(b)
  BY <1>3, <1>7, FanOutGap DEF GapInv
<1> QED
  BY <1>4, <1>5, <1>6, <1>7 DEF BroadcastStep

(* A request that changes the channels of a connection forgets its replay. *)
LEMMA ForgetGap ==
  ASSUME GapInv, TypeOK', NEW c \in Clients, Forget(c),
         UNCHANGED <<nextSeq, casts, hot, cold, fanned, pruned, unlogged, got, lagged>>,
         UNCHANGED restarts,
         \A d \in Clients : d # c =>
            subs'[d] = subs[d] /\ ring'[d] = ring[d] /\ pipe'[d] = pipe[d]
  PROVE  GapInv'
<1>1. /\ Others(c) /\ replay'[c].want = {}
      /\ replay'[c].pc = replay[c].pc /\ replay'[c].todo = replay[c].todo
  BY ForgetFacts DEF GapInv
<1>2. \A d \in Clients : replay'[d].pc = replay[d].pc /\ replay'[d].todo = replay[d].todo
  BY <1>1 DEF Others
<1>3. NumberedOnce' /\ OldKept'
  <2>1. \A e \in Event : Known(e)' => Known(e)
    BY <1>2 DEF Known
  <2> QED
    BY <2>1, NumberedOnceStays DEF GapInv
<1>4. RowKept'
  BY BackedStays DEF GapInv, RowKept
<1>5. LoopShape'
  BY <1>2 DEF GapInv, LoopShape, Sending
<1>6. WantFanned'
  BY <1>1 DEF GapInv, WantFanned, Others
<1>7. Covered'
  <2> SUFFICES ASSUME NEW d \in Clients, replay'[d].pc # "querying",
                      replay'[d].via = "cold", NEW e \in replay'[d].want
               PROVE  Coming(d, e)'
    BY DEF Covered
  <2>1. d # c /\ replay'[d] = replay[d]
    BY <1>1 DEF Others
  <2>2. Coming(d, e)
    BY <2>1 DEF GapInv, Covered
  <2> QED
    BY <2>1, <2>2, BackedStays DEF Coming
<1> QED
  BY <1>3, <1>4, <1>5, <1>6, <1>7 DEF GapInv

(* An event that moves on in a connection stays on its way.                *)
LEMMA ChannelGap ==
  ASSUME GapInv, TypeOK', UNCHANGED <<nextSeq, casts, hot, cold, fanned, pruned, unlogged>>,
         UNCHANGED <<replay, subs, lagged, restarts>>,
         \A c \in Clients : \A e : Coming(c, e) => Coming(c, e)'
  PROVE  GapInv'
<1>1. NumberedOnce' /\ OldKept'
  <2>1. \A e \in Event : Known(e)' => Known(e)
    BY DEF Known
  <2> QED
    BY <2>1, NumberedOnceStays DEF GapInv
<1>2. RowKept'
  BY BackedStays DEF GapInv, RowKept
<1>3. LoopShape' /\ WantFanned'
  BY DEF GapInv, LoopShape, Sending, WantFanned
<1>4. Covered'
  BY DEF GapInv, Covered
<1> QED
  BY <1>1, <1>2, <1>3, <1>4 DEF GapInv

LEMMA ConnectionGap ==
  ASSUME GapInv, TypeOK', NEW c \in Clients,
         \/ \E t \in Tasks : Subscribe(c, t) \/ Unsubscribe(c, t) \/ Pump(c, t)
         \/ Disconnect(c) \/ Deliver(c)
  PROVE  GapInv'
<1> USE DEF log, client, bounds
<1>0. ConnOK
  BY TypeParts DEF GapInv
<1>1. ASSUME NEW t \in Tasks, Subscribe(c, t) \/ Unsubscribe(c, t) PROVE GapInv'
  <2>1. Forget(c) /\ \A d \in Clients : d # c =>
            subs'[d] = subs[d] /\ ring'[d] = ring[d] /\ pipe'[d] = pipe[d]
    BY <1>0, <1>1 DEF Subscribe, Unsubscribe, ConnOK
  <2>2. /\ UNCHANGED <<nextSeq, casts, hot, cold, fanned, pruned, unlogged, got, lagged>>
        /\ UNCHANGED restarts
    BY <1>1 DEF Subscribe, Unsubscribe
  <2> QED
    BY <2>1, <2>2, ForgetGap
<1>2. CASE Disconnect(c)
  <2>1. Forget(c) /\ \A d \in Clients : d # c =>
            subs'[d] = subs[d] /\ ring'[d] = ring[d] /\ pipe'[d] = pipe[d]
    BY <1>0, <1>2 DEF Disconnect, ConnOK
  <2>2. /\ UNCHANGED <<nextSeq, casts, hot, cold, fanned, pruned, unlogged, got, lagged>>
        /\ UNCHANGED restarts
    BY <1>2 DEF Disconnect
  <2> QED
    BY <2>1, <2>2, ForgetGap
<1>3. ASSUME NEW t \in Tasks, Pump(c, t) PROVE GapInv'
  <2>1. /\ UNCHANGED <<nextSeq, casts, hot, cold, fanned, pruned, unlogged>>
        /\ UNCHANGED <<replay, subs, lagged, restarts>> /\ UNCHANGED got
    BY <1>3 DEF Pump
  <2>2. /\ ring[c][t] \in Seq(Event) /\ ring[c][t] # <<>> /\ pipe[c] \in Seq(Event)
        /\ IsSequence(pipe[c])
    BY <1>0, <1>3 DEF Pump, ConnOK, IsSequence
  <2>3. ToSet(ring[c][t]) = {Head(ring[c][t])} \cup ToSet(Tail(ring[c][t]))
    BY <2>2, HeadAndTail
  <2>4. ToSet(Append(pipe[c], Head(ring[c][t]))) = ToSet(pipe[c]) \cup {Head(ring[c][t])}
    BY <2>2, AppendIsSequence
  <2>5. /\ pipe' = [pipe EXCEPT ![c] = Append(pipe[c], Head(ring[c][t]))]
        /\ ring' = [ring EXCEPT ![c] = [ring[c] EXCEPT ![t] = Tail(ring[c][t])]]
    BY <1>3 DEF Pump
  <2>6. /\ pipe'[c] = Append(pipe[c], Head(ring[c][t]))
        /\ \A u \in Tasks : ring'[c][u] = IF u = t THEN Tail(ring[c][t]) ELSE ring[c][u]
        /\ \A d \in Clients : d # c => pipe'[d] = pipe[d] /\ ring'[d] = ring[d]
    BY <1>0, <2>5 DEF ConnOK
  <2>7. ASSUME NEW d \in Clients, NEW e, Coming(d, e) PROVE Coming(d, e)'
    <3>1. CASE d # c
      BY <2>1, <2>6, <2>7, <3>1 DEF Coming, Reused
    <3>2. CASE d = c
      <4>1. CASE e = Head(ring[c][t])
        <5>1. e \in ToSet(pipe'[c])
          BY <2>4, <2>6, <4>1
        <5> QED
          BY <3>2, <5>1 DEF Coming, Reused
      <4>2. CASE e # Head(ring[c][t])
        <5>1. e \in ToSet(pipe[c]) => e \in ToSet(pipe'[c])
          BY <2>4, <2>6
        <5>2. \A u \in Tasks : e \in ToSet(ring[c][u]) => e \in ToSet(ring'[c][u])
          BY <2>3, <2>6, <4>2
        <5> QED
          BY <2>1, <2>7, <3>2, <5>1, <5>2 DEF Coming, Reused
      <4> QED
        BY <4>1, <4>2
    <3> QED
      BY <3>1, <3>2
  <2> QED
    BY <2>1, <2>7, ChannelGap
<1>4. CASE Deliver(c)
  <2>1. /\ UNCHANGED <<nextSeq, casts, hot, cold, fanned, pruned, unlogged>>
        /\ UNCHANGED <<replay, subs, lagged, restarts>> /\ UNCHANGED ring
    BY <1>4 DEF Deliver
  <2>2. pipe[c] \in Seq(Event) /\ pipe[c] # <<>>
    BY <1>0, <1>4 DEF Deliver, ConnOK
  <2>3. ToSet(pipe[c]) = {Head(pipe[c])} \cup ToSet(Tail(pipe[c]))
    BY <2>2, HeadAndTail
  <2>4. /\ got'[c] = got[c] \cup {Head(pipe[c])} /\ pipe'[c] = Tail(pipe[c])
        /\ \A d \in Clients : d # c => pipe'[d] = pipe[d] /\ got'[d] = got[d]
    BY <1>0, <1>4 DEF Deliver, ConnOK
  <2>5. ASSUME NEW d \in Clients, NEW e, Coming(d, e) PROVE Coming(d, e)'
    BY <2>1, <2>3, <2>4, <2>5 DEF Coming, Reused
  <2> QED
    BY <2>1, <2>5, ChannelGap
<1> QED
  BY <1>1, <1>2, <1>3, <1>4

LEMMA SignedBelow == \A n \in Nat : Signed(n) \in Int /\ Signed(n) <= n
<1> SUFFICES ASSUME NEW n \in Nat PROVE Signed(n) \in Int /\ Signed(n) <= n
  OBVIOUS
<1> DEFINE w == 2 ^ Width
<1>1. w \in Nat
  <2>1. Width \in Nat \ {0}
    BY CapsAssumption
  <2>2. IsFiniteSet(1..Width) /\ Cardinality(1..Width) = Width
    BY <2>1, FS_Interval
  <2>3. IsFiniteSet(SUBSET (1..Width)) /\ Cardinality(SUBSET (1..Width)) = w
    BY <2>2, FS_SUBSET
  <2> QED
    BY <2>3, FS_CardinalityType
<1>2. Signed(n) = n \/ Signed(n) = n - w
  BY DEF Signed
<1> HIDE DEF w
<1> QED
  BY <1>1, <1>2

(* The page of the table holds every wanted row that it does not cut off.  *)
LEMMA PageHoldsWanted ==
  ASSUME TypeOK, NEW c \in Clients, NEW page \in ColdSince(replay[c].cursor),
         NEW e \in Within(replay[c].want, page), e \in cold, e.seq > replay[c].cursor
  PROVE  e \in ToSet(page)
<1> DEFINE S == {f \in cold : f.seq > Signed(replay[c].cursor)}
           key == [f \in cold |-> f.seq]
<1>1. replay[c].cursor \in Nat /\ e \in Event /\ e.seq \in Nat
  BY DEF TypeOK, Request, Event
<1>2. e \in S
  BY <1>1, SignedBelow
<1>3. page \in Pages(S, key)
  BY DEF ColdSince
<1> HIDE DEF S, key
<1>4. page \in Seq(S)
  BY <1>3, PageIsSequence
<1>5. SUFFICES ASSUME e \notin ToSet(page) PROVE FALSE
  OBVIOUS
<1>6. Len(page) = Limit /\ \A i \in DOMAIN page : key[page[i]] < key[e]
  BY <1>2, <1>3, <1>5, PageIsSequence
<1>7. PICK i \in DOMAIN page : e.seq <= page[i].seq
  BY <1>6 DEF Within
<1>8. page[i] \in cold /\ page[i].seq \in Nat
  <2>1. page[i] \in S
    BY <1>4
  <2> QED
    BY <2>1 DEF S, TypeOK, Event
<1>9. key[page[i]] = page[i].seq /\ key[e] = e.seq
  BY <1>8 DEF key
<1> QED
  BY <1>1, <1>6, <1>7, <1>8, <1>9

(* A step of the replay of one client: for the others nothing changes, and *)
(* no event appears that was not known.                                    *)
LEMMA ReplayFrame ==
  ASSUME GapInv, NEW c \in Clients, Others(c),
         UNCHANGED <<nextSeq, hot, cold, fanned, pruned, unlogged, subs, restarts>>,
         UNCHANGED <<got, pipe, ring>>, \A d \in Clients : d # c => lagged'[d] = lagged[d],
         \/ casts' = casts
         \/ \E new : casts' = casts \cup {new} /\ new.stage = "numbered" /\ new.by = c
                    /\ Known(new.event),
         \A e \in ToSet(replay'[c].todo) : Known(e)
  PROVE  /\ NumberedOnce' /\ OldKept' /\ RowKept'
         /\ \A d \in Clients : d # c =>
               /\ replay'[d].pc # "sending" => replay'[d].todo = <<>> /\ ~Sending(d)'
               /\ \A e \in replay'[d].want :
                    e \in fanned' /\ e.seq > replay'[d].cursor /\ e.task \in subs'[d]
               /\ replay'[d].pc # "querying" /\ replay'[d].via = "cold" =>
                    \A e \in replay'[d].want : Coming(d, e)'
<1>1. NumberedOnce' /\ OldKept'
  <2>1. \A e \in Event : Known(e)' => Known(e)
    BY DEF Known, Others
  <2> QED
    BY <2>1, NumberedOnceStays DEF GapInv
<1>2. \A e : (Backed(e) => Backed(e)') /\ (Reused(e) => Reused(e)')
  BY BackedStays
<1>3. RowKept'
  BY <1>2 DEF GapInv, RowKept
<1>4. ASSUME NEW d \in Clients, d # c
      PROVE  /\ replay'[d].pc # "sending" => replay'[d].todo = <<>> /\ ~Sending(d)'
             /\ \A e \in replay'[d].want :
                  e \in fanned' /\ e.seq > replay'[d].cursor /\ e.task \in subs'[d]
             /\ replay'[d].pc # "querying" /\ replay'[d].via = "cold" =>
                  \A e \in replay'[d].want : Coming(d, e)'
  <2>1. replay'[d] = replay[d] /\ lagged'[d] = lagged[d]
    BY <1>4 DEF Others
  <2>2. Sending(d)' => Sending(d)
    BY <1>4 DEF Sending
  <2>3. \A e : Coming(d, e) => Coming(d, e)'
    BY <1>2, <2>1 DEF Coming
  <2>4. replay'[d].pc # "sending" => replay'[d].todo = <<>> /\ ~Sending(d)'
    BY <2>1, <2>2 DEF GapInv, LoopShape
  <2>5. \A e \in replay'[d].want :
          e \in fanned' /\ e.seq > replay'[d].cursor /\ e.task \in subs'[d]
    BY <2>1 DEF GapInv, WantFanned
  <2>6. replay'[d].pc # "querying" /\ replay'[d].via = "cold" =>
          \A e \in replay'[d].want : Coming(d, e)'
    BY <2>1, <2>3 DEF GapInv, Covered
  <2> QED
    BY <2>4, <2>5, <2>6
<1> QED
  BY <1>1, <1>3, <1>4

LEMMA ReplayGap ==
  ASSUME GapInv, TypeOK', NEW c \in Clients, ReplayAsks(c) \/ ReplayStep(c)
  PROVE  GapInv'
<1> USE DEF log, client, bounds
<1>0. TypeOK /\ ToSet(<<>>) = {}
  BY DEF GapInv, ToSet
<1> DEFINE Framed ==
      /\ Others(c)
      /\ UNCHANGED <<nextSeq, hot, cold, fanned, pruned, unlogged, subs, restarts>>
      /\ UNCHANGED <<got, pipe, ring>> /\ \A d \in Clients : d # c => lagged'[d] = lagged[d]
      /\ \/ casts' = casts
         \/ \E new : casts' = casts \cup {new} /\ new.stage = "numbered" /\ new.by = c
                    /\ Known(new.event)
      /\ \A e \in ToSet(replay'[c].todo) : Known(e)
    Mine ==
      /\ replay'[c].pc # "sending" => replay'[c].todo = <<>> /\ ~Sending(c)'
      /\ \A e \in replay'[c].want :
           e \in fanned' /\ e.seq > replay'[c].cursor /\ e.task \in subs'[c]
      /\ replay'[c].pc # "querying" /\ replay'[c].via = "cold" =>
           \A e \in replay'[c].want : Coming(c, e)'
<1>1. ASSUME Framed, Mine PROVE GapInv'
  <2>1. /\ NumberedOnce' /\ OldKept' /\ RowKept'
        /\ \A d \in Clients : d # c =>
              /\ replay'[d].pc # "sending" => replay'[d].todo = <<>> /\ ~Sending(d)'
              /\ \A e \in replay'[d].want :
                   e \in fanned' /\ e.seq > replay'[d].cursor /\ e.task \in subs'[d]
              /\ replay'[d].pc # "querying" /\ replay'[d].via = "cold" =>
                   \A e \in replay'[d].want : Coming(d, e)'
    BY <1>1, ReplayFrame
  <2>2. LoopShape'
    BY <1>1, <2>1 DEF LoopShape
  <2>3. WantFanned'
    BY <1>1, <2>1 DEF WantFanned
  <2>4. Covered'
    BY <1>1, <2>1 DEF Covered
  <2> QED
    BY <2>1, <2>2, <2>3, <2>4 DEF GapInv
<1>2. CASE ReplayAsks(c)
  <2>1. /\ UNCHANGED <<nextSeq, casts, fanned, log, subs, ring, pipe, got, restarts>>
        /\ lagged' = [lagged EXCEPT ![c] = {}] /\ replay[c].pc = "idle"
    BY <1>2, AsksFrame DEF ReplayAsks
  <2>2. /\ Others(c)
        /\ \E cursor \in Cursors :
             replay'[c].want = Missing(c, cursor) /\ replay'[c].cursor = cursor
        /\ \/ /\ replay'[c].pc = "querying" /\ replay'[c].todo = <<>>
              /\ replay'[c].via = "cold"
           \/ /\ replay'[c].pc = "sending" /\ ToSet(replay'[c].todo) \subseteq ToSet(hot)
              /\ replay'[c].via = "hot"
    BY <1>0, <1>2, AsksFacts
  <2>3. \A d \in Clients : d # c => lagged'[d] = lagged[d]
    BY <1>0, <2>1 DEF TypeOK
  <2>4. \A e \in ToSet(replay'[c].todo) : Known(e)
    BY <1>0, <2>2 DEF Known
  <2>5. Framed
    BY <2>1, <2>2, <2>3, <2>4
  <2>6. ~Sending(c)'
    BY <2>1 DEF GapInv, LoopShape, Sending
  <2>7. \A e \in replay'[c].want :
          e \in fanned' /\ e.seq > replay'[c].cursor /\ e.task \in subs'[c]
    BY <2>1, <2>2 DEF Missing
  <2>8. Mine
    BY <2>2, <2>6, <2>7
  <2> QED
    BY <1>1, <2>5, <2>8
<1>3. CASE ReplayQueries(c)
  <2>1. UNCHANGED <<nextSeq, casts, fanned, log, client, restarts>>
    BY <1>3 DEF ReplayQueries
  <2>2. PICK page \in ColdSince(replay[c].cursor) :
          /\ Others(c) /\ replay[c].pc = "querying" /\ replay'[c].pc = "sending"
          /\ replay'[c].todo \in Decoded(page)
          /\ replay'[c].want = Within(replay[c].want, page)
          /\ replay'[c].via = replay[c].via /\ replay'[c].cursor = replay[c].cursor
    BY <1>0, <1>3, QueriesFacts
  <2>3. page \in Seq(Event) /\ ToSet(page) \subseteq cold
    BY <1>0, ColdPageIsSequence
  <2>4. /\ ToSet(replay'[c].todo) \subseteq ToSet(page)
        /\ \A e \in ToSet(page) : e \in fanned => e \in ToSet(replay'[c].todo)
    BY <2>2, <2>3, DecodedRows
  <2>5. Framed
    <3>1. \A e \in ToSet(replay'[c].todo) : Known(e)
      BY <2>3, <2>4 DEF Known
    <3> QED
      BY <2>1, <2>2, <3>1
  <2>6. \A e \in replay'[c].want :
          e \in replay[c].want /\ e \in Within(replay[c].want, page)
            /\ e \in fanned /\ e.seq > replay[c].cursor /\ e.task \in subs[c]
    BY <2>2 DEF GapInv, WantFanned, Within
  <2>7. ASSUME NEW e \in replay'[c].want PROVE Coming(c, e)'
    <3>1. Backed(e)
      BY <2>6, <2>7 DEF GapInv, RowKept
    <3>2. CASE e \in cold
      <4>1. e \in ToSet(page)
        BY <1>0, <2>6, <2>7, <3>2, PageHoldsWanted
      <4>2. e \in ToSet(replay'[c].todo)
        BY <2>4, <2>6, <2>7, <4>1
      <4> QED
        BY <4>2 DEF Coming
    <3>3. CASE e \in pruned \cup unlogged
      BY <2>1, <3>3 DEF Coming
    <3>4. CASE Reused(e)
      BY <2>1, <3>4 DEF Coming, Reused
    <3> QED
      BY <3>1, <3>2, <3>3, <3>4 DEF Backed
  <2>8. Mine
    BY <2>1, <2>2, <2>6, <2>7
  <2> QED
    BY <1>1, <2>5, <2>8
<1>4. CASE ReplayQueryFails(c)
  <2>1. UNCHANGED <<nextSeq, casts, fanned, log, client, restarts>>
    BY <1>4 DEF ReplayQueryFails
  <2>2. /\ Others(c) /\ replay[c].pc = "querying" /\ replay'[c].pc = "sending"
        /\ replay'[c].todo = replay[c].todo /\ replay'[c].via = "failed"
        /\ replay'[c].want = replay[c].want /\ replay'[c].cursor = replay[c].cursor
    BY <1>0, <1>4, QueryFailsFacts
  <2>3. Framed
    BY <2>1, <2>2 DEF Known
  <2>4. Mine
    BY <2>1, <2>2 DEF GapInv, WantFanned
  <2> QED
    BY <1>1, <2>3, <2>4
<1>5. CASE ReplaySends(c)
  <2> DEFINE new == [event |-> Head(replay[c].todo), stage |-> "numbered", by |-> c]
  <2>1. UNCHANGED <<nextSeq, fanned, log, client, restarts>> /\ casts' = casts \cup {new}
    BY <1>5 DEF ReplaySends
  <2>2. /\ Others(c) /\ replay[c].pc = "sending" /\ replay'[c].pc = "sending"
        /\ ToSet(replay[c].todo) = {Head(replay[c].todo)} \cup ToSet(replay'[c].todo)
        /\ replay'[c].want = replay[c].want
        /\ replay'[c].via = replay[c].via /\ replay'[c].cursor = replay[c].cursor
    BY <1>0, <1>5, SendsFacts
  <2>3. new.event = Head(replay[c].todo) /\ new.stage = "numbered" /\ new.by = c
    OBVIOUS
  <2> HIDE DEF new
  <2>4. Framed
    BY <2>1, <2>2, <2>3 DEF Known
  <2>5. ASSUME replay'[c].via = "cold", NEW e \in replay'[c].want PROVE Coming(c, e)'
    <3>1. Coming(c, e)
      BY <2>2, <2>5 DEF GapInv, Covered
    <3> QED
      BY <2>1, <2>2, <2>3, <3>1 DEF Coming, Reused
  <2>6. Mine
    BY <2>1, <2>2, <2>5 DEF GapInv, WantFanned
  <2> QED
    BY <1>1, <2>4, <2>6
<1>6. CASE ReplayAnswers(c)
  <2>1. UNCHANGED <<nextSeq, casts, fanned, log, client, restarts>>
    BY <1>6 DEF ReplayAnswers
  <2>2. /\ Others(c) /\ replay[c].pc = "sending" /\ replay'[c].pc = "idle"
        /\ replay[c].todo = <<>> /\ replay'[c].todo = <<>> /\ ~Sending(c)
        /\ replay'[c].want = replay[c].want
        /\ replay'[c].via = replay[c].via /\ replay'[c].cursor = replay[c].cursor
    BY <1>0, <1>6, AnswersFacts
  <2>3. Framed
    BY <1>0, <2>1, <2>2
  <2>4. ASSUME replay'[c].via = "cold", NEW e \in replay'[c].want PROVE Coming(c, e)'
    <3>1. Coming(c, e)
      BY <2>2, <2>4 DEF GapInv, Covered
    <3> QED
      BY <2>1, <2>2, <3>1 DEF Coming, Reused
  <2>5. ~Sending(c)'
    BY <2>1, <2>2 DEF Sending
  <2>6. Mine
    BY <2>1, <2>2, <2>4, <2>5 DEF GapInv, WantFanned
  <2> QED
    BY <1>1, <2>3, <2>6
<1> QED
  BY <1>2, <1>3, <1>4, <1>5, <1>6 DEF ReplayStep

LEMMA NumberGap ==
  ASSUME GapInv, TypeOK', NEW t \in Tasks, Number(t)
  PROVE  GapInv'
<1> USE DEF log, client, bounds
<1> DEFINE new == [event |-> [run |-> restarts, seq |-> nextSeq, task |-> t],
                   stage |-> "numbered", by |-> "thread"]
<1>1. UNCHANGED <<fanned, replay, log, client>> /\ casts' = casts \cup {new}
  BY DEF Number
<1>2. new.stage = "numbered" /\ new.by = "thread"
  OBVIOUS
<1> HIDE DEF new
<1>3. NumberedOnce' /\ OldKept'
  BY NumberKeepsOnce DEF GapInv
<1>4. \A e : (Backed(e) => Backed(e)') /\ (Reused(e) => Reused(e)')
  BY <1>1, BackedStays
<1>5. RowKept' /\ WantFanned'
  BY <1>1, <1>2, <1>4 DEF GapInv, RowKept, WantFanned
<1>6. LoopShape'
  BY <1>1, <1>2, ThreadAssumption DEF GapInv, LoopShape, Sending
<1>7. Covered'
  <2>1. \A c \in Clients : \A e : Coming(c, e) => Coming(c, e)'
    BY <1>1, <1>4 DEF Coming
  <2> QED
    BY <1>1, <2>1 DEF GapInv, Covered
<1> QED
  BY <1>3, <1>5, <1>6, <1>7 DEF GapInv

LEMMA PruneGap == ASSUME GapInv, TypeOK', Prune PROVE GapInv'
<1>1. PICK old \in SUBSET cold : cold' = cold \ old /\ pruned' = pruned \cup old
  BY DEF Prune
<1>2. /\ UNCHANGED <<nextSeq, casts, hot, fanned, replay, unlogged, restarts>>
      /\ UNCHANGED <<subs, got, pipe, ring, lagged>>
  BY DEF Prune, client
<1>3. cold \cup pruned \subseteq cold' \cup pruned'
  BY <1>1
<1>4. \A e : (Backed(e) => Backed(e)') /\ (Reused(e) => Reused(e)')
  BY <1>2, <1>3, BackedStays
<1>5. NumberedOnce' /\ OldKept'
  <2>1. \A e \in Event : Known(e)' => Known(e)
    BY <1>1, <1>2 DEF Known
  <2> QED
    BY <1>2, <1>3, <2>1, NumberedOnceStays DEF GapInv
<1>6. RowKept' /\ LoopShape' /\ WantFanned'
  BY <1>2, <1>4 DEF GapInv, RowKept, LoopShape, Sending, WantFanned
<1>7. Covered'
  <2>1. \A c \in Clients : \A e : Coming(c, e) => Coming(c, e)'
    BY <1>1, <1>2, <1>4 DEF Coming
  <2> QED
    BY <1>2, <2>1 DEF GapInv, Covered
<1> QED
  BY <1>5, <1>6, <1>7 DEF GapInv

(* After a restart only the table is left, and all its rows are old.       *)
LEMMA RestartGap == ASSUME GapInv, TypeOK', Restart PROVE GapInv'
<1>1. /\ restarts \in Nat /\ restarts' = restarts + 1 /\ casts' = {} /\ fanned' = {}
      /\ hot' = <<>> /\ UNCHANGED <<cold, pruned>>
  BY DEF Restart, GapInv, TypeOK
<1>2. \A c \in Clients : replay'[c].todo = <<>> /\ replay'[c].want = {}
  BY DEF Restart, Idle
<1>3. ToSet(<<>>) = {}
  BY DEF ToSet
<1>4. \A e \in Event : Known(e)' => e \in cold' /\ Known(e)
  BY <1>1, <1>2, <1>3 DEF Known
<1>5. \A e \in Event : Known(e) => e.run \in Nat /\ e.run <= restarts
  BY DEF GapInv, NumberedOnce, Event
<1>6. NumberedOnce' /\ OldKept'
  BY <1>1, <1>4, <1>5 DEF NumberedOnce, OldKept
<1>7. RowKept' /\ Covered'
  BY <1>1, <1>2 DEF RowKept, Covered
<1>8. LoopShape' /\ WantFanned'
  BY <1>1, <1>2 DEF LoopShape, Sending, WantFanned
<1> QED
  BY <1>6, <1>7, <1>8 DEF GapInv

LEMMA GapStep == GapInv /\ [Next]_vars => GapInv'
<1> SUFFICES ASSUME GapInv, [Next]_vars PROVE GapInv'
  OBVIOUS
<1> USE DEF log, client, bounds
<1>0. TypeOK /\ TypeOK'
  BY TypeStep DEF GapInv
<1>1. ASSUME NEW t \in Tasks, Number(t) PROVE GapInv'
  BY <1>0, <1>1, NumberGap
<1>2. CASE NumberUnused
  <2>1. UNCHANGED <<casts, fanned, replay, log, client, restarts>>
    BY <1>2 DEF NumberUnused
  <2>2. NumberedOnce' /\ OldKept'
    <3>1. nextSeq \in Nat /\ nextSeq' = nextSeq + 1
      BY <1>0, <1>2 DEF NumberUnused, TypeOK
    <3>2. \A e \in Event : e.seq \in Nat /\ (Known(e)' <=> Known(e))
      BY <2>1 DEF Known, Event
    <3> QED
      BY <2>1, <3>1, <3>2 DEF GapInv, NumberedOnce, OldKept
  <2>3. \A e : (Backed(e) => Backed(e)') /\ (Reused(e) => Reused(e)')
    BY <2>1, BackedStays
  <2>4. RowKept' /\ LoopShape' /\ WantFanned'
    BY <2>1, <2>3 DEF GapInv, RowKept, LoopShape, Sending, WantFanned
  <2>5. Covered'
    BY <2>1, <2>3 DEF GapInv, Covered, Coming
  <2> QED
    BY <1>0, <2>2, <2>4, <2>5 DEF GapInv
<1>3. ASSUME NEW b \in casts, BroadcastStep(b) PROVE GapInv'
  BY <1>0, <1>3, BroadcastGap
<1>4. ASSUME NEW c \in Clients, NEW t \in Tasks,
             Subscribe(c, t) \/ Unsubscribe(c, t) \/ Pump(c, t)
      PROVE  GapInv'
  BY <1>0, <1>4, ConnectionGap
<1>5. ASSUME NEW c \in Clients, Disconnect(c) \/ Deliver(c) PROVE GapInv'
  BY <1>0, <1>5, ConnectionGap
<1>6. ASSUME NEW c \in Clients, ReplayAsks(c) \/ ReplayStep(c) PROVE GapInv'
  BY <1>0, <1>6, ReplayGap
<1>7. CASE Prune
  BY <1>0, <1>7, PruneGap
<1>8. CASE Restart
  BY <1>0, <1>8, RestartGap
<1>9. CASE UNCHANGED vars
  <2>1. /\ UNCHANGED <<nextSeq, casts, hot, cold, fanned, pruned, unlogged>>
        /\ UNCHANGED <<replay, subs, lagged, restarts>>
        /\ UNCHANGED <<got, pipe, ring>>
    BY <1>9 DEF vars
  <2>2. \A c \in Clients : \A e : Coming(c, e) => Coming(c, e)'
    BY <2>1 DEF Coming, Reused
  <2> QED
    BY <1>0, <2>1, <2>2, ChannelGap
<1> QED
  BY <1>1, <1>2, <1>3, <1>4, <1>5, <1>6, <1>7, <1>8, <1>9 DEF Next

LEMMA InitGap == Init => GapInv
<1> SUFFICES ASSUME Init PROVE GapInv
  OBVIOUS
<1>1. TypeOK
  BY InitType
<1>2. ToSet(<<>>) = {}
  BY DEF ToSet
<1>3. \A c \in Clients : replay[c].todo = <<>> /\ replay[c].want = {}
  BY DEF Init, Idle
<1>4. \A e : ~Known(e)
  BY <1>2, <1>3 DEF Init, Known
<1> QED
  BY <1>1, <1>3, <1>4
     DEF Init, GapInv, NumberedOnce, OldKept, RowKept, LoopShape, Sending, WantFanned, Covered

(* Across restarts, failing inserts and queries, and the retention job: a  *)
(* number names one event of a run, what an earlier run numbered is known  *)
(* from the table only, what was fanned out has its row, and what a replay *)
(* from the table is to bring is on its way.                               *)
THEOREM Invariance == Spec => []GapInv
  BY InitGap, GapStep, PTL DEF Spec

(* No subscriber sees an event before the table has its row, whatever the  *)
(* overlap of broadcasts and replays: but for a failing insert, and a row  *)
(* that an earlier run of the daemon wrote under the number.               *)
THEOREM LoggedFirst == Spec => []LoggedBeforeFanOut
<1>1. GapInv => LoggedBeforeFanOut
  BY DEF GapInv, RowKept, Backed, LoggedBeforeFanOut
<1> QED
  BY <1>1, Invariance, PTL

(* Whatever the order of broadcasts, replays, pumps, restarts and runs of  *)
(* the retention job: a replay that read the table closes the gap of its   *)
(* client, up to the end of a full page, but for the events its receivers  *)
(* skipped since it asked and those that have no row.                      *)
THEOREM ColdReplayCloses == Spec => []ColdReplayHeals
<1>1. GapInv => ColdReplayHeals
  <2> SUFFICES ASSUME GapInv, NEW c \in Clients, replay[c].pc = "idle",
                      replay[c].via = "cold", NEW e \in replay[c].want
               PROVE  \/ e \in got[c] \cup Queued(c)
                      \/ e \in lagged[c] \cup pruned \cup unlogged \/ Reused(e)
    BY DEF ColdReplayHeals, Healed
  <2>1. Coming(c, e) /\ replay[c].todo = <<>> /\ ~Sending(c)
    BY DEF GapInv, Covered, LoopShape
  <2>2. e \notin ToSet(replay[c].todo)
    BY <2>1 DEF ToSet
  <2> QED
    BY <2>1, <2>2 DEF Coming, Sending, Queued
<1> QED
  BY <1>1, Invariance, PTL

-----------------------------------------------------------------------------
(* The cursor after everything, u64::MAX.                                  *)
PastEnd == 2 ^ Width - 1

LEMMA PowerIsNat == ASSUME NEW n \in Nat PROVE 2 ^ n \in Nat \ {0}
<1>1. IsFiniteSet(1..n) /\ Cardinality(1..n) = n
  BY FS_Interval
<1>2. IsFiniteSet(SUBSET (1..n)) /\ Cardinality(SUBSET (1..n)) = 2 ^ n
  BY <1>1, FS_SUBSET
<1>3. SUBSET (1..n) # {}
  OBVIOUS
<1> QED
  BY <1>2, <1>3, FS_CardinalityType, FS_EmptySet

(* There are more subsets of 1..n + 1 than of 1..n.                        *)
LEMMA PowerGrows == ASSUME NEW n \in Nat PROVE 2 ^ n < 2 ^ (n + 1)
<1> DEFINE S == SUBSET (1..n)
           T == SUBSET (1..(n + 1))
<1>1. IsFiniteSet(T) /\ Cardinality(T) = 2 ^ (n + 1) /\ Cardinality(S) = 2 ^ n
  <2>1. /\ IsFiniteSet(1..n) /\ Cardinality(1..n) = n
        /\ IsFiniteSet(1..(n + 1)) /\ Cardinality(1..(n + 1)) = n + 1
    BY FS_Interval
  <2> QED
    BY <2>1, FS_SUBSET
<1>2. S \subseteq T /\ S # T
  <2>1. {n + 1} \in T /\ {n + 1} \notin S
    OBVIOUS
  <2>2. 1..n \subseteq 1..(n + 1)
    OBVIOUS
  <2> QED
    BY <2>1, <2>2
<1> HIDE DEF S, T
<1>3. Cardinality(S) \in Nat /\ Cardinality(S) <= Cardinality(T) /\ Cardinality(S) # Cardinality(T)
  BY <1>1, <1>2, FS_Subset, FS_CardinalityType
<1> QED
  BY <1>1, <1>3, PowerIsNat

(* In the width of the code last_seq + 1 is 0 and last_seq as i64 is -1.   *)
LEMMA PastEndOverflows == Wrap(PastEnd + 1) = 0 /\ Signed(PastEnd) = -1
<1> DEFINE w == 2 ^ Width
           half == 2 ^ (Width - 1)
<1>1. Width - 1 \in Nat /\ Width \in Nat /\ Width = (Width - 1) + 1
  BY CapsAssumption
<1>2. w \in Nat \ {0} /\ half \in Nat \ {0} /\ half < w
  BY <1>1, PowerIsNat, PowerGrows
<1>3. Wrap(PastEnd + 1) = w % w /\ PastEnd = w - 1
  BY <1>2 DEF Wrap, PastEnd
<1>4. Signed(PastEnd) = (IF w - 1 >= half THEN (w - 1) - w ELSE w - 1)
  BY DEF Signed, PastEnd
<1> HIDE DEF w, half
<1> QED
  BY <1>2, <1>3, <1>4

(* A replay after everything is answered from the table, and with the      *)
(* first page of everything: the ring never covers the cursor.             *)
PastEndReadsAll ==
    /\ ~HotCovers(PastEnd)
    /\ ColdSince(PastEnd) = Pages(cold, [e \in cold |-> e.seq])

(* The cursor a client would use for "nothing, I am up to date" brings it  *)
(* the log from its beginning, whatever the log, the ring and the width.   *)
THEOREM CursorPastEnd == Spec => []PastEndReadsAll
<1>1. TypeOK => PastEndReadsAll
  <2> SUFFICES ASSUME TypeOK PROVE PastEndReadsAll
    OBVIOUS
  <2>1. hot # <<>> => Head(hot).seq \in Nat \ {0}
    <3>1. hot # <<>> => Head(hot) \in Event
      BY DEF TypeOK
    <3> QED
      BY <3>1 DEF Event
  <2>2. {e \in cold : e.seq > -1} = cold
    BY DEF TypeOK, Event
  <2>3. ~HotCovers(PastEnd)
    BY <2>1, PastEndOverflows DEF HotCovers
  <2> QED
    BY <2>2, <2>3, PastEndOverflows DEF PastEndReadsAll, ColdSince
<1> QED
  BY <1>1, TypeCorrect, PTL

=============================================================================
