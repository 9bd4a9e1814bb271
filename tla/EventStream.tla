----------------------------- MODULE EventStream -----------------------------
(***************************************************************************)
(* Task events on their way from the daemon's threads to its clients:      *)
(* sequence numbers, the event bus, the two tiers of the event log (a ring *)
(* in memory, the events_log table), one subscription per task and client, *)
(* and stream.replay, which sends logged events through the bus again.     *)
(*                                                                         *)
(* A broadcast is three steps, because it waits for a lock between them:   *)
(* push to the hot ring, insert into the table, fan out to the channels of *)
(* the subscribers.  Any number of broadcasts are in progress at a time.   *)
(***************************************************************************)
EXTENDS Integers, Sequences, SequencesExt

CONSTANTS
    Tasks, Clients,
    HotCap,         \* capacity of the hot ring (512 in the code)
    RingCap,        \* capacity of a subscription's broadcast channel (1024)
    PipeCap,        \* capacity of a connection's mpsc channel (256)
    Width,          \* bits of a sequence number (64)
    Cursors,        \* last_seq values the clients send
    Limit,          \* the limit they send
    MaxEvents,      \* bound: events numbered in one run of the daemon
    MaxReplays,     \* bound: stream.replay requests of one client
    MaxSubscribes,  \* bound: task.subscribe requests of one client
    MaxRestarts,    \* bound: restarts of the daemon
    MaxDbErrors,    \* bound: failing inserts and queries
    MaxPrunes       \* bound: runs of the retention job

ASSUME CapsAssumption ==
    /\ HotCap \in Nat \ {0} /\ RingCap \in Nat \ {0} /\ PipeCap \in Nat \ {0}
    /\ Width \in Nat \ {0} /\ Cursors \subseteq 0..(2 ^ Width - 1) /\ Limit \in Nat
ASSUME ThreadAssumption == "thread" \notin Clients
ASSUME BoundsAssumption ==
    /\ MaxEvents \in Nat /\ MaxReplays \in Nat /\ MaxSubscribes \in Nat
    /\ MaxRestarts \in Nat /\ MaxDbErrors \in Nat /\ MaxPrunes \in Nat

VARIABLES
    nextSeq,        \* EventBus.next_seq
    casts,          \* broadcasts in progress
    hot,            \* the hot ring, oldest push first
    cold,           \* events_log: at most one event per sequence number
    fanned,         \* ghost: events that were fanned out in this run
    pruned,         \* ghost: events the retention job deleted
    unlogged,       \* ghost: events an insert of which failed
    subs,           \* the tasks a client's connection is subscribed to
    ring,           \* what its receivers have not pumped yet, per task
    pipe,           \* the mpsc channel into its connection loop
    got,            \* events the client received
    lagged,         \* ghost: events its receivers skipped since it last asked for a
                    \* replay
    replay,         \* the stream.replay the client's connection works on
    subscribes, restarts, dbErrors, prunes

log    == <<hot, cold, pruned, unlogged>>
client == <<subs, ring, pipe, got, lagged, subscribes>>
bounds == <<restarts, dbErrors, prunes>>
vars   == <<nextSeq, casts, fanned, replay, log, client, bounds>>

(* An event is known by the run of the daemon that numbered it.            *)
Event == [run : Nat, seq : Nat \ {0}, task : Tasks]

Idle == [pc |-> "idle", todo |-> <<>>, cursor |-> 0, want |-> {}, via |-> "none", asked |-> 0]

Init ==
    /\ nextSeq = 1
    /\ casts = {}
    /\ hot = <<>>
    /\ cold = {}
    /\ fanned = {}
    /\ pruned = {}
    /\ unlogged = {}
    /\ subs = [c \in Clients |-> {}]
    /\ ring = [c \in Clients |-> [t \in Tasks |-> <<>>]]
    /\ pipe = [c \in Clients |-> <<>>]
    /\ got = [c \in Clients |-> {}]
    /\ lagged = [c \in Clients |-> {}]
    /\ replay = [c \in Clients |-> Idle]
    /\ subscribes = [c \in Clients |-> 0]
    /\ restarts = 0
    /\ dbErrors = 0
    /\ prunes = 0

-----------------------------------------------------------------------------
(* Sequence numbers and broadcasts.                                        *)

(* A thread numbers an event and hands it to a future that broadcasts it;  *)
(* by names the client whose replay sends an event again.                  *)
Number(t) ==
    /\ nextSeq <= MaxEvents
    /\ casts' = casts \cup
         {[event |-> [run |-> restarts, seq |-> nextSeq, task |-> t],
           stage |-> "numbered", by |-> "thread"]}
    /\ nextSeq' = nextSeq + 1
    /\ UNCHANGED <<fanned, replay, log, client, bounds>>

(* An MCP notification without an event: its number is never used.         *)
NumberUnused ==
    /\ nextSeq <= MaxEvents
    /\ nextSeq' = nextSeq + 1
    /\ UNCHANGED <<casts, fanned, replay, log, client, bounds>>

Advance(b, stage) == casts' = (casts \ {b}) \cup {[b EXCEPT !.stage = stage]}

(* Mutant: the ring is not trimmed.                                        *)
PushHotUntrimmed(b) ==
    /\ b.stage = "numbered"
    /\ hot' = Append(hot, b.event)
    /\ Advance(b, "pushed")
    /\ UNCHANGED <<nextSeq, fanned, replay, cold, pruned, unlogged, client, bounds>>

PushHot(b) ==
    /\ b.stage = "numbered"
    /\ hot' = Append(IF Len(hot) >= HotCap THEN Tail(hot) ELSE hot, b.event)
    /\ Advance(b, "pushed")
    /\ UNCHANGED <<nextSeq, fanned, replay, cold, pruned, unlogged, client, bounds>>

SeqTaken(e) == \E f \in cold : f.seq = e.seq

(* Mutant: the row is written by a future nobody waits for, and is lost.   *)
InsertColdDetached(b) ==
    /\ b.stage = "pushed"
    /\ Advance(b, "logged")
    /\ UNCHANGED <<nextSeq, fanned, replay, log, client, bounds>>

(* INSERT OR IGNORE on the primary key seq.                                *)
InsertCold(b) ==
    /\ b.stage = "pushed"
    /\ cold' = IF SeqTaken(b.event) THEN cold ELSE cold \cup {b.event}
    /\ Advance(b, "logged")
    /\ UNCHANGED <<nextSeq, fanned, replay, hot, pruned, unlogged, client, bounds>>

(* A failed insert is logged; the broadcast goes on.                       *)
InsertColdFails(b) ==
    /\ b.stage = "pushed"
    /\ dbErrors < MaxDbErrors
    /\ dbErrors' = dbErrors + 1
    /\ unlogged' = unlogged \cup {b.event}
    /\ Advance(b, "logged")
    /\ UNCHANGED <<nextSeq, fanned, replay, hot, cold, pruned, client, restarts, prunes>>

(* Mutant: send() waits for the slowest receiver.                          *)
FanOutWaits(b) ==
    LET t == b.event.task IN
    /\ b.stage = "logged"
    /\ \A c \in Clients : t \in subs[c] => Len(ring[c][t]) < RingCap
    /\ ring' = [c \in Clients |->
                  IF t \notin subs[c] THEN ring[c]
                  ELSE [ring[c] EXCEPT ![t] = Append(@, b.event)]]
    /\ fanned' = fanned \cup {b.event}
    /\ casts' = casts \ {b}
    /\ UNCHANGED <<nextSeq, replay, log, subs, pipe, got, lagged, subscribes, bounds>>

(* send() never waits: a receiver that is RingCap behind loses its oldest. *)
FanOut(b) ==
    LET t == b.event.task
        full == {c \in Clients : t \in subs[c] /\ Len(ring[c][t]) >= RingCap}
    IN
    /\ b.stage = "logged"
    /\ ring' = [c \in Clients |->
                  IF t \notin subs[c] THEN ring[c]
                  ELSE [ring[c] EXCEPT ![t] =
                          Append(IF c \in full THEN Tail(@) ELSE @, b.event)]]
    /\ lagged' = [c \in Clients |->
                    IF c \in full THEN lagged[c] \cup {Head(ring[c][t])} ELSE lagged[c]]
    /\ fanned' = fanned \cup {b.event}
    /\ casts' = casts \ {b}
    /\ UNCHANGED <<nextSeq, replay, log, subs, pipe, got, subscribes, bounds>>

-----------------------------------------------------------------------------
(* Subscriptions.  Every request of a connection runs in its one loop, so  *)
(* none is taken up while a replay is.                                     *)

Forget(c) == replay' = [replay EXCEPT ![c].want = {}]

(* A second subscription to a task aborts the pump of the first, with what *)
(* its receiver still held.                                                *)
Subscribe(c, t) ==
    /\ replay[c].pc = "idle"
    /\ subscribes[c] < MaxSubscribes
    /\ subscribes' = [subscribes EXCEPT ![c] = @ + 1]
    /\ subs' = [subs EXCEPT ![c] = @ \cup {t}]
    /\ ring' = [ring EXCEPT ![c][t] = <<>>]
    /\ Forget(c)
    /\ UNCHANGED <<nextSeq, casts, fanned, log, pipe, got, lagged, bounds>>

Unsubscribe(c, t) ==
    /\ replay[c].pc = "idle"
    /\ t \in subs[c]
    /\ subs' = [subs EXCEPT ![c] = @ \ {t}]
    /\ ring' = [ring EXCEPT ![c][t] = <<>>]
    /\ Forget(c)
    /\ UNCHANGED <<nextSeq, casts, fanned, log, pipe, got, lagged, subscribes, bounds>>

(* The connection ends; the client connects again without subscriptions.   *)
Disconnect(c) ==
    /\ replay[c].pc = "idle"
    /\ subs[c] # {}
    /\ subs' = [subs EXCEPT ![c] = {}]
    /\ ring' = [ring EXCEPT ![c] = [t \in Tasks |-> <<>>]]
    /\ pipe' = [pipe EXCEPT ![c] = <<>>]
    /\ Forget(c)
    /\ UNCHANGED <<nextSeq, casts, fanned, log, got, lagged, subscribes, bounds>>

(* Mutant: the pump ends when its receiver has lagged.                     *)
PumpEndsLagged(c, t) ==
    /\ ring[c][t] # <<>> /\ lagged[c] = {}
    /\ Len(pipe[c]) < PipeCap
    /\ pipe' = [pipe EXCEPT ![c] = Append(@, Head(ring[c][t]))]
    /\ ring' = [ring EXCEPT ![c][t] = Tail(@)]
    /\ UNCHANGED <<nextSeq, casts, fanned, replay, log, subs, got, lagged, subscribes, bounds>>

Pump(c, t) ==
    /\ ring[c][t] # <<>>
    /\ Len(pipe[c]) < PipeCap
    /\ pipe' = [pipe EXCEPT ![c] = Append(@, Head(ring[c][t]))]
    /\ ring' = [ring EXCEPT ![c][t] = Tail(@)]
    /\ UNCHANGED <<nextSeq, casts, fanned, replay, log, subs, got, lagged, subscribes, bounds>>

(* The connection loop writes one event to the socket.                     *)
Deliver(c) ==
    /\ replay[c].pc = "idle"
    /\ pipe[c] # <<>>
    /\ got' = [got EXCEPT ![c] = @ \cup {Head(pipe[c])}]
    /\ pipe' = [pipe EXCEPT ![c] = Tail(@)]
    /\ UNCHANGED <<nextSeq, casts, fanned, replay, log, subs, ring, lagged, subscribes, bounds>>

-----------------------------------------------------------------------------
(* stream.replay: replay_since(), then each event through the bus again,   *)
(* then the answer.                                                        *)

Wrap(n)   == n % (2 ^ Width)                                    \* u64
Signed(n) == IF n >= 2 ^ (Width - 1) THEN n - 2 ^ Width ELSE n  \* as i64

(* Some members of S, up to n, in ascending order of their keys.           *)
Ascending(S, key, n) ==
    {p \in UNION {[1..k -> S] : k \in 0..n} :
        \A i, j \in DOMAIN p : i < j => key[p[i]] < key[p[j]]}

(* All members of S in that order; of more than Limit, the first Limit.    *)
Pages(S, key) ==
    {p \in Ascending(S, key, Limit) :
        \A x \in S \ ToSet(p) :
            Len(p) = Limit /\ \A i \in DOMAIN p : key[p[i]] < key[x]}

(* The ring is read in its own order, the table ORDER BY seq.              *)
HotCovers(cursor) == hot # <<>> /\ Head(hot).seq <= Wrap(cursor + 1)
HotSince(cursor) ==
    {[i \in DOMAIN p |-> hot[p[i]]] :
        p \in Pages({i \in DOMAIN hot : hot[i].seq > cursor}, [i \in DOMAIN hot |-> i])}

(* Mutant: the table is read from the event after the next one.            *)
ColdSinceOffByOne(cursor) ==
    Pages({e \in cold : e.seq > Signed(cursor) + 1}, [e \in cold |-> e.seq])

ColdSince(cursor) ==
    Pages({e \in cold : e.seq > Signed(cursor)}, [e \in cold |-> e.seq])

(* What the client misses: fanned out, newer than the cursor, of a task it *)
(* is subscribed to.                                                       *)
Missing(c, cursor) ==
    {e \in fanned : e.seq > cursor /\ e.task \in subs[c]} \ got[c]

Asked(c, cursor) ==
    [pc |-> "querying", todo |-> <<>>, cursor |-> cursor,
     want |-> Missing(c, cursor), via |-> "cold", asked |-> replay[c].asked + 1]

ReplayAsks(c) ==
    /\ replay[c].pc = "idle"
    /\ replay[c].asked < MaxReplays
    /\ \E cursor \in Cursors :
        \/ /\ HotCovers(cursor)
           /\ \E page \in HotSince(cursor) :
                replay' = [replay EXCEPT ![c] =
                    [Asked(c, cursor) EXCEPT !.pc = "sending", !.via = "hot", !.todo = page]]
        \/ /\ ~HotCovers(cursor)
           /\ replay' = [replay EXCEPT ![c] = Asked(c, cursor)]
    /\ lagged' = [lagged EXCEPT ![c] = {}]
    /\ UNCHANGED <<nextSeq, casts, fanned, log, subs, ring, pipe, got, subscribes, bounds>>

(* A full page ends at its last event: for the rest the client asks again. *)
Within(want, page) ==
    {e \in want : Len(page) = Limit => \E i \in DOMAIN page : e.seq <= page[i].seq}

(* The rows of a page that this daemon can decode, in their order.  Only   *)
(* one that an earlier run wrote, perhaps of another version, may fail to. *)
Decoded(page) ==
    {p \in Ascending(ToSet(page), [e \in ToSet(page) |-> e.seq], Len(page)) :
        \A e \in ToSet(page) \ ToSet(p) : e.run < restarts /\ e \notin fanned}

(* The hot ring did not reach back far enough; the table is read after     *)
(* another wait for its lock.                                              *)
ReplayQueries(c) ==
    /\ replay[c].pc = "querying"
    /\ \E page \in ColdSince(replay[c].cursor) : \E rows \in Decoded(page) :
        replay' = [replay EXCEPT ![c].pc = "sending", ![c].todo = rows,
                                 ![c].want = Within(@, page)]
    /\ UNCHANGED <<nextSeq, casts, fanned, log, client, bounds>>

(* A failing query is logged; the request is answered as one that found    *)
(* nothing to send.                                                        *)
ReplayQueryFails(c) ==
    /\ replay[c].pc = "querying"
    /\ dbErrors < MaxDbErrors
    /\ dbErrors' = dbErrors + 1
    /\ replay' = [replay EXCEPT ![c].pc = "sending", ![c].via = "failed"]
    /\ UNCHANGED <<nextSeq, casts, fanned, log, client, restarts, prunes>>

Sending(c) == \E b \in casts : b.by = c

ReplaySends(c) ==
    /\ replay[c].pc = "sending"
    /\ ~Sending(c)
    /\ replay[c].todo # <<>>
    /\ casts' = casts \cup
         {[event |-> Head(replay[c].todo), stage |-> "numbered", by |-> c]}
    /\ replay' = [replay EXCEPT ![c].todo = Tail(@)]
    /\ UNCHANGED <<nextSeq, fanned, log, client, bounds>>

ReplayAnswers(c) ==
    /\ replay[c].pc = "sending"
    /\ ~Sending(c)
    /\ replay[c].todo = <<>>
    /\ replay' = [replay EXCEPT ![c].pc = "idle"]
    /\ UNCHANGED <<nextSeq, casts, fanned, log, client, bounds>>

-----------------------------------------------------------------------------
(* The retention job deletes the rows older than a cut-off.                *)
Prune ==
    /\ prunes < MaxPrunes
    /\ prunes' = prunes + 1
    /\ \E e \in cold :
        LET old == {f \in cold : f.run < e.run \/ (f.run = e.run /\ f.seq <= e.seq)} IN
        /\ cold' = cold \ old
        /\ pruned' = pruned \cup old
    /\ UNCHANGED <<nextSeq, casts, fanned, replay, hot, unlogged, client, restarts, dbErrors>>

(* The daemon dies and is started again.  Connections are lost; the table  *)
(* stays; sequence numbers start over.                                     *)
Restart ==
    /\ restarts < MaxRestarts
    /\ restarts' = restarts + 1
    /\ nextSeq' = 1
    /\ casts' = {}
    /\ hot' = <<>>
    /\ fanned' = {}
    /\ subs' = [c \in Clients |-> {}]
    /\ ring' = [c \in Clients |-> [t \in Tasks |-> <<>>]]
    /\ pipe' = [c \in Clients |-> <<>>]
    /\ replay' = [c \in Clients |-> [Idle EXCEPT !.asked = replay[c].asked]]
    /\ UNCHANGED <<cold, pruned, unlogged, got, lagged, subscribes, dbErrors, prunes>>

BroadcastStep(b) == PushHot(b) \/ InsertCold(b) \/ InsertColdFails(b) \/ FanOut(b)
ReplayStep(c) ==
    ReplayQueries(c) \/ ReplayQueryFails(c) \/ ReplaySends(c) \/ ReplayAnswers(c)

Next ==
    \/ \E t \in Tasks : Number(t)
    \/ NumberUnused
    \/ \E b \in casts : BroadcastStep(b)
    \/ \E c \in Clients, t \in Tasks : Subscribe(c, t) \/ Unsubscribe(c, t) \/ Pump(c, t)
    \/ \E c \in Clients : Disconnect(c) \/ Deliver(c) \/ ReplayAsks(c) \/ ReplayStep(c)
    \/ Prune
    \/ Restart

Spec == Init /\ [][Next]_vars

(* Futures, pumps and connection loops run; the client reads its socket.   *)
Fairness ==
    /\ WF_vars(\E b \in casts : BroadcastStep(b))
    /\ \A c \in Clients :
        /\ WF_vars(ReplayStep(c))
        /\ WF_vars(Deliver(c))
        /\ \A t \in Tasks : WF_vars(Pump(c, t))

FairSpec == Spec /\ Fairness

-----------------------------------------------------------------------------
(* Type invariant.                                                         *)
Broadcast == [event : Event, stage : {"numbered", "pushed", "logged"},
              by : Clients \cup {"thread"}]
Request == [pc : {"idle", "querying", "sending"}, todo : Seq(Event), cursor : Nat,
            want : SUBSET Event, via : {"none", "hot", "cold", "failed"}, asked : Nat]
TypeOK ==
    /\ nextSeq \in Nat \ {0}
    /\ casts \subseteq Broadcast
    /\ hot \in Seq(Event) /\ Len(hot) <= HotCap
    /\ cold \subseteq Event /\ fanned \subseteq Event /\ pruned \subseteq Event
    /\ unlogged \subseteq Event
    /\ \A e, f \in cold : e.seq = f.seq => e = f
    /\ subs \in [Clients -> SUBSET Tasks]
    /\ ring \in [Clients -> [Tasks -> Seq(Event)]]
    /\ pipe \in [Clients -> Seq(Event)]
    /\ got \in [Clients -> SUBSET Event]
    /\ lagged \in [Clients -> SUBSET Event]
    /\ replay \in [Clients -> Request]
    /\ subscribes \in [Clients -> Nat]
    /\ restarts \in Nat /\ dbErrors \in Nat /\ prunes \in Nat

Queued(c) == ToSet(pipe[c]) \cup UNION {ToSet(ring[c][t]) : t \in Tasks}

(* An earlier run of the daemon wrote a row under the number of e.         *)
Reused(e) == \E f \in cold \cup pruned : f.seq = e.seq /\ f.run < e.run

(* What a subscriber saw has its row, however the broadcasts of threads    *)
(* and replays overlap and across restarts and the retention job: nothing  *)
(* keeps an event out of the table but a failing insert and a row that an  *)
(* earlier run wrote under its number.                                     *)
LoggedBeforeFanOut ==
    \A e \in fanned : e \in cold \cup pruned \cup unlogged \/ Reused(e)

(* What the client missed when it asked, up to the end of a full page, has *)
(* reached it or is about to; or it was skipped by a receiver of the       *)
(* client meanwhile, or has no row any more or never had one.              *)
Healed(c) ==
    \A e \in replay[c].want :
        \/ e \in got[c] \cup Queued(c)
        \/ e \in lagged[c] \cup pruned \cup unlogged \/ Reused(e)

(* A replay that read the table closes the gap of its client, up to the    *)
(* end of the page, whatever is broadcast, pruned or replayed meanwhile,   *)
(* and also on a table of earlier runs, whose rows may not decode.  (One   *)
(* whose query fails is answered all the same, and heals nothing.)         *)
ColdReplayHeals ==
    \A c \in Clients : replay[c].pc = "idle" /\ replay[c].via = "cold" => Healed(c)

(* A stream.replay is answered, although its own connection reads nothing  *)
(* from its channels while the replayed events are sent to them.           *)
ReplayAnswered ==
    \A c \in Clients : replay[c].pc # "idle" ~> replay[c].pc = "idle"

(* An event that was fanned out to a connection gets to the client, unless *)
(* its receiver was too far behind and skipped that very event, or its own *)
(* requests or the end of the connection dropped it: a receiver that has   *)
(* lagged goes on with what it still holds.                                *)
EventArrives ==
    \A c \in Clients, t \in Tasks, r \in 0..MaxRestarts, s \in 1..MaxEvents,
      n \in 1..MaxSubscribes :
        LET e == [run |-> r, seq |-> s, task |-> t]
        IN  e \in Queued(c) /\ subscribes[c] = n
                ~> e \in got[c] \cup lagged[c] \/ t \notin subs[c] \/ subscribes[c] > n

-----------------------------------------------------------------------------
(* What the repository says and the code does not do.                      *)

(* "Persists to the attached EventLog BEFORE fan-out so reconnecting       *)
(* clients can always replay what live subscribers saw": the row is the    *)
(* event itself.                                                           *)
PersistedBeforeFanOut == fanned \subseteq cold \cup pruned \cup unlogged

(* "falls back to the cold DB when the hot tier has already evicted the    *)
(* requested window": a replay closes the gap whichever tier serves it.    *)
ReplayHeals ==
    \A c \in Clients : replay[c].pc = "idle" /\ replay[c].via # "failed" => Healed(c)
=============================================================================
