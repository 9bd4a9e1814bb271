------------------------------- MODULE Handoff -------------------------------
(***************************************************************************)
(* Devices sharing tasks: which connection a device is reached on, which   *)
(* devices watch a task, which device owns it, and the messages the daemon *)
(* pushes from one device's request to another device's connection.        *)
(*                                                                         *)
(* A connection is one loop: it works on one request, or writes one event  *)
(* from its channel to the socket, at a time.  The maps of HandoffRuntime  *)
(* are under one lock and the database under another; a request that needs *)
(* both lets others in between.                                            *)
(***************************************************************************)
EXTENDS Integers, Sequences, FiniteSets

CONSTANTS
    Conns,          \* connections, each accepted once
    Devices,
    Tasks,
    None,           \* no device, no connection
    Self,           \* the identity of a connection that registered no device
    PipeCap,        \* capacity of a connection's mpsc channel (256 in the code)
    MaxTakeovers,   \* bound: handoff.takeover requests
    MaxRequests,    \* bound: client.register_device, handoff.send and handoff.state_sync requests
    MaxRestarts     \* bound: restarts of the daemon

ASSUME NamesAssumption ==
    /\ None \notin Conns \cup Devices \cup {Self}
    /\ Self \notin Devices
    /\ IsFiniteSet(Devices)
ASSUME BoundsAssumption ==
    /\ PipeCap \in Nat \ {0}
    /\ MaxTakeovers \in Nat /\ MaxRequests \in Nat /\ MaxRestarts \in Nat

VARIABLES
    up,         \* new, open, closed (on_disconnect ran) or aborted (it did not)
    ident,      \* connection_device
    ids,        \* ghost: the devices the connection ever registered
    req,        \* the request the connection is working on
    inbox,      \* its mpsc channel
    sink,       \* HandoffRuntime.connected: the connection of a device
    watchers,   \* HandoffRuntime.watchers
    known,      \* rows of the devices table
    rows,       \* rows of the tasks table
    owner,      \* their primary_device_id
    wins,       \* ghost: the takeovers of a task that wrote its row, in order
    takeovers, requests, restarts

conn   == <<up, ident, ids>>
maps   == <<sink, watchers>>
tables == <<known, rows, owner, wins>>
bounds == <<takeovers, requests, restarts>>
vars   == <<conn, req, inbox, maps, tables, bounds>>

Names == Devices \cup {Self}

Idle == [pc |-> "idle", task |-> None, who |-> None, to |-> None]

Init ==
    /\ up = [c \in Conns |-> "new"]
    /\ ident = [c \in Conns |-> None]
    /\ ids = [c \in Conns |-> {}]
    /\ req = [c \in Conns |-> Idle]
    /\ inbox = [c \in Conns |-> <<>>]
    /\ sink = [d \in Devices |-> None]
    /\ watchers = [t \in Tasks |-> {}]
    /\ known = {}
    /\ rows = {}
    /\ owner = [t \in Tasks |-> None]
    /\ wins = [t \in Tasks |-> <<>>]
    /\ takeovers = 0
    /\ requests = 0
    /\ restarts = 0

Ready(c) == up[c] = "open" /\ req[c].pc = "idle"

(* The device a request of the connection is from.                         *)
Me(c) == IF ident[c] = None THEN Self ELSE ident[c]

(* WsSink.send: a full channel, or one whose loop is over, drops.          *)
Accepts(c) == up[c] = "open" /\ Len(inbox[c]) < PipeCap

(* Mutant: the channel has no capacity.                                    *)
PushUnbounded(c, m) ==
    inbox' = [x \in Conns |->
                IF x = c /\ up[x] = "open" THEN Append(inbox[x], m) ELSE inbox[x]]

Push(c, m) ==
    inbox' = [x \in Conns |-> IF x = c /\ Accepts(x) THEN Append(inbox[x], m) ELSE inbox[x]]

-----------------------------------------------------------------------------
(* Connections.                                                            *)

Open(c) ==
    /\ up[c] = "new"
    /\ up' = [up EXCEPT ![c] = "open"]
    /\ UNCHANGED <<ident, ids, req, inbox, maps, tables, bounds>>

(* client.register_device: on_connect puts the connection into the map,    *)
(* then waits for the database.                                            *)
RegisterConnects(c, d) ==
    /\ Ready(c)
    /\ requests < MaxRequests
    /\ requests' = requests + 1
    /\ sink' = [sink EXCEPT ![d] = c]
    /\ ident' = [ident EXCEPT ![c] = d]
    /\ ids' = [ids EXCEPT ![c] = @ \cup {d}]
    /\ req' = [req EXCEPT ![c] = [Idle EXCEPT !.pc = "upsert", !.who = d]]
    /\ UNCHANGED <<up, inbox, watchers, tables, takeovers, restarts>>

RegisterUpserts(c) ==
    /\ req[c].pc = "upsert"
    /\ known' = known \cup {req[c].who}
    /\ req' = [req EXCEPT ![c] = Idle]
    /\ UNCHANGED <<conn, inbox, maps, rows, owner, wins, bounds>>

(* An unknown platform is refused after the device was connected.          *)
RegisterRefused(c) ==
    /\ req[c].pc = "upsert"
    /\ req' = [req EXCEPT ![c] = Idle]
    /\ UNCHANGED <<conn, inbox, maps, tables, bounds>>

(* task.subscribe and task.unsubscribe of a connection with a device.      *)
Subscribe(c, t) ==
    /\ Ready(c)
    /\ ident[c] # None
    /\ watchers' = [watchers EXCEPT ![t] = @ \cup {ident[c]}]
    /\ UNCHANGED <<conn, req, inbox, sink, tables, bounds>>

Unsubscribe(c, t) ==
    /\ Ready(c)
    /\ ident[c] # None
    /\ watchers' = [watchers EXCEPT ![t] = @ \ {ident[c]}]
    /\ UNCHANGED <<conn, req, inbox, sink, tables, bounds>>

(* The loop writes one event to its socket.                                *)
Deliver(c) ==
    /\ Ready(c)
    /\ inbox[c] # <<>>
    /\ inbox' = [inbox EXCEPT ![c] = Tail(@)]
    /\ UNCHANGED <<conn, req, maps, tables, bounds>>

Hangup(c, how) ==
    /\ Ready(c)
    /\ up' = [up EXCEPT ![c] = how]
    /\ inbox' = [inbox EXCEPT ![c] = <<>>]
    /\ UNCHANGED <<ident, ids, req, tables, bounds>>

(* Mutant: on_disconnect forgets the watcher sets.                         *)
CloseKeepsWatchers(c) ==
    /\ Hangup(c, "closed")
    /\ sink' = [d \in Devices |-> IF d = ident[c] THEN None ELSE sink[d]]
    /\ UNCHANGED watchers

(* Mutant: on_disconnect forgets the sink.                                 *)
CloseKeepsSink(c) ==
    /\ Hangup(c, "closed")
    /\ watchers' = [t \in Tasks |-> watchers[t] \ {ident[c]}]
    /\ UNCHANGED sink

(* The stream ends: on_disconnect of the device registered last.  It takes *)
(* the device out of the map, whichever connection the map has for it.     *)
Close(c) ==
    /\ Hangup(c, "closed")
    /\ sink' = [d \in Devices |-> IF d = ident[c] THEN None ELSE sink[d]]
    /\ watchers' = [t \in Tasks |-> watchers[t] \ {ident[c]}]

(* A read or a write fails: the function returns at the `?`, before the    *)
(* clean-up at its end.                                                    *)
Abort(c) ==
    /\ Hangup(c, "aborted")
    /\ UNCHANGED maps

-----------------------------------------------------------------------------
(* handoff.send: the target's connection is read from the map, the         *)
(* database is asked whether the target is known, then the message is sent *)
(* on the connection read before.                                          *)
SendLooks(c, t, d) ==
    /\ Ready(c)
    /\ requests < MaxRequests
    /\ requests' = requests + 1
    /\ req' = [req EXCEPT ![c] = [pc |-> "send", task |-> t, who |-> d, to |-> sink[d]]]
    /\ UNCHANGED <<conn, inbox, maps, tables, takeovers, restarts>>

(* Answered ws; queued (of a known device) and unknown send nothing.       *)
SendDelivers(c) ==
    LET r == req[c] IN
    /\ r.pc = "send"
    /\ Push(r.to, [kind |-> "received", task |-> r.task, from |-> Me(c), to |-> r.who])
    /\ req' = [req EXCEPT ![c] = Idle]
    /\ UNCHANGED <<conn, maps, tables, bounds>>

(* handoff.state_sync: one message for every other watcher, under the lock *)
(* of the maps; a connection may have registered several of them.          *)
Copies(c, watching) ==
    LET wanted == Cardinality({d \in watching : sink[d] = c})
        room   == IF up[c] = "open" THEN PipeCap - Len(inbox[c]) ELSE 0
    IN  IF wanted < room THEN wanted ELSE room

StateSync(c, t) ==
    /\ Ready(c)
    /\ requests < MaxRequests
    /\ requests' = requests + 1
    /\ inbox' = [x \in Conns |-> inbox[x] \o
          [i \in 1..Copies(x, watchers[t] \ {Me(c)}) |->
              [kind |-> "state", task |-> t, from |-> Me(c), to |-> None]]]
    /\ UNCHANGED <<conn, req, maps, tables, takeovers, restarts>>

-----------------------------------------------------------------------------
(* Ownership.                                                              *)

(* Mutant: INSERT OR REPLACE.                                              *)
InsertTaskReplaces(t) ==
    /\ rows' = rows \cup {t}
    /\ owner' = [owner EXCEPT ![t] = None]
    /\ UNCHANGED <<conn, req, inbox, maps, known, wins, bounds>>

(* A task is assigned: its row is inserted without an owner.               *)
InsertTask(t) ==
    /\ t \notin rows
    /\ rows' = rows \cup {t}
    /\ UNCHANGED <<conn, req, inbox, maps, known, owner, wins, bounds>>

(* Mutant: the expectation is not compared with the row.                   *)
MayTakeUnchecked(c, t, expected) ==
    expected # None \/ owner[t] \in {None, Me(c)}

(* With an expectation, a swap of just that owner; without one, the claim  *)
(* of an unowned task or of one's own.                                     *)
MayTake(c, t, expected) ==
    IF expected # None THEN owner[t] = expected ELSE owner[t] \in {None, Me(c)}

(* One transaction.  The UPDATE of a task without a row changes nothing,   *)
(* and is a win all the same.                                              *)
TakeoverWins(c, t, expected) ==
    /\ Ready(c)
    /\ takeovers < MaxTakeovers
    /\ takeovers' = takeovers + 1
    /\ MayTake(c, t, expected)
    /\ IF t \in rows
       THEN /\ owner' = [owner EXCEPT ![t] = Me(c)]
            /\ wins' = [wins EXCEPT ![t] =
                   Append(@, [prev |-> owner[t], by |-> Me(c), expected |-> expected])]
       ELSE UNCHANGED <<owner, wins>>
    /\ req' = [req EXCEPT ![c] =
                  IF owner[t] = None THEN Idle
                  ELSE [pc |-> "notify", task |-> t, who |-> Me(c), to |-> owner[t]]]
    /\ UNCHANGED <<conn, inbox, maps, known, rows, requests, restarts>>

SinkOf(d) == IF d \in Devices THEN sink[d] ELSE None

(* Mutant: the owner is read again, after the transaction.                 *)
TakeoverNotifiesOwner(c) ==
    LET r == req[c] IN
    /\ r.pc = "notify"
    /\ Push(SinkOf(owner[r.task]),
            [kind |-> "taken_over", task |-> r.task, from |-> r.who, to |-> owner[r.task]])
    /\ req' = [req EXCEPT ![c] = Idle]
    /\ UNCHANGED <<conn, maps, tables, bounds>>

(* The database lock is released; the previous owner is told if it is      *)
(* connected.                                                              *)
TakeoverNotifies(c) ==
    LET r == req[c] IN
    /\ r.pc = "notify"
    /\ Push(SinkOf(r.to),
            [kind |-> "taken_over", task |-> r.task, from |-> r.who, to |-> r.to])
    /\ req' = [req EXCEPT ![c] = Idle]
    /\ UNCHANGED <<conn, maps, tables, bounds>>

(* RaceLost: nothing is written.                                           *)
TakeoverLoses(c, t, expected) ==
    /\ Ready(c)
    /\ takeovers < MaxTakeovers
    /\ takeovers' = takeovers + 1
    /\ ~MayTake(c, t, expected)
    /\ UNCHANGED <<conn, req, inbox, maps, tables, requests, restarts>>

-----------------------------------------------------------------------------
(* The daemon dies and is started again; only the tables stay.             *)
Restart ==
    /\ restarts < MaxRestarts
    /\ restarts' = restarts + 1
    /\ up' = [c \in Conns |-> IF up[c] = "open" THEN "closed" ELSE up[c]]
    /\ req' = [c \in Conns |-> Idle]
    /\ inbox' = [c \in Conns |-> <<>>]
    /\ sink' = [d \in Devices |-> None]
    /\ watchers' = [t \in Tasks |-> {}]
    /\ UNCHANGED <<ident, ids, tables, takeovers, requests>>

Connection(c) ==
    \/ Open(c) \/ Deliver(c) \/ Close(c) \/ Abort(c)
    \/ RegisterUpserts(c) \/ RegisterRefused(c)
    \/ SendDelivers(c) \/ TakeoverNotifies(c)
    \/ \E d \in Devices : RegisterConnects(c, d)
    \/ \E t \in Tasks : Subscribe(c, t) \/ Unsubscribe(c, t) \/ StateSync(c, t)
    \/ \E t \in Tasks, d \in Devices : SendLooks(c, t, d)
    \/ \E t \in Tasks, expected \in Names \cup {None} :
        TakeoverWins(c, t, expected) \/ TakeoverLoses(c, t, expected)

Next ==
    \/ \E c \in Conns : Connection(c)
    \/ \E t \in Tasks : InsertTask(t)
    \/ Restart

Spec == Init /\ [][Next]_vars

-----------------------------------------------------------------------------
Msg == [kind : {"received", "state", "taken_over"}, task : Tasks,
        from : Names, to : Names \cup {None}]
Request == [pc : {"idle", "upsert", "send", "notify"}, task : Tasks \cup {None},
            who : Names \cup {None}, to : Conns \cup Names \cup {None}]
Win == [prev : Names \cup {None}, by : Names, expected : Names \cup {None}]

(* Type invariant.                                                         *)
TypeOK ==
    /\ up \in [Conns -> {"new", "open", "closed", "aborted"}]
    /\ ident \in [Conns -> Devices \cup {None}]
    /\ ids \in [Conns -> SUBSET Devices]
    /\ req \in [Conns -> Request]
    /\ inbox \in [Conns -> Seq(Msg)]
    /\ \A c \in Conns : Len(inbox[c]) <= PipeCap
    /\ sink \in [Devices -> Conns \cup {None}]
    /\ watchers \in [Tasks -> SUBSET Devices]
    /\ known \in SUBSET Devices
    /\ rows \in SUBSET Tasks
    /\ owner \in [Tasks -> Names \cup {None}]
    /\ wins \in [Tasks -> Seq(Win)]
    /\ takeovers \in Nat /\ requests \in Nat /\ restarts \in Nat

(* Ownership passes from hand to hand: the owner is the last winner, every *)
(* winner took the task from the winner before it and was told so, and     *)
(* neither a disconnect nor a restart loses it.                            *)
OwnershipChain ==
    \A t \in Tasks :
        LET w == wins[t] IN
        /\ owner[t] = (IF w = <<>> THEN None ELSE w[Len(w)].by)
        /\ \A i \in 1..Len(w) : w[i].prev = (IF i = 1 THEN None ELSE w[i - 1].by)

(* Of two devices that race to take a task from the same owner only one    *)
(* wins: a second win with the same expectation needs that owner to have   *)
(* won the task back in between.                                           *)
NoDoubleWin ==
    \A t \in Tasks : \A i, j \in 1..Len(wins[t]) :
        i < j /\ wins[t][i].expected = wins[t][j].expected /\ wins[t][j].expected # None =>
            \E k \in i..(j - 1) : wins[t][k].by = wins[t][j].expected

(* Whoever is told that its task was taken over did lose it, to the device *)
(* named in the message, although the message is sent after the            *)
(* transaction and other takeovers come in between.                        *)
NoticeFollowsLoss ==
    \A c \in Conns : \A n \in 1..Len(inbox[c]) :
        LET m == inbox[c][n] IN
        m.kind = "taken_over" =>
            \E i \in 1..Len(wins[m.task]) :
                wins[m.task][i].prev = m.to /\ wins[m.task][i].by = m.from

(* A connection that is over is left in the map only if it broke off, or   *)
(* had registered another device since.                                    *)
SinkOutlives ==
    \A d \in Devices : \A c \in Conns :
        sink[d] = c =>
            /\ d \in ids[c]
            /\ up[c] = "open" \/ up[c] = "aborted" \/ ident[c] # d

(* A device watches a task only as long as one of its connections is open, *)
(* with the same exceptions.                                               *)
WatchersOutlive ==
    \A t \in Tasks : \A d \in watchers[t] : \E c \in Conns :
        /\ d \in ids[c]
        /\ up[c] = "open" \/ up[c] = "aborted" \/ ident[c] # d

-----------------------------------------------------------------------------
(* The register of owners the runtime provides: of the connections only    *)
(* the notices in their channels are seen.                                 *)
Taken ==
    UNION {{<<t, w.prev, w.by, w.expected>> : w \in {wins[t][i] : i \in 1..Len(wins[t])}} :
           t \in Tasks}

Notices(c) == {m \in {inbox[c][n] : n \in 1..Len(inbox[c])} : m.kind = "taken_over"}
Told == UNION {{<<m.task, m.to, m.from>> : m \in Notices(c)} : c \in Conns}

Register == INSTANCE OwnershipRegister WITH assigned <- rows, taken <- Taken, told <- Told

(* Takeovers, notices, broken connections and restarts are those of a      *)
(* register with compare-and-swap: a task is only ever taken from the      *)
(* owner a request expects, or claimed free, and no notice is wrong.       *)
KeepsRegister == Register!Spec

-----------------------------------------------------------------------------
(* What the repository says and the code does not do.                      *)

(* "device_id -> connected WS sink (None when offline)": a device whose    *)
(* connection is open has a sink.                                          *)
OnlineHasSink ==
    \A c \in Conns : up[c] = "open" /\ ident[c] # None => sink[ident[c]] # None
=============================================================================
