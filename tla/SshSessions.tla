---------------------------- MODULE SshSessions ----------------------------
(***************************************************************************)
(* The desktop backend's SSH connections: a chain of hops to a target, the *)
(* pool of bastion connections the chains share, and how sessions end.     *)
(*                                                                         *)
(* A pool entry is reference counted.  Its lock is a read-write lock that  *)
(* is held across network waits on some paths and given up on others.      *)
(* A link is a connection to a bastion, named by the call that made it;    *)
(* it may run through other links.                                         *)
(***************************************************************************)
EXTENDS Integers, Sequences, FiniteSets

CONSTANTS
    Connects,       \* calls of ssh_connect; each names the session it makes
    Tests,          \* calls of ssh_test
    Bastions,       \* SSH hops, by server id
    Proxy,          \* a network proxy hop
    Command,        \* a ProxyCommand hop, a local process
    Chains,         \* the chains of hops before the target a call may find
    NoOne

Ops == Connects \cup Tests
Links == Ops \X Bastions
Hops == Bastions \cup {Proxy, Command}

ASSUME SessionsAssumption ==
    /\ Connects \cap Tests = {} /\ NoOne \notin Connects \cup Tests
    /\ Proxy \notin Bastions /\ Command \notin Bastions /\ Proxy # Command
    /\ IsFiniteSet(Connects \cup Tests)
    /\ Chains \in [Connects \cup Tests -> SUBSET Seq(Bastions \cup {Proxy, Command})]
    /\ \A o \in Connects \cup Tests : \A ch \in Chains[o] : \A i, j \in DOMAIN ch :
          ch[i] = ch[j] /\ ch[i] \in Bastions => i = j

VARIABLES
    pc,         \* where a call is
    chain, pos, \* its hops, and the one it is at
    held,       \* proxy_chain_ids: the bastions it counts itself at
    under,      \* the links its tunnel runs through so far
    pool,       \* proxy_sessions: bastion -> link and ref_count
    writer,     \* who holds the pool's lock for writing
    readers,    \* who holds it for reading
    base,       \* the links a link runs through
    sessions,   \* the map of sessions
    asking,     \* pending_host_key_decisions
    relay,      \* a session's exit relay: none, loose, attached, cancelled
    raced,      \* ghost: bastions whose entry was overwritten by another
    dead        \* ghost: links the program has disconnected

walk == <<pc, chain, pos, held, under>>
lock == <<writer, readers>>
ends == <<sessions, asking, relay>>
ghosts == <<raced, dead>>
vars == <<walk, pool, lock, base, ends, ghosts>>

Entry == [link : Links, refs : Nat]

Init ==
    /\ pc = [o \in Ops |-> "idle"]
    /\ chain = [o \in Ops |-> <<>>] /\ pos = [o \in Ops |-> 1]
    /\ held = [o \in Ops |-> {}] /\ under = [o \in Ops |-> {}]
    /\ pool = [b \in {} |-> NoOne]
    /\ writer = NoOne /\ readers = {}
    /\ base = [l \in Links |-> {}]
    /\ sessions = {} /\ asking = {} /\ relay = [o \in Connects |-> "none"]
    /\ raced = {} /\ dead = {}

-----------------------------------------------------------------------------
Free == writer = NoOne /\ readers = {}
AtTarget(o) == pos[o] > Len(chain[o])
Hop(o) == chain[o][pos[o]]
AtBastion(o) == ~AtTarget(o) /\ Hop(o) \in Bastions
AfterBastion(o) == pos[o] > 1 /\ chain[o][pos[o] - 1] \in Bastions
AfterProxy(o) == pos[o] > 1 /\ chain[o][pos[o] - 1] \notin Bastions
Over(b) == {pool[b].link} \cup base[pool[b].link]
Intact(o) == under[o] \cap dead = {}

Become(o, p) == pc' = [pc EXCEPT ![o] = p]
Advance(o) == Become(o, "hop") /\ pos' = [pos EXCEPT ![o] = @ + 1]
Tunnel(o, links) == under' = [under EXCEPT ![o] = links]

(* Nothing is undone: the bastions counted so far stay counted.            *)
Fails(o) == Become(o, "failed") /\ UNCHANGED <<chain, pos, held, under>>

Start(o) ==
    /\ pc[o] = "idle" /\ Become(o, "hop")
    /\ \E ch \in Chains[o] : chain' = [chain EXCEPT ![o] = ch]
    /\ UNCHANGED <<pos, held, under, pool, lock, base, ends, ghosts>>

(* Mutant: the entry is used without being counted.                        *)
ReuseUncounted(o) ==
    /\ pc[o] = "hop" /\ AtBastion(o) /\ Free /\ Hop(o) \in DOMAIN pool
    /\ held' = [held EXCEPT ![o] = @ \cup {Hop(o)}]
    /\ Tunnel(o, Over(Hop(o)))
    /\ Advance(o)
    /\ UNCHANGED <<pool, chain, lock, base, ends, ghosts>>

(* An SSH hop that is in the pool is counted once more, by whatever route  *)
(* its connection was made.                                                *)
Reuse(o) ==
    /\ pc[o] = "hop" /\ AtBastion(o) /\ Free /\ Hop(o) \in DOMAIN pool
    /\ pool' = [pool EXCEPT ![Hop(o)].refs = @ + 1]
    /\ held' = [held EXCEPT ![o] = @ \cup {Hop(o)}]
    /\ Tunnel(o, Over(Hop(o)))
    /\ Advance(o)
    /\ UNCHANGED <<chain, lock, base, ends, ghosts>>

(* A first hop is connected and authenticated under the write lock.        *)
OpenDirect(o) ==
    /\ pc[o] = "hop" /\ AtBastion(o) /\ Free /\ Hop(o) \notin DOMAIN pool
    /\ pos[o] = 1
    /\ writer' = o /\ Become(o, "direct")
    /\ UNCHANGED <<chain, pos, held, under, pool, readers, base, ends, ghosts>>

(* insert(server_id, ref_count 1), whatever is there.                      *)
PutLink(o, links) ==
    /\ pool' = [b \in DOMAIN pool \cup {Hop(o)} |->
                   IF b = Hop(o) THEN [link |-> <<o, b>>, refs |-> 1] ELSE pool[b]]
    /\ base' = [base EXCEPT ![<<o, Hop(o)>>] = links]
    /\ Tunnel(o, links \cup {<<o, Hop(o)>>})
    /\ held' = [held EXCEPT ![o] = @ \cup {Hop(o)}]
    /\ raced' = raced \cup ({Hop(o)} \cap DOMAIN pool)
    /\ Advance(o)

DirectDone(o) ==
    /\ pc[o] = "direct" /\ PutLink(o, {}) /\ writer' = NoOne
    /\ UNCHANGED <<chain, readers, ends, dead>>

DirectFails(o) ==
    /\ pc[o] = "direct" /\ Fails(o) /\ writer' = NoOne
    /\ UNCHANGED <<pool, readers, base, ends, ghosts>>

(* A later hop is looked up under the lock, which is then given up.        *)
Miss(o) ==
    /\ pc[o] = "hop" /\ AtBastion(o) /\ Free /\ Hop(o) \notin DOMAIN pool
    /\ pos[o] > 1
    /\ Become(o, IF AfterBastion(o) THEN "lookup" ELSE "auth")
    /\ UNCHANGED <<chain, pos, held, under, pool, lock, base, ends, ghosts>>

(* The entry of bastion b is read, and the lock kept for the connection    *)
(* through it.                                                             *)
ReadEntry(o, b, to) ==
    /\ writer = NoOne
    /\ IF b \in DOMAIN pool
       THEN /\ readers' = readers \cup {o} /\ Become(o, to)
            /\ Tunnel(o, Over(b))
            /\ UNCHANGED <<chain, pos, held>>
       ELSE Fails(o) /\ UNCHANGED readers
    /\ UNCHANGED <<pool, writer, base, ends, ghosts>>

Lookup(o) ==
    /\ pc[o] = "lookup" \/ (pc[o] = "hop" /\ AtTarget(o))
    /\ AfterBastion(o)
    /\ ReadEntry(o, chain[o][pos[o] - 1], "via")

(* A proxy behind a bastion: a channel is opened under the read lock.      *)
OpenChannel(o) ==
    /\ pc[o] = "hop" /\ ~AtTarget(o) /\ Hop(o) = Proxy /\ AfterBastion(o)
    /\ ReadEntry(o, chain[o][pos[o] - 1], "opening")

(* A SOCKS5 proxy that refused the target is tried once more with TLS, on  *)
(* a new channel when it is behind a bastion.                              *)
RetryTls(o) ==
    /\ pc[o] = "hop" /\ AtTarget(o) /\ pos[o] > 2
    /\ chain[o][pos[o] - 1] = Proxy /\ chain[o][pos[o] - 2] \in Bastions
    /\ ReadEntry(o, chain[o][pos[o] - 2], "via")

ViaDone(o) ==
    /\ pc[o] = "via" /\ Intact(o) /\ readers' = readers \ {o} /\ Become(o, "auth")
    /\ UNCHANGED <<chain, pos, held, under, pool, writer, base, ends, ghosts>>

ChannelOpened(o) ==
    /\ pc[o] = "opening" /\ Intact(o) /\ readers' = readers \ {o} /\ Advance(o)
    /\ UNCHANGED <<chain, held, under, pool, writer, base, ends, ghosts>>

(* Mutant: a time-out forgets to give the lock up.                         *)
ReadFailsHolding(o) ==
    /\ pc[o] \in {"via", "opening"} /\ Fails(o)
    /\ UNCHANGED <<readers, pool, writer, base, ends, ghosts>>

ReadFails(o) ==
    /\ pc[o] \in {"via", "opening"} /\ readers' = readers \ {o} /\ Fails(o)
    /\ UNCHANGED <<pool, writer, base, ends, ghosts>>

(* A proxy from here or from another proxy, or a local command.            *)
ReachProxy(o) ==
    /\ pc[o] = "hop" /\ ~AtTarget(o)
    /\ Hop(o) = Command \/ (Hop(o) = Proxy /\ ~AfterBastion(o))
    /\ Tunnel(o, IF Hop(o) = Command THEN {} ELSE under[o])
    /\ Advance(o)
    /\ UNCHANGED <<chain, held, pool, lock, base, ends, ghosts>>

(* The target without a bastion right before it.                           *)
ReachTarget(o) ==
    /\ pc[o] = "hop" /\ AtTarget(o) /\ ~AfterBastion(o)
    /\ Become(o, "auth")
    /\ UNCHANGED <<chain, pos, held, under, pool, lock, base, ends, ghosts>>

(* A connection, a handshake, an authentication or a time-out of 10 s.     *)
HopFails(o) ==
    /\ pc[o] = "auth" \/ (pc[o] = "hop" /\ (AfterProxy(o) \/ (~AtTarget(o) /\ Hop(o) \notin Bastions)))
    /\ Fails(o)
    /\ UNCHANGED <<pool, lock, base, ends, ghosts>>

Insert(o) ==
    /\ pc[o] = "auth" /\ AtBastion(o) /\ Intact(o) /\ Free
    /\ PutLink(o, under[o])
    /\ UNCHANGED <<chain, lock, ends, dead>>

TargetDone(o) ==
    /\ pc[o] = "auth" /\ AtTarget(o) /\ Intact(o)
    /\ Become(o, IF o \in Tests THEN "testing" ELSE "verify")
    /\ UNCHANGED <<chain, pos, held, under, pool, lock, base, ends, ghosts>>

-----------------------------------------------------------------------------
(* ssh_connect once the chain stands.                                      *)

KeyTrusted(o) ==
    /\ pc[o] = "verify" /\ Become(o, "storing")
    /\ UNCHANGED <<chain, pos, held, under, pool, lock, base, ends, ghosts>>

KeyChanged(o) ==
    /\ pc[o] = "verify" /\ Become(o, "asking")
    /\ asking' = asking \cup {o}
    /\ UNCHANGED <<chain, pos, held, under, pool, lock, base, sessions, relay, ghosts>>

(* The answer of the user; after the time-out it changes nothing.          *)
HostKeyRespond(o) ==
    /\ o \in asking /\ asking' = asking \ {o}
    /\ IF pc[o] = "asking" THEN \E p \in {"storing", "failed"} : Become(o, p) ELSE UNCHANGED pc
    /\ UNCHANGED <<chain, pos, held, under, pool, lock, base, sessions, relay, ghosts>>

HostKeyTimeout(o) ==
    /\ pc[o] = "asking" /\ Fails(o)
    /\ UNCHANGED <<pool, lock, base, ends, ghosts>>

(* The session is stored; with post hops an exit relay is set up.          *)
Store(o) ==
    /\ pc[o] = "storing" /\ sessions' = sessions \cup {o}
    /\ \E p \in {"up", "exiting"} : Become(o, p)
    /\ UNCHANGED <<chain, pos, held, under, pool, lock, base, asking, relay, ghosts>>

StartRelay(o) ==
    /\ pc[o] = "exiting" /\ relay[o] = "none" /\ relay' = [relay EXCEPT ![o] = "loose"]
    /\ UNCHANGED <<walk, pool, lock, base, sessions, asking, ghosts>>

AttachRelay(o) ==
    /\ pc[o] = "exiting" /\ relay[o] = "loose"
    /\ relay' = [relay EXCEPT ![o] = "attached"]
    /\ Become(o, "up")
    /\ UNCHANGED <<chain, pos, held, under, pool, lock, base, sessions, asking, ghosts>>

(* The relay's listener is not stopped, the bastions stay counted.         *)
ExitFails(o) ==
    /\ pc[o] = "exiting" /\ sessions' = sessions \ {o}
    /\ Fails(o)
    /\ UNCHANGED <<pool, lock, base, asking, relay, ghosts>>

(* ssh_disconnect.                                                         *)
Disconnect(o) ==
    /\ pc[o] = "up" /\ sessions' = sessions \ {o}
    /\ relay' = [relay EXCEPT ![o] = IF @ = "attached" THEN "cancelled" ELSE @]
    /\ Become(o, "releasing")
    /\ UNCHANGED <<chain, pos, held, under, pool, lock, base, asking, ghosts>>

(* ssh_test: the post hops are tried on the target, which is disconnected. *)
TestDone(o) ==
    /\ pc[o] = "testing" /\ Become(o, "releasing")
    /\ UNCHANGED <<chain, pos, held, under, pool, lock, base, ends, ghosts>>

TestFails(o) ==
    /\ pc[o] = "testing" /\ Fails(o)
    /\ UNCHANGED <<pool, lock, base, ends, ghosts>>

(* Mutant: a count is decremented and its entry never removed.             *)
ReleaseKeeping(o) ==
    /\ pc[o] = "releasing" /\ (Free \/ held[o] = {})
    /\ pool' = [b \in DOMAIN pool |->
                   IF b \in held[o] THEN [pool[b] EXCEPT !.refs = @ - 1] ELSE pool[b]]
    /\ held' = [held EXCEPT ![o] = {}]
    /\ Become(o, "done")
    /\ UNCHANGED <<chain, pos, under, lock, base, ends, ghosts>>

(* Mutant: every bastion of the chain is removed, whoever else counts.     *)
ReleaseAll(o) ==
    /\ pc[o] = "releasing" /\ (Free \/ held[o] = {})
    /\ LET gone == held[o] \cap DOMAIN pool
       IN  /\ pool' = [b \in DOMAIN pool \ gone |-> pool[b]]
           /\ dead' = dead \cup {pool[b].link : b \in IF o \in Tests THEN gone ELSE {}}
    /\ held' = [held EXCEPT ![o] = {}]
    /\ Become(o, "done")
    /\ UNCHANGED <<chain, pos, under, lock, base, ends, raced>>

(* Every bastion of the chain that is in the pool loses a reference and,   *)
(* with the last one, its entry; a test disconnects what it removes.       *)
Release(o) ==
    /\ pc[o] = "releasing" /\ (Free \/ held[o] = {})
    /\ LET Last(b) == b \in held[o] /\ pool[b].refs = 1
           gone == {b \in DOMAIN pool : Last(b)}
       IN  /\ pool' = [b \in DOMAIN pool \ gone |->
                          IF b \in held[o] THEN [pool[b] EXCEPT !.refs = @ - 1] ELSE pool[b]]
           /\ dead' = dead \cup {pool[b].link : b \in IF o \in Tests THEN gone ELSE {}}
    /\ held' = [held EXCEPT ![o] = {}]
    /\ Become(o, "done")
    /\ UNCHANGED <<chain, pos, under, lock, base, ends, raced>>

-----------------------------------------------------------------------------
(* What a step of a call waits for is bounded by a time-out, or is a lock. *)
Bounded(o) ==
    \/ Reuse(o) \/ OpenDirect(o) \/ Miss(o) \/ Lookup(o) \/ OpenChannel(o)
    \/ ViaDone(o) \/ (pc[o] = "via" /\ ReadFails(o))
    \/ ReachProxy(o) \/ ReachTarget(o) \/ Release(o)

(* An authentication and the opening of a channel to a proxy are not.      *)
Unbounded(o) ==
    \/ DirectDone(o) \/ DirectFails(o) \/ ChannelOpened(o) \/ ReadFails(o)
    \/ HopFails(o) \/ RetryTls(o) \/ Insert(o) \/ TargetDone(o)
    \/ TestDone(o) \/ TestFails(o)

Session(o) ==
    \/ KeyTrusted(o) \/ KeyChanged(o) \/ HostKeyRespond(o) \/ HostKeyTimeout(o)
    \/ Store(o) \/ StartRelay(o) \/ AttachRelay(o) \/ ExitFails(o) \/ Disconnect(o)

Next ==
    \/ \E o \in Ops : Start(o) \/ Bounded(o) \/ Unbounded(o)
    \/ \E o \in Connects : Session(o)

Spec == Init /\ [][Next]_vars
FairSpec == Spec /\ \A o \in Ops : WF_vars(Bounded(o))

-----------------------------------------------------------------------------
TypeOK ==
    /\ pc \in [Ops -> {"idle", "hop", "direct", "lookup", "via", "opening", "auth", "verify",
                       "asking", "storing", "exiting", "up", "testing", "releasing", "done", "failed"}]
    /\ chain \in [Ops -> Seq(Hops)] /\ pos \in [Ops -> Nat \ {0}]
    /\ held \in [Ops -> SUBSET Bastions] /\ under \in [Ops -> SUBSET Links]
    /\ DOMAIN pool \subseteq Bastions /\ pool \in [DOMAIN pool -> Entry]
    /\ writer \in Ops \cup {NoOne} /\ readers \subseteq Ops
    /\ base \in [Links -> SUBSET Links]
    /\ sessions \subseteq Connects /\ asking \subseteq Connects
    /\ relay \in [Connects -> {"none", "loose", "attached", "cancelled"}]
    /\ raced \subseteq Bastions /\ dead \subseteq Links

Holders(b) == {o \in Ops : b \in held[o]}
Refs(b) == IF b \in DOMAIN pool THEN pool[b].refs ELSE 0

(* The reference count of a bastion is the number of calls that count      *)
(* themselves there, the failed ones included; once two connections raced  *)
(* for the entry it may be less.                                           *)
CountIsExact ==
    \A b \in Bastions : /\ Refs(b) <= Cardinality(Holders(b))
                        /\ b \notin raced => Refs(b) = Cardinality(Holders(b))

(* No bastion connection is closed under a session that is counted at it,  *)
(* unless two connections raced for the entry.                             *)
CountedTunnelStands ==
    \A o \in Ops : pc[o] = "up" =>
        \A l \in under[o] \cap dead : l[2] \notin held[o] \/ l[2] \in raced

(* "Multiple inner sessions can share the same bastion connection via      *)
(* reference counting": what a live session runs through is not closed.    *)
TunnelStands == \A o \in Ops : pc[o] = "up" => under[o] \cap dead = {}

(* The pool's lock is held over a wait that no time-out bounds.            *)
LockHeld == \E o \in Ops : pc[o] \in {"direct", "opening"}

(* A session that was disconnected gives its bastions back, unless some    *)
(* other call waits for a bastion or a proxy with the lock in its hands.   *)
DisconnectEnds == \A o \in Ops : pc[o] = "releasing" ~> (pc[o] = "done" \/ LockHeld)
=============================================================================
