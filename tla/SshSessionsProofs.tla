------------------------- MODULE SshSessionsProofs -------------------------
(***************************************************************************)
(* What SshSessions keeps for every set of calls, bastions and chains,     *)
(* proved with TLAPS.                                                      *)
(***************************************************************************)
EXTENDS SshSessions, FiniteSetTheorems, TLAPS

Once(ch) == \A i, j \in DOMAIN ch : ch[i] = ch[j] /\ ch[i] \in Bastions => i = j

(* A call counts itself only at bastions it has passed, so that the one    *)
(* before it is new to it.                                                 *)
HeldIsPassed ==
    \A o \in Ops :
        /\ Once(chain[o])
        /\ pc[o] = "idle" => held[o] = {}
        /\ pc[o] = "direct" => AtBastion(o)
        /\ \A b \in held[o] : \E i \in DOMAIN chain[o] : i < pos[o] /\ chain[o][i] = b

(* An entry is for its own bastion, and leaves with its last reference.    *)
PoolShape == \A b \in DOMAIN pool : pool[b].refs >= 1 /\ pool[b].link[2] = b

(* From the target's answer on, a counted bastion is not closed.           *)
Standing == {"verify", "asking", "storing", "exiting", "up"}
TargetStands ==
    \A o \in Ops : pc[o] \in Standing =>
        \A l \in under[o] \cap dead : l[2] \notin held[o] \/ l[2] \in raced

(* The inductive invariant.                                                *)
IInv == TypeOK /\ HeldIsPassed /\ PoolShape /\ CountIsExact /\ TargetStands

Steps(o) == Bounded(o) \/ Unbounded(o) \/ (o \in Connects /\ Session(o))

-----------------------------------------------------------------------------
LEMMA NextSplits == Next => \E o \in Ops : Start(o) \/ Steps(o)
  BY DEF Next, Steps, Ops

LEMMA InitIInv == Init => IInv
  <1> SUFFICES ASSUME Init PROVE IInv
    OBVIOUS
  <1>1. \A b \in Bastions : Holders(b) = {} /\ Refs(b) = 0
    BY DEF Init, Holders, Refs
  <1>2. CountIsExact
    BY <1>1, FS_EmptySet DEF CountIsExact
  <1> QED
    BY <1>2, SessionsAssumption
       DEF Init, IInv, TypeOK, HeldIsPassed, PoolShape, TargetStands, Standing, Once, Ops, Links, Entry

LEMMA HopIsHop == ASSUME TypeOK, NEW o \in Ops PROVE AtBastion(o) => Hop(o) \in Bastions
  BY DEF AtBastion

(* Holders(b) is finite, and counting one more or one less does what one   *)
(* expects.                                                                *)
LEMMA HoldersFinite == ASSUME NEW b PROVE IsFiniteSet(Holders(b)) /\ Cardinality(Holders(b)) \in Nat
  BY SessionsAssumption, FS_Subset, FS_CardinalityType DEF Holders, Ops

LEMMA AddHolder ==
  ASSUME TypeOK, NEW o \in Ops, NEW b \in Bastions, b \notin held[o],
         held' = [held EXCEPT ![o] = @ \cup {b}]
  PROVE  /\ Cardinality(Holders(b)') = Cardinality(Holders(b)) + 1
         /\ \A a \in Bastions \ {b} : Holders(a)' = Holders(a)
  <1>1. o \notin Holders(b) /\ Holders(b)' = Holders(b) \cup {o}
    BY DEF Holders, TypeOK
  <1>2. \A a \in Bastions \ {b} : Holders(a)' = Holders(a)
    BY DEF Holders, TypeOK
  <1> QED
    BY <1>1, <1>2, HoldersFinite, FS_AddElement

LEMMA DropHolder ==
  ASSUME TypeOK, NEW o \in Ops, held' = [held EXCEPT ![o] = {}]
  PROVE  \A b \in Bastions :
            /\ b \in held[o] => Cardinality(Holders(b)') = Cardinality(Holders(b)) - 1
            /\ b \notin held[o] => Holders(b)' = Holders(b)
  <1> SUFFICES ASSUME NEW b \in Bastions
               PROVE  /\ b \in held[o] => Cardinality(Holders(b)') = Cardinality(Holders(b)) - 1
                      /\ b \notin held[o] => Holders(b)' = Holders(b)
    OBVIOUS
  <1>1. Holders(b)' = Holders(b) \ {o}
    BY DEF Holders, TypeOK
  <1>2. b \in held[o] <=> o \in Holders(b)
    BY DEF Holders
  <1>3. CASE b \in held[o]
    BY <1>1, <1>2, <1>3, HoldersFinite, FS_RemoveElement
  <1>4. CASE b \notin held[o]
    BY <1>1, <1>2, <1>4
  <1> QED
    BY <1>3, <1>4

-----------------------------------------------------------------------------
(* The steps that neither count at a bastion, nor move on in the chain,    *)
(* nor find a new tunnel.                                                  *)
Waits(o) ==
    \/ OpenDirect(o) \/ DirectFails(o) \/ Miss(o) \/ ViaDone(o) \/ ReadFails(o)
    \/ ReachTarget(o) \/ HopFails(o) \/ TargetDone(o)
    \/ TestDone(o) \/ TestFails(o) \/ (o \in Connects /\ Session(o))

Finds(o) == Lookup(o) \/ OpenChannel(o) \/ RetryTls(o)
Moves(o) == ChannelOpened(o) \/ ReachProxy(o)
Puts(o) == DirectDone(o) \/ Insert(o)

LEMMA StepsSplit ==
  ASSUME NEW o \in Ops, Steps(o)
  PROVE  Waits(o) \/ Finds(o) \/ Moves(o) \/ Puts(o) \/ Reuse(o) \/ Release(o)
  BY DEF Steps, Bounded, Unbounded, Session, Waits, Finds, Moves, Puts

LEMMA TypeStep ==
  ASSUME TypeOK, HeldIsPassed, PoolShape, NEW o \in Ops, Start(o) \/ Steps(o)
  PROVE  TypeOK'
  <1>1. CASE Start(o)
    BY <1>1, SessionsAssumption DEF TypeOK, Start, Become, lock, ends, ghosts, Ops, Hops
  <1>2. CASE Waits(o)
    <2>1. CASE OpenDirect(o) \/ DirectFails(o) \/ Miss(o) \/ ViaDone(o) \/ ReadFails(o)
      BY <2>1 DEF TypeOK, OpenDirect, DirectFails, Miss, ViaDone, ReadFails, Become, Fails, lock, ends, ghosts
    <2>2. CASE ReachTarget(o) \/ HopFails(o) \/ TargetDone(o) \/ TestDone(o) \/ TestFails(o)
      BY <2>2 DEF TypeOK, ReachTarget, HopFails, TargetDone, TestDone, TestFails, Become, Fails, lock, ends, ghosts
    <2>3. CASE o \in Connects /\ (KeyTrusted(o) \/ KeyChanged(o) \/ HostKeyTimeout(o))
      BY <2>3 DEF TypeOK, KeyTrusted, KeyChanged, HostKeyTimeout, Become, Fails, lock, ends, ghosts
    <2>4. CASE o \in Connects /\ HostKeyRespond(o)
      BY <2>4 DEF TypeOK, HostKeyRespond, Become, lock, ends, ghosts
    <2>5. CASE o \in Connects /\ (Store(o) \/ StartRelay(o) \/ AttachRelay(o))
      BY <2>5 DEF TypeOK, Store, StartRelay, AttachRelay, Become, walk, lock, ends, ghosts
    <2>6. CASE o \in Connects /\ (ExitFails(o) \/ Disconnect(o))
      BY <2>6 DEF TypeOK, ExitFails, Disconnect, Become, Fails, lock, ends, ghosts
    <2> QED
      BY <1>2, <2>1, <2>2, <2>3, <2>4, <2>5, <2>6 DEF Waits, Session
  <1>3. CASE Finds(o)
    <2>1. \A b \in DOMAIN pool : Over(b) \in SUBSET Links
      BY DEF TypeOK, Over, Entry
    <2>2. ASSUME NEW b, NEW to \in {"via", "opening"}, ReadEntry(o, b, to) PROVE TypeOK'
      <3>1. CASE b \in DOMAIN pool
        BY <2>1, <2>2, <3>1 DEF TypeOK, ReadEntry, Tunnel, Become, ends, ghosts
      <3>2. CASE b \notin DOMAIN pool
        BY <2>2, <3>2 DEF TypeOK, ReadEntry, Fails, Become, ends, ghosts
      <3> QED
        BY <3>1, <3>2
    <2> QED
      BY <1>3, <2>2 DEF Finds, Lookup, OpenChannel, RetryTls
  <1>4. CASE Moves(o)
    <2>1. CASE ChannelOpened(o)
      BY <2>1 DEF TypeOK, ChannelOpened, Advance, Become, ends, ghosts
    <2>2. CASE ReachProxy(o)
      <3>1. (IF Hop(o) = Command THEN {} ELSE under[o]) \in SUBSET Links
        BY DEF TypeOK
      <3> QED
        BY <2>2, <3>1 DEF TypeOK, ReachProxy, Advance, Become, Tunnel, lock, ends, ghosts
    <2> QED
      BY <1>4, <2>1, <2>2 DEF Moves
  <1>5. CASE Puts(o)
    <2>1. Hop(o) \in Bastions
      BY <1>5 DEF Puts, DirectDone, Insert, HeldIsPassed, AtBastion
    <2>2. ASSUME NEW links \in SUBSET Links, PutLink(o, links)
          PROVE  /\ DOMAIN pool' \subseteq Bastions /\ pool' \in [DOMAIN pool' -> Entry]
                 /\ base' \in [Links -> SUBSET Links] /\ under' \in [Ops -> SUBSET Links]
                 /\ held' \in [Ops -> SUBSET Bastions] /\ raced' \subseteq Bastions
                 /\ pos' \in [Ops -> Nat \ {0}] /\ pc' = [pc EXCEPT ![o] = "hop"]
      <3>1. <<o, Hop(o)>> \in Links
        BY <2>1 DEF Links
      <3>2. DOMAIN pool' = DOMAIN pool \cup {Hop(o)}
        BY <2>2 DEF PutLink
      <3>3. ASSUME NEW b \in DOMAIN pool' PROVE pool'[b] \in Entry
        BY <2>2, <3>1, <3>2 DEF PutLink, TypeOK, Entry
      <3>4. pool' \in [DOMAIN pool' -> Entry]
        BY <2>2, <3>2, <3>3 DEF PutLink
      <3>5. base' \in [Links -> SUBSET Links]
        BY <2>2, <3>1 DEF PutLink, TypeOK
      <3>6. under' \in [Ops -> SUBSET Links]
        BY <2>2, <3>1 DEF PutLink, Tunnel, TypeOK
      <3>7. held' \in [Ops -> SUBSET Bastions] /\ raced' \subseteq Bastions
        BY <2>1, <2>2 DEF PutLink, TypeOK
      <3>8. pos' \in [Ops -> Nat \ {0}] /\ pc' = [pc EXCEPT ![o] = "hop"]
        BY <2>2 DEF PutLink, Advance, Become, TypeOK
      <3> QED
        BY <2>1, <3>2, <3>4, <3>5, <3>6, <3>7, <3>8 DEF TypeOK
    <2>3. CASE DirectDone(o)
      BY <2>2, <2>3 DEF TypeOK, DirectDone, ends
    <2>4. CASE Insert(o)
      <3>1. under[o] \in SUBSET Links
        BY DEF TypeOK
      <3> QED
        BY <2>2, <2>4, <3>1 DEF TypeOK, Insert, lock, ends
    <2> QED
      BY <1>5, <2>3, <2>4 DEF Puts
  <1>6. CASE Reuse(o)
    <2>1. Hop(o) \in Bastions /\ Hop(o) \in DOMAIN pool
      BY <1>6 DEF Reuse, AtBastion
    <2>2. Over(Hop(o)) \in SUBSET Links
      BY <2>1 DEF TypeOK, Over, Entry
    <2>3. pool' \in [DOMAIN pool -> Entry] /\ DOMAIN pool' = DOMAIN pool
      <3>1. PICK e : e = [pool[Hop(o)] EXCEPT !.refs = @ + 1]
        OBVIOUS
      <3>2. pool[Hop(o)] \in Entry
        BY <2>1 DEF TypeOK
      <3>3. e \in Entry
        BY <3>1, <3>2 DEF Entry
      <3>4. pool' = [pool EXCEPT ![Hop(o)] = e]
        BY <1>6, <3>1 DEF Reuse
      <3> QED
        BY <2>1, <3>3, <3>4 DEF TypeOK
    <2>4. pos' \in [Ops -> Nat \ {0}] /\ pc' = [pc EXCEPT ![o] = "hop"]
      BY <1>6 DEF Reuse, Advance, Become, TypeOK
    <2> QED
      BY <1>6, <2>1, <2>2, <2>3, <2>4 DEF TypeOK, Reuse, Tunnel, lock, ends, ghosts
  <1>7. CASE Release(o)
    <2> DEFINE gone == {b \in DOMAIN pool : b \in held[o] /\ pool[b].refs = 1}
    <2>1. DOMAIN pool' = DOMAIN pool \ gone
      BY <1>7 DEF Release
    <2>2. ASSUME NEW b \in DOMAIN pool' PROVE pool'[b] \in Entry
      <3>1. b \in DOMAIN pool /\ pool[b] \in Entry /\ pool[b].refs >= 1
        BY <2>1 DEF TypeOK, PoolShape
      <3>2. [pool[b] EXCEPT !.refs = @ - 1] \in Entry
        BY <3>1 DEF Entry
      <3> QED
        BY <1>7, <2>1, <3>1, <3>2 DEF Release
    <2>3. pool' \in [DOMAIN pool' -> Entry]
      BY <1>7, <2>1, <2>2 DEF Release
    <2>4. dead' \subseteq Links
      BY <1>7 DEF Release, TypeOK, Entry
    <2> QED
      BY <1>7, <2>1, <2>3, <2>4 DEF TypeOK, Release, Become, lock, ends
  <1> QED
    BY <1>1, <1>2, <1>3, <1>4, <1>5, <1>6, <1>7, StepsSplit

-----------------------------------------------------------------------------
OthersStay(o) ==
    \A a \in Ops \ {o} : pc'[a] = pc[a] /\ chain'[a] = chain[a] /\ pos'[a] = pos[a]
                       /\ held'[a] = held[a] /\ under'[a] = under[a]

LEMMA WaitsLeaves ==
  ASSUME TypeOK, NEW o \in Ops, Waits(o)
  PROVE  /\ UNCHANGED <<chain, pos, held, under, pool, base, raced, dead>>
         /\ OthersStay(o)
         /\ pc'[o] = "idle" => pc[o] = "idle"
         /\ pc'[o] = "direct" => AtBastion(o) \/ pc[o] = "direct"
         /\ pc'[o] \in Standing => pc[o] \in Standing \/ Intact(o)
  <1>1. CASE OpenDirect(o) \/ DirectFails(o) \/ Miss(o) \/ ViaDone(o) \/ ReadFails(o)
    BY <1>1 DEF TypeOK, OthersStay, Standing, OpenDirect, DirectFails, Miss, ViaDone, ReadFails, Become, Fails, ghosts
  <1>2. CASE ReachTarget(o) \/ HopFails(o) \/ TargetDone(o) \/ TestDone(o) \/ TestFails(o)
    BY <1>2 DEF TypeOK, OthersStay, Standing, ReachTarget, HopFails, TargetDone, TestDone, TestFails, Become, Fails, ghosts
  <1>3. CASE KeyTrusted(o) \/ KeyChanged(o) \/ HostKeyRespond(o) \/ HostKeyTimeout(o)
    BY <1>3 DEF TypeOK, OthersStay, Standing, KeyTrusted, KeyChanged, HostKeyRespond, HostKeyTimeout, Become, Fails, ghosts
  <1>4. CASE Store(o) \/ StartRelay(o) \/ AttachRelay(o) \/ ExitFails(o) \/ Disconnect(o)
    BY <1>4 DEF TypeOK, OthersStay, Standing, Store, StartRelay, AttachRelay, ExitFails, Disconnect, Become, Fails, walk, ghosts
  <1> QED
    BY <1>1, <1>2, <1>3, <1>4 DEF Waits, Session

LEMMA FindsLeaves ==
  ASSUME TypeOK, NEW o \in Ops, Finds(o)
  PROVE  /\ UNCHANGED <<chain, pos, held, pool, base, raced, dead>>
         /\ OthersStay(o)
         /\ pc'[o] \notin Standing \cup {"idle", "direct"}
  <1>1. ASSUME NEW b, NEW to \in {"via", "opening"}, ReadEntry(o, b, to)
        PROVE  /\ UNCHANGED <<chain, pos, held, pool, base, raced, dead>>
               /\ OthersStay(o)
               /\ pc'[o] \notin Standing \cup {"idle", "direct"}
    BY <1>1 DEF TypeOK, OthersStay, Standing, ReadEntry, Tunnel, Become, Fails, ghosts
  <1> QED
    BY <1>1 DEF Finds, Lookup, OpenChannel, RetryTls

LEMMA MovesLeaves ==
  ASSUME TypeOK, NEW o \in Ops, Moves(o)
  PROVE  /\ UNCHANGED <<chain, held, pool, base, raced, dead>>
         /\ OthersStay(o)
         /\ pos'[o] = pos[o] + 1 /\ pc'[o] = "hop"
  BY DEF TypeOK, OthersStay, Moves, ChannelOpened, ReachProxy, Advance, Become, Tunnel, ghosts

(* A bastion is counted and passed in one step.                            *)
Counts(o) == Puts(o) \/ Reuse(o)
LEMMA CountsLeaves ==
  ASSUME TypeOK, HeldIsPassed, NEW o \in Ops, Counts(o)
  PROVE  /\ AtBastion(o) /\ Hop(o) \in Bastions
         /\ UNCHANGED <<chain, dead>> /\ raced \subseteq raced'
         /\ OthersStay(o)
         /\ held' = [held EXCEPT ![o] = @ \cup {Hop(o)}]
         /\ pos'[o] = pos[o] + 1 /\ pc'[o] = "hop"
  <1>1. AtBastion(o) /\ Hop(o) \in Bastions
    BY DEF Counts, Puts, Reuse, DirectDone, Insert, HeldIsPassed, AtBastion
  <1>2. CASE Reuse(o)
    BY <1>1, <1>2 DEF TypeOK, OthersStay, Reuse, Advance, Become, Tunnel, ghosts
  <1>3. CASE Puts(o)
    <2>1. ASSUME NEW links, PutLink(o, links)
          PROVE  OthersStay(o) \/ chain # chain'
      BY <2>1 DEF TypeOK, OthersStay, PutLink, Advance, Become, Tunnel
    <2> QED
      BY <1>1, <1>3, <2>1 DEF TypeOK, Puts, DirectDone, Insert, PutLink, Advance, Become
  <1> QED
    BY <1>1, <1>2, <1>3 DEF Counts

LEMMA ReleaseLeaves ==
  ASSUME TypeOK, NEW o \in Ops, Release(o)
  PROVE  /\ UNCHANGED <<chain, pos, under, base, raced>>
         /\ OthersStay(o)
         /\ held' = [held EXCEPT ![o] = {}]
         /\ pc[o] = "releasing" /\ pc'[o] = "done"
  BY DEF TypeOK, OthersStay, Release, Become

LEMMA StartLeaves ==
  ASSUME TypeOK, NEW o \in Ops, Start(o)
  PROVE  /\ UNCHANGED <<pos, held, under, pool, base, raced, dead>>
         /\ OthersStay(o)
         /\ pc[o] = "idle" /\ pc'[o] = "hop"
         /\ Once(chain'[o])
  BY SessionsAssumption DEF TypeOK, OthersStay, Start, Become, Once, Ops, ghosts

LEMMA PassedStep ==
  ASSUME TypeOK, TypeOK', HeldIsPassed, NEW o \in Ops, Start(o) \/ Steps(o)
  PROVE  HeldIsPassed'
  <1> DEFINE Passed(a) == /\ Once(chain[a])
                          /\ pc[a] = "idle" => held[a] = {}
                          /\ pc[a] = "direct" => AtBastion(a)
                          /\ \A b \in held[a] : \E i \in DOMAIN chain[a] : i < pos[a] /\ chain[a][i] = b
  <1>1. OthersStay(o)
    BY StepsSplit, StartLeaves, WaitsLeaves, FindsLeaves, MovesLeaves, CountsLeaves, ReleaseLeaves DEF Counts
  <1>2. \A a \in Ops \ {o} : Passed(a)'
    BY <1>1 DEF HeldIsPassed, OthersStay, AtBastion, AtTarget, Hop, Once
  <1>3. Passed(o)'
    <2>1. CASE Start(o)
      BY <2>1, StartLeaves DEF HeldIsPassed
    <2>2. CASE Waits(o)
      BY <2>2, WaitsLeaves DEF HeldIsPassed, AtBastion, AtTarget, Hop, Once
    <2>3. CASE Finds(o)
      BY <2>3, FindsLeaves DEF HeldIsPassed, Once
    <2>4. CASE Moves(o)
      <3>1. pos[o] \in Nat /\ pos'[o] = pos[o] + 1
        BY <2>4, MovesLeaves DEF TypeOK
      <3>2. \A i \in DOMAIN chain[o] : i < pos[o] => i < pos'[o]
        BY <3>1 DEF TypeOK
      <3> QED
        BY <2>4, <3>2, MovesLeaves DEF HeldIsPassed, Once
    <2>5. CASE Counts(o)
      <3>1. pos[o] \in DOMAIN chain[o] /\ chain[o][pos[o]] = Hop(o)
        BY <2>5, CountsLeaves DEF AtBastion, AtTarget, Hop, TypeOK
      <3>2. \A i \in DOMAIN chain[o] : i <= pos[o] => i < pos'[o]
        BY <2>5, CountsLeaves DEF TypeOK
      <3>3. held'[o] = held[o] \cup {Hop(o)}
        BY <2>5, CountsLeaves DEF TypeOK
      <3>4. pos[o] <= pos[o] /\ \A i \in DOMAIN chain[o] : i < pos[o] => i <= pos[o]
        BY DEF TypeOK
      <3> QED
        BY <2>5, <3>1, <3>2, <3>3, <3>4, CountsLeaves DEF HeldIsPassed, Once
    <2>6. CASE Release(o)
      BY <2>6, ReleaseLeaves DEF HeldIsPassed, TypeOK, Once
    <2> QED
      BY <2>1, <2>2, <2>3, <2>4, <2>5, <2>6, StepsSplit DEF Counts
  <1> QED
    BY <1>2, <1>3 DEF HeldIsPassed

-----------------------------------------------------------------------------
(* What Release leaves in the pool.                                        *)
LEMMA ReleasedPool ==
  ASSUME TypeOK, PoolShape, NEW o \in Ops, Release(o)
  PROVE  /\ DOMAIN pool' = {b \in DOMAIN pool : b \in held[o] => pool[b].refs # 1}
         /\ \A b \in DOMAIN pool' : /\ b \notin held[o] => pool'[b] = pool[b]
                                    /\ b \in held[o] => /\ pool'[b].refs = pool[b].refs - 1
                                                        /\ pool'[b].link = pool[b].link
         /\ \A l \in dead' \ dead : \E b \in held[o] \cap DOMAIN pool :
                                        pool[b].link = l /\ pool[b].refs = 1
  <1>1. DOMAIN pool' = {b \in DOMAIN pool : b \in held[o] => pool[b].refs # 1}
    BY DEF Release
  <1>2. ASSUME NEW b \in DOMAIN pool'
        PROVE  /\ b \notin held[o] => pool'[b] = pool[b]
               /\ b \in held[o] => /\ pool'[b].refs = pool[b].refs - 1
                                   /\ pool'[b].link = pool[b].link
    <2>1. pool[b] \in Entry /\ b \in DOMAIN pool
      BY <1>1, <1>2 DEF TypeOK
    <2>2. pool'[b] = IF b \in held[o] THEN [pool[b] EXCEPT !.refs = @ - 1] ELSE pool[b]
      BY <1>1, <1>2 DEF Release
    <2>3. PICK e : e = [pool[b] EXCEPT !.refs = @ - 1]
      OBVIOUS
    <2>4. e.refs = pool[b].refs - 1 /\ e.link = pool[b].link
      BY <2>1, <2>3 DEF Entry
    <2> QED
      BY <2>2, <2>3, <2>4
  <1>3. \A l \in dead' \ dead : \E b \in held[o] \cap DOMAIN pool : pool[b].link = l /\ pool[b].refs = 1
    BY DEF Release
  <1> QED
    BY <1>1, <1>2, <1>3

(* What inserting or reusing an entry leaves in the pool.                  *)
LEMMA CountedPool ==
  ASSUME TypeOK, HeldIsPassed, NEW o \in Ops, Counts(o)
  PROVE  /\ DOMAIN pool' = DOMAIN pool \cup {Hop(o)}
         /\ \A b \in DOMAIN pool \ {Hop(o)} : pool'[b] = pool[b]
         /\ \/ /\ Hop(o) \in DOMAIN pool /\ UNCHANGED raced
               /\ pool'[Hop(o)].refs = pool[Hop(o)].refs + 1 /\ pool'[Hop(o)].link = pool[Hop(o)].link
            \/ /\ pool'[Hop(o)].refs = 1 /\ pool'[Hop(o)].link = <<o, Hop(o)>>
               /\ raced' = raced \cup ({Hop(o)} \cap DOMAIN pool)
  <1>1. CASE Reuse(o)
    <2>1. Hop(o) \in DOMAIN pool /\ pool[Hop(o)] \in Entry
      BY <1>1 DEF Reuse, TypeOK
    <2>2. pool' = [pool EXCEPT ![Hop(o)] = [pool[Hop(o)] EXCEPT !.refs = @ + 1]] /\ UNCHANGED raced
      BY <1>1 DEF Reuse, ghosts
    <2>3. PICK e : e = [pool[Hop(o)] EXCEPT !.refs = @ + 1]
      OBVIOUS
    <2>4. e.refs = pool[Hop(o)].refs + 1 /\ e.link = pool[Hop(o)].link
      BY <2>1, <2>3 DEF Entry
    <2>5. pool' = [pool EXCEPT ![Hop(o)] = e]
      BY <2>2, <2>3
    <2> QED
      BY <2>1, <2>2, <2>4, <2>5 DEF TypeOK
  <1>2. CASE Puts(o)
    <2>1. ASSUME NEW links, PutLink(o, links)
          PROVE  /\ DOMAIN pool' = DOMAIN pool \cup {Hop(o)}
                 /\ \A b \in DOMAIN pool \ {Hop(o)} : pool'[b] = pool[b]
                 /\ pool'[Hop(o)] = [link |-> <<o, Hop(o)>>, refs |-> 1]
                 /\ raced' = raced \cup ({Hop(o)} \cap DOMAIN pool)
      BY <2>1 DEF PutLink
    <2> QED
      BY <1>2, <2>1 DEF Puts, DirectDone, Insert
  <1> QED
    BY <1>1, <1>2 DEF Counts

(* The counted bastion is new to the call.                                 *)
LEMMA CountedIsNew ==
  ASSUME TypeOK, HeldIsPassed, NEW o \in Ops, Counts(o)
  PROVE  Hop(o) \notin held[o]
  <1>1. pos[o] \in DOMAIN chain[o] /\ chain[o][pos[o]] = Hop(o) /\ Hop(o) \in Bastions
    BY CountsLeaves DEF AtBastion, AtTarget, Hop, TypeOK
  <1>2. \A i \in DOMAIN chain[o] : chain[o][i] = Hop(o) => i = pos[o]
    BY <1>1 DEF HeldIsPassed, Once
  <1>3. ~(pos[o] < pos[o])
    BY DEF TypeOK
  <1> QED
    BY <1>2, <1>3 DEF HeldIsPassed

LEMMA ShapeStep ==
  ASSUME TypeOK, HeldIsPassed, PoolShape, NEW o \in Ops, Start(o) \/ Steps(o)
  PROVE  PoolShape'
  <1>1. CASE Counts(o)
    <2> SUFFICES ASSUME NEW b \in DOMAIN pool' PROVE pool'[b].refs >= 1 /\ pool'[b].link[2] = b
      BY DEF PoolShape
    <2>1. CASE b # Hop(o)
      <3>1. b \in DOMAIN pool /\ pool'[b] = pool[b]
        BY <1>1, <2>1, CountedPool
      <3> QED
        BY <3>1 DEF PoolShape
    <2>2. CASE b = Hop(o)
      <3>1. b \in DOMAIN pool => pool[b].refs \in Nat
        BY DEF TypeOK, Entry
      <3>2. \/ b \in DOMAIN pool /\ pool'[b].refs = pool[b].refs + 1 /\ pool'[b].link = pool[b].link
            \/ pool'[b].refs = 1 /\ pool'[b].link = <<o, b>>
        BY <1>1, <2>2, CountedPool
      <3> QED
        BY <3>1, <3>2 DEF PoolShape
    <2> QED
      BY <2>1, <2>2
  <1>2. CASE Release(o)
    <2> SUFFICES ASSUME NEW b \in DOMAIN pool' PROVE pool'[b].refs >= 1 /\ pool'[b].link[2] = b
      BY DEF PoolShape
    <2>1. b \in DOMAIN pool /\ (b \in held[o] => pool[b].refs # 1)
      <3>1. DOMAIN pool' = {x \in DOMAIN pool : x \in held[o] => pool[x].refs # 1}
        BY <1>2, ReleasedPool
      <3> QED
        BY <3>1
    <2>2. /\ b \notin held[o] => pool'[b] = pool[b]
          /\ b \in held[o] => pool'[b].refs = pool[b].refs - 1 /\ pool'[b].link = pool[b].link
      BY <1>2, ReleasedPool
    <2>3. pool[b].refs \in Nat /\ pool[b].refs >= 1 /\ pool[b].link[2] = b
      BY <2>1 DEF TypeOK, Entry, PoolShape
    <2> QED
      BY <2>1, <2>2, <2>3
  <1>3. CASE UNCHANGED pool
    BY <1>3 DEF PoolShape
  <1> QED
    BY <1>1, <1>2, <1>3, StepsSplit, StartLeaves, WaitsLeaves, FindsLeaves, MovesLeaves DEF Counts

LEMMA CountStep ==
  ASSUME TypeOK, HeldIsPassed, PoolShape, CountIsExact, NEW o \in Ops, Start(o) \/ Steps(o)
  PROVE  CountIsExact'
  <1> DEFINE Exact(b) == /\ Refs(b) <= Cardinality(Holders(b))
                         /\ b \notin raced => Refs(b) = Cardinality(Holders(b))
  <1> SUFFICES ASSUME NEW b \in Bastions PROVE Exact(b)'
    BY DEF CountIsExact
  <1>0. Exact(b) /\ Refs(b) \in Nat /\ Cardinality(Holders(b)) \in Nat
    BY HoldersFinite DEF CountIsExact, Refs, TypeOK, Entry
  <1>1. CASE Counts(o)
    <2>1. CASE b # Hop(o)
      <3>1. Holders(b)' = Holders(b)
        BY <1>1, <2>1, CountsLeaves, CountedIsNew, AddHolder
      <3>2. Refs(b)' = Refs(b)
        BY <1>1, <2>1, CountedPool DEF Refs
      <3> QED
        BY <1>0, <1>1, <3>1, <3>2, CountsLeaves
    <2>2. CASE b = Hop(o)
      <3>1. Cardinality(Holders(b)') = Cardinality(Holders(b)) + 1
        BY <1>1, <2>2, CountsLeaves, CountedIsNew, AddHolder
      <3>2. \/ UNCHANGED raced /\ Refs(b)' = Refs(b) + 1
            \/ Refs(b)' = 1 /\ (b \in raced' \/ (Refs(b) = 0 /\ UNCHANGED raced))
        <4>1. /\ DOMAIN pool' = DOMAIN pool \cup {b}
              /\ \/ b \in DOMAIN pool /\ UNCHANGED raced /\ pool'[b].refs = pool[b].refs + 1
                 \/ pool'[b].refs = 1 /\ raced' = raced \cup ({b} \cap DOMAIN pool)
          BY <1>1, <2>2, CountedPool
        <4> QED
          BY <4>1 DEF Refs
      <3> QED
        BY <1>0, <3>1, <3>2
    <2> QED
      BY <2>1, <2>2
  <1>2. CASE Release(o)
    <2>1. UNCHANGED raced
      BY <1>2, ReleaseLeaves
    <2>2. CASE b \notin held[o]
      <3>1. Holders(b)' = Holders(b)
        BY <1>2, <2>2, ReleaseLeaves, DropHolder
      <3>2. Refs(b)' = Refs(b)
        BY <1>2, <2>2, ReleasedPool DEF Refs
      <3> QED
        BY <1>0, <2>1, <3>1, <3>2
    <2>3. CASE b \in held[o]
      <3>1. Cardinality(Holders(b)') = Cardinality(Holders(b)) - 1
        BY <1>2, <2>3, ReleaseLeaves, DropHolder
      <3>2. CASE b \in DOMAIN pool
        <4>1. b \in DOMAIN pool' <=> pool[b].refs # 1
          <5>1. DOMAIN pool' = {x \in DOMAIN pool : x \in held[o] => pool[x].refs # 1}
            BY <1>2, ReleasedPool
          <5> QED
            BY <2>3, <3>2, <5>1
        <4>2. b \in DOMAIN pool' => pool'[b].refs = pool[b].refs - 1
          BY <1>2, <2>3, ReleasedPool
        <4>3. Refs(b)' = Refs(b) - 1
          BY <1>0, <3>2, <4>1, <4>2 DEF Refs
        <4> QED
          BY <1>0, <2>1, <3>1, <4>3
      <3>3. CASE b \notin DOMAIN pool
        <4>1. Refs(b)' = 0 /\ Refs(b) = 0
          BY <1>2, <3>3, ReleasedPool DEF Refs
        <4>2. Cardinality(Holders(b)') \in Nat /\ 0 <= Cardinality(Holders(b)')
          <5>1. o \in Holders(b) /\ IsFiniteSet(Holders(b))
            BY <2>3, HoldersFinite DEF Holders
          <5>2. Cardinality(Holders(b)) # 0
            BY <5>1, FS_EmptySet
          <5> QED
            BY <1>0, <3>1, <5>2
        <4>3. b \in raced
          <5>1. o \in Holders(b) /\ IsFiniteSet(Holders(b))
            BY <2>3, HoldersFinite DEF Holders
          <5> QED
            BY <1>0, <4>1, <5>1, FS_EmptySet
        <4> QED
          BY <2>1, <4>1, <4>2, <4>3
      <3> QED
        BY <3>2, <3>3
    <2> QED
      BY <2>2, <2>3
  <1>3. CASE UNCHANGED <<pool, held, raced>>
    BY <1>0, <1>3 DEF Refs, Holders
  <1> QED
    BY <1>1, <1>2, <1>3, StepsSplit, StartLeaves, WaitsLeaves, FindsLeaves, MovesLeaves DEF Counts

LEMMA StandsStep ==
  ASSUME TypeOK, HeldIsPassed, PoolShape, CountIsExact, TargetStands, NEW o \in Ops, Start(o) \/ Steps(o)
  PROVE  TargetStands'
  <1> DEFINE Stands(a) == pc[a] \in Standing => \A l \in under[a] \cap dead : l[2] \notin held[a] \/ l[2] \in raced
  <1> SUFFICES ASSUME NEW a \in Ops PROVE Stands(a)'
    BY DEF TargetStands
  <1>0. Stands(a)
    BY DEF TargetStands
  <1>1. CASE Waits(o)
    BY <1>0, <1>1, WaitsLeaves DEF OthersStay, Intact
  <1>2. CASE Start(o) \/ Finds(o) \/ Moves(o) \/ Counts(o)
    <2>1. OthersStay(o) /\ UNCHANGED dead /\ raced \subseteq raced' /\ pc'[o] \notin Standing
      BY <1>2, StartLeaves, FindsLeaves, MovesLeaves, CountsLeaves DEF Standing
    <2> QED
      BY <1>0, <2>1 DEF OthersStay
  <1>3. CASE Release(o)
    <2>1. CASE a = o
      BY <1>3, <2>1, ReleaseLeaves DEF Standing
    <2>2. CASE a # o
      <3>1. under'[a] = under[a] /\ held'[a] = held[a] /\ pc'[a] = pc[a] /\ UNCHANGED raced
        BY <1>3, <2>2, ReleaseLeaves DEF OthersStay
      <3> SUFFICES ASSUME NEW l \in dead' \ dead PROVE l[2] \notin held[a] \/ l[2] \in raced
        BY <1>0, <3>1
      <3>2. PICK b \in held[o] \cap DOMAIN pool : pool[b].link = l /\ pool[b].refs = 1
        BY <1>3, ReleasedPool
      <3>3. l[2] = b /\ b \in Bastions
        BY <3>2 DEF PoolShape, TypeOK
      <3> SUFFICES ASSUME b \notin raced, b \in held[a] PROVE FALSE
        BY <3>3
      <3>4. Cardinality(Holders(b)) = 1
        BY <3>2, <3>3 DEF CountIsExact, Refs
      <3>5. o \in Holders(b) /\ a \in Holders(b) /\ IsFiniteSet(Holders(b))
        BY <3>2, HoldersFinite DEF Holders
      <3>6. Cardinality(Holders(b) \ {a}) = 0 /\ IsFiniteSet(Holders(b) \ {a})
        BY <3>4, <3>5, FS_RemoveElement
      <3> QED
        BY <2>2, <3>5, <3>6, FS_EmptySet
    <2> QED
      BY <2>1, <2>2
  <1> QED
    BY <1>1, <1>2, <1>3, StepsSplit DEF Counts

LEMMA Stuttering == IInv /\ UNCHANGED vars => IInv'
  <1> SUFFICES ASSUME IInv, UNCHANGED vars PROVE IInv'
    OBVIOUS
  <1> USE DEF vars, walk, lock, ends, ghosts
  <1>1. TypeOK'
    BY DEF IInv, TypeOK
  <1>2. HeldIsPassed'
    BY DEF IInv, HeldIsPassed, AtBastion, AtTarget, Hop, Once
  <1>3. PoolShape'
    BY DEF IInv, PoolShape
  <1>4. \A b \in Bastions : Refs(b)' = Refs(b) /\ Holders(b)' = Holders(b)
    BY DEF Refs, Holders
  <1>5. CountIsExact'
    BY <1>4 DEF IInv, CountIsExact
  <1>6. TargetStands'
    BY DEF IInv, TargetStands
  <1> QED
    BY <1>1, <1>2, <1>3, <1>5, <1>6 DEF IInv

LEMMA Step == IInv /\ [Next]_vars => IInv'
  <1>1. ASSUME IInv, NEW o \in Ops, Start(o) \/ Steps(o) PROVE IInv'
    <2>1. TypeOK'
      BY <1>1, TypeStep DEF IInv
    <2> QED
      BY <1>1, <2>1, PassedStep, ShapeStep, CountStep, StandsStep DEF IInv
  <1> QED
    BY <1>1, NextSplits, Stuttering

(* The inductive invariant holds in every reachable state.                 *)
THEOREM Invariance == Spec => []IInv
  BY InitIInv, Step, PTL DEF Spec

(* Type correctness of the pool, its lock and the calls.                   *)
THEOREM TypeCorrect == Spec => []TypeOK
  BY Invariance, PTL DEF IInv

(* However chains share bastions and fail half way, the count of a bastion *)
(* is that of the calls counted there, and never more.                     *)
THEOREM CountsAreExact == Spec => []CountIsExact
  BY Invariance, PTL DEF IInv

(* No release closes a bastion under a session counted at it.              *)
THEOREM CountedTunnelsStand == Spec => []CountedTunnelStands
  <1>1. IInv => CountedTunnelStands
    BY DEF IInv, TargetStands, Standing, CountedTunnelStands
  <1> QED
    BY <1>1, Invariance, PTL

-----------------------------------------------------------------------------
(* Who holds the pool's lock, and what a session has while it is up.       *)
LockInv ==
    /\ \A o \in Ops : writer = o <=> pc[o] = "direct"
    /\ \A o \in Ops : o \in readers <=> pc[o] \in {"via", "opening"}
    /\ writer = NoOne \/ readers = {}

SessionInv ==
    \A o \in Connects :
        /\ o \in sessions <=> pc[o] \in {"exiting", "up"}
        /\ pc[o] = "asking" => o \in asking
        /\ relay[o] = "attached" => pc[o] = "up"
        /\ relay[o] = "loose" => pc[o] \in {"exiting", "failed"}
        /\ relay[o] = "cancelled" => pc[o] \in {"releasing", "done"}

(* A call that waits to give its bastions back.                            *)
ReleaseWaits(o) == pc[o] = "releasing" /\ held[o] # {} /\ ~Free

(* It waits for another call that is connecting: to a first bastion or to  *)
(* a proxy behind one, with no time-out, or through a bastion, with one.   *)
WaitsForConnecting ==
    \A o \in Ops : ReleaseWaits(o) => \E p \in Ops \ {o} : pc[p] \in {"direct", "opening", "via"}

LEMMA LockStep ==
  ASSUME TypeOK, LockInv, NEW o \in Ops, Start(o) \/ Steps(o)
  PROVE  LockInv'
  <1> USE DEF lock, walk
  <1>n. NoOne \notin Ops /\ NoOne # o /\ writer \in Ops \cup {NoOne} /\ readers \subseteq Ops
    BY SessionsAssumption DEF TypeOK, Ops
  <1>o. OthersStay(o)
    <2>2. CASE Start(o)
      BY <2>2, StartLeaves
    <2>3. CASE Waits(o) \/ Finds(o) \/ Moves(o) \/ Release(o)
      BY <2>3, WaitsLeaves, FindsLeaves, MovesLeaves, ReleaseLeaves
    <2>4. CASE Reuse(o)
      BY <2>4 DEF TypeOK, OthersStay, Reuse, Advance, Become, Tunnel
    <2>5. CASE Puts(o)
      BY <2>5 DEF TypeOK, OthersStay, Puts, DirectDone, Insert, PutLink, Advance, Become, Tunnel
    <2> QED
      BY <2>2, <2>3, <2>4, <2>5, StepsSplit
  <1>w. /\ writer' = writer \/ (writer = NoOne /\ writer' = o /\ readers = {}) \/ (writer = o /\ writer' = NoOne)
        /\ readers' = readers \/ (writer = NoOne /\ writer' = NoOne /\ readers' = readers \cup {o})
             \/ readers' = readers \ {o}
        /\ writer' = o <=> pc'[o] = "direct"
        /\ o \in readers' <=> pc'[o] \in {"via", "opening"}
    <2>1. CASE OpenDirect(o) \/ DirectDone(o) \/ DirectFails(o)
      BY <1>n, <2>1 DEF LockInv, TypeOK, OpenDirect, DirectDone, DirectFails, PutLink, Advance, Become, Fails, Free
    <2>2. CASE Finds(o)
      <3>1. PICK b : ReadEntry(o, b, "via") \/ ReadEntry(o, b, "opening")
        BY <2>2 DEF Finds, Lookup, OpenChannel, RetryTls
      <3>2. pc[o] \in {"lookup", "hop"}
        BY <2>2 DEF Finds, Lookup, OpenChannel, RetryTls
      <3> QED
        BY <1>n, <3>1, <3>2 DEF LockInv, TypeOK, ReadEntry, Become, Fails
    <2>3. CASE ViaDone(o) \/ ChannelOpened(o) \/ ReadFails(o)
      BY <1>n, <2>3 DEF LockInv, TypeOK, ViaDone, ChannelOpened, ReadFails, Advance, Become, Fails
    <2>4. CASE Start(o) \/ Reuse(o) \/ Insert(o) \/ ReachProxy(o) \/ Release(o)
      BY <1>n, <2>4 DEF LockInv, TypeOK, Start, Reuse, Insert, ReachProxy, Release, PutLink, Advance, Become, Fails
    <2>5. CASE Miss(o) \/ ReachTarget(o) \/ HopFails(o) \/ TargetDone(o) \/ TestDone(o) \/ TestFails(o)
      BY <1>n, <2>5 DEF LockInv, TypeOK, Miss, ReachTarget, HopFails, TargetDone, TestDone, TestFails, Become, Fails
    <2>6. CASE KeyTrusted(o) \/ KeyChanged(o) \/ HostKeyRespond(o) \/ HostKeyTimeout(o)
      BY <1>n, <2>6 DEF LockInv, TypeOK, KeyTrusted, KeyChanged, HostKeyRespond, HostKeyTimeout, Become, Fails
    <2>7. CASE Store(o) \/ StartRelay(o) \/ AttachRelay(o) \/ ExitFails(o) \/ Disconnect(o)
      BY <1>n, <2>7 DEF LockInv, TypeOK, Store, StartRelay, AttachRelay, ExitFails, Disconnect, Become, Fails
    <2> QED
      BY <2>1, <2>2, <2>3, <2>4, <2>5, <2>6, <2>7 DEF Steps, Bounded, Unbounded, Session, Finds
  <1>a. ASSUME NEW a \in Ops \ {o}
        PROVE  /\ writer' = a <=> pc'[a] = "direct"
               /\ a \in readers' <=> pc'[a] \in {"via", "opening"}
    <2>1. pc'[a] = pc[a] /\ (writer = a <=> pc[a] = "direct") /\ (a \in readers <=> pc[a] \in {"via", "opening"})
      BY <1>o DEF LockInv, OthersStay
    <2>2. (writer' = a <=> writer = a) /\ (a \in readers' <=> a \in readers)
      BY <1>n, <1>w
    <2> QED
      BY <2>1, <2>2
  <1>b. writer' = NoOne \/ readers' = {}
    BY <1>n, <1>w DEF LockInv
  <1> QED
    BY <1>a, <1>b, <1>w DEF LockInv

LEMMA SessionStep ==
  ASSUME TypeOK, SessionInv, NEW o \in Ops, Start(o) \/ Steps(o)
  PROVE  SessionInv'
  <1> USE DEF ends, walk
  <1>1. CASE Start(o) \/ Bounded(o) \/ Unbounded(o)
    <2>1. /\ UNCHANGED <<sessions, asking, relay>>
          /\ \A a \in Ops \ {o} : pc'[a] = pc[a]
      <3>1. CASE Finds(o)
        BY <3>1, FindsLeaves DEF OthersStay, Finds, Lookup, OpenChannel, RetryTls, ReadEntry
      <3>2. CASE Start(o) \/ Reuse(o) \/ Insert(o) \/ ReachProxy(o) \/ Release(o) \/ ChannelOpened(o)
        BY <3>2 DEF TypeOK, Start, Reuse, Insert, ReachProxy, Release, ChannelOpened, PutLink, Advance, Become, Fails
      <3>3. CASE OpenDirect(o) \/ DirectDone(o) \/ DirectFails(o) \/ ViaDone(o) \/ ReadFails(o) \/ Miss(o)
        BY <3>3 DEF TypeOK, OpenDirect, DirectDone, DirectFails, ViaDone, ReadFails, Miss, PutLink, Advance, Become, Fails
      <3>4. CASE ReachTarget(o) \/ HopFails(o) \/ TargetDone(o) \/ TestDone(o) \/ TestFails(o)
        BY <3>4 DEF TypeOK, ReachTarget, HopFails, TargetDone, TestDone, TestFails, Become, Fails
      <3> QED
        BY <1>1, <3>1, <3>2, <3>3, <3>4 DEF Bounded, Unbounded, Finds
    <2>2. /\ pc[o] \in {"idle", "hop", "direct", "lookup", "via", "opening", "auth", "testing", "releasing"}
          /\ pc'[o] \notin {"asking", "exiting", "up"}
          /\ pc[o] = "releasing" => pc'[o] = "done"
      <3>1. CASE Finds(o)
        BY <3>1, FindsLeaves DEF Finds, Lookup, OpenChannel, RetryTls, Standing
      <3>2. CASE Start(o) \/ Reuse(o) \/ Insert(o) \/ ReachProxy(o) \/ Release(o) \/ ChannelOpened(o)
        BY <3>2 DEF TypeOK, Start, Reuse, Insert, ReachProxy, Release, ChannelOpened, PutLink, Advance, Become, Fails
      <3>3. CASE OpenDirect(o) \/ DirectDone(o) \/ DirectFails(o) \/ ViaDone(o) \/ ReadFails(o) \/ Miss(o)
        BY <3>3 DEF TypeOK, OpenDirect, DirectDone, DirectFails, ViaDone, ReadFails, Miss, PutLink, Advance, Become, Fails
      <3>4. CASE ReachTarget(o) \/ HopFails(o) \/ TargetDone(o) \/ TestDone(o) \/ TestFails(o)
        BY <3>4 DEF TypeOK, ReachTarget, HopFails, TargetDone, TestDone, TestFails, Become, Fails
      <3> QED
        BY <1>1, <3>1, <3>2, <3>3, <3>4 DEF Bounded, Unbounded, Finds
    <2> QED
      BY <2>1, <2>2 DEF SessionInv, Ops
  <1>2. CASE o \in Connects /\ (KeyTrusted(o) \/ KeyChanged(o) \/ HostKeyTimeout(o))
    BY <1>2 DEF SessionInv, TypeOK, Ops, KeyTrusted, KeyChanged, HostKeyTimeout, Become, Fails
  <1>3. CASE o \in Connects /\ HostKeyRespond(o)
    BY <1>3 DEF SessionInv, TypeOK, Ops, HostKeyRespond, Become
  <1>4. CASE o \in Connects /\ (Store(o) \/ StartRelay(o) \/ AttachRelay(o))
    BY <1>4 DEF SessionInv, TypeOK, Ops, Store, StartRelay, AttachRelay, Become
  <1>5. CASE o \in Connects /\ (ExitFails(o) \/ Disconnect(o))
    BY <1>5 DEF SessionInv, TypeOK, Ops, ExitFails, Disconnect, Become, Fails
  <1> QED
    BY <1>1, <1>2, <1>3, <1>4, <1>5 DEF Steps, Session

LEMMA LockSessionStep ==
  TypeOK /\ LockInv /\ SessionInv /\ [Next]_vars => LockInv' /\ SessionInv'
  <1>1. ASSUME LockInv, SessionInv, UNCHANGED vars PROVE LockInv' /\ SessionInv'
    BY <1>1 DEF LockInv, SessionInv, vars, walk, lock, ends
  <1> QED
    BY <1>1, NextSplits, LockStep, SessionStep

(* The pool's lock is never leaked and never shared: its holders are the   *)
(* calls in the middle of a connection under it, one for writing or any    *)
(* number for reading.  The map of sessions and the relays agree with the  *)
(* calls; a relay that is not stopped is that of a failed connect.         *)
THEOREM LocksAndSessions == Spec => [](LockInv /\ SessionInv)
  <1>1. Init => LockInv /\ SessionInv
    BY SessionsAssumption DEF Init, LockInv, SessionInv, Ops
  <1> QED
    BY <1>1, TypeCorrect, LockSessionStep, PTL DEF Spec

(* What a disconnect can wait for.                                         *)
THEOREM DisconnectWaits == Spec => []WaitsForConnecting
  <1>1. TypeOK /\ LockInv => WaitsForConnecting
    <2> SUFFICES ASSUME TypeOK, LockInv, NEW o \in Ops, ReleaseWaits(o)
                 PROVE  \E p \in Ops \ {o} : pc[p] \in {"direct", "opening", "via"}
      BY DEF WaitsForConnecting
    <2>1. CASE writer # NoOne
      <3>1. writer \in Ops /\ pc[writer] = "direct"
        BY <2>1 DEF TypeOK, LockInv
      <3> QED
        BY <3>1 DEF ReleaseWaits
    <2>2. CASE readers # {}
      <3>1. PICK p \in readers : p \in Ops /\ pc[p] \in {"via", "opening"}
        BY <2>2 DEF TypeOK, LockInv
      <3> QED
        BY <3>1 DEF ReleaseWaits
    <2> QED
      BY <2>1, <2>2 DEF ReleaseWaits, Free
  <1> QED
    BY <1>1, TypeCorrect, LocksAndSessions, PTL
=============================================================================
