------------------------ MODULE TaskSupervisorProofs ------------------------
(***************************************************************************)
(* What TaskSupervisor keeps for every set of tasks and of cancel requests *)
(* and for every bound, proved with TLAPS.                                 *)
(***************************************************************************)
EXTENDS TaskSupervisor, TLAPS

(* A task that nobody assigned yet has no row.                             *)
NewIsAbsent == \A t \in Tasks : assign[t] = "new" => row[t] = "absent"

(* No child runs before the spawn.                                         *)
SpawnStartsChild ==
    \A t \in Tasks : assign[t] \in {"new", "inserted", "refused"} => child[t] = "none"

(* What the waiter did by the time it is at each of its steps.             *)
WaiterProgress ==
    \A t \in Tasks :
        /\ waiter[t] \in {"reaped", "stored", "published", "done"} => child[t] \in Exited
        /\ waiter[t] = "stored" /\ dbErrors = 0 => row[t] \in Terminal
        /\ waiter[t] \in {"published", "done"} =>
              \E e \in published : e.task = t /\ e.kind = FinalStatus(t)

(* A request for a task comes after the row of the task; once it flipped   *)
(* the row, the row stays terminal.                                        *)
RequestProgress ==
    \A c \in Cancels :
        /\ req[c].pc # "unsent" /\ req[c].task \in Tasks => row[req[c].task] # "absent"
        /\ req[c].pc = "flipped" => req[c].task \in Tasks /\ row[req[c].task] \in Terminal

(* The inductive invariant: the five invariants of the model, and the      *)
(* facts above that tie the program counters to the data.                  *)
IInv ==
    /\ TypeOK
    /\ NewIsAbsent
    /\ SpawnStartsChild
    /\ WaiterProgress
    /\ RequestProgress
    /\ RunningIsWatched
    /\ EntryOutlivesChild
    /\ MutexHeldByWriter
    /\ StoredBeforePublished
    /\ EndHasCause

-----------------------------------------------------------------------------
LEMMA InitIInv == Init => IInv
  BY TasksAssumption
     DEF Init, IInv, TypeOK, NewIsAbsent, SpawnStartsChild, WaiterProgress,
         RequestProgress, RunningIsWatched, EntryOutlivesChild, MutexHeldByWriter,
         StoredBeforePublished, EndHasCause, AssignStates, ChildStates, WaiterStates,
         ReaderStates, CancelStates, Event, Kinds, Terminal, Exited, Free, AllSignals

(* A request that goes on.                                                 *)
LEMMA CancelTyped ==
  ASSUME TypeOK, NEW c \in Cancels, NEW to \in CancelStates, req' = [req EXCEPT ![c].pc = to]
  PROVE  req' \in [Cancels -> [pc : CancelStates, task : Tasks \cup {NoTask}, sig : AllSignals]]
  BY DEF TypeOK

(* The type invariant is inductive but for the task of a flip.             *)
LEMMA TypeStep == TypeOK /\ RequestProgress /\ [Next]_vars => TypeOK'
<1> SUFFICES ASSUME TypeOK, RequestProgress, [Next]_vars PROVE TypeOK'
  OBVIOUS
<1> USE TasksAssumption, SignalsAssumption, BoundsAssumption
    DEF TypeOK, AssignStates, ChildStates, WaiterStates, ReaderStates, CancelStates,
        Event, Kinds, Terminal, Exited, Free, requests, process, reading, events, bounds,
        DbError, Publish, FinalStatus, AllSignals
<1>1. ASSUME NEW t \in Tasks, AssignStep(t) PROVE TypeOK'
  <2>1. CASE AssignInsert(t)
    BY <1>1, <2>1 DEF AssignInsert
  <2>2. CASE AssignInsertFails(t)
    BY <1>1, <2>2 DEF AssignInsertFails
  <2>3. CASE Spawn(t)
    BY <1>1, <2>3 DEF Spawn
  <2>4. CASE SpawnFails(t)
    BY <1>1, <2>4 DEF SpawnFails
  <2>5. CASE Register(t)
    BY <1>1, <2>5 DEF Register
  <2>6. CASE AssignReplies(t)
    BY <1>1, <2>6 DEF AssignReplies
  <2> QED
    BY <1>1, <2>1, <2>2, <2>3, <2>4, <2>5, <2>6 DEF AssignStep
<1>2. ASSUME NEW t \in Tasks, ChildStep(t) PROVE TypeOK'
  <2>1. CASE ChildWrites(t)
    BY <1>2, <2>1 DEF ChildWrites
  <2>2. CASE ChildExits(t)
    BY <1>2, <2>2 DEF ChildExits
  <2> QED
    BY <1>2, <2>1, <2>2 DEF ChildStep
<1>3. ASSUME NEW t \in Tasks, ReaderStep(t) PROVE TypeOK'
  <2> HIDE DEF AssignStates, ChildStates, WaiterStates, CancelStates
  <2>1. CASE ReaderStarts(t)
    BY <1>3, <2>1 DEF ReaderStarts
  <2>2. CASE ReaderGivesUp(t)
    BY <1>3, <2>2 DEF ReaderGivesUp
  <2>3. CASE HandshakeSkips(t)
    BY <1>3, <2>3 DEF HandshakeSkips
  <2>4. CASE HandshakeSucceeds(t)
    BY <1>3, <2>4 DEF HandshakeSucceeds
  <2>5. CASE HandshakeFails(t)
    BY <1>3, <2>5 DEF HandshakeFails
  <2>6. CASE PumpReads(t)
    BY <1>3, <2>6 DEF PumpReads
  <2>7. CASE McpPumpDropsEvent(t)
    BY <1>3, <2>7 DEF McpPumpDropsEvent
  <2>8. CASE McpPumpSkips(t)
    BY <1>3, <2>8 DEF McpPumpSkips
  <2>9. CASE PumpEnds(t)
    BY <1>3, <2>9 DEF PumpEnds
  <2>10. CASE ReaderSaveTail(t)
    BY <1>3, <2>10 DEF ReaderSaveTail
  <2>11. CASE ReaderSaveTailFails(t)
    BY <1>3, <2>11 DEF ReaderSaveTailFails
  <2>12. CASE PumpPanics(t)
    BY <1>3, <2>12 DEF PumpPanics
  <2>13. CASE McpPumpBreaks(t)
    BY <1>3, <2>13 DEF McpPumpBreaks
  <2> QED
    BY <1>3, <2>1, <2>2, <2>3, <2>4, <2>5, <2>6, <2>7, <2>8, <2>9, <2>10, <2>11, <2>12,
       <2>13
       DEF ReaderStep
<1>4. ASSUME NEW t \in Tasks, PublishOutput(t) PROVE TypeOK'
  BY <1>4 DEF PublishOutput
<1>5. ASSUME NEW t \in Tasks, WaiterStep(t) PROVE TypeOK'
  <2> HIDE DEF AssignStates, ChildStates, ReaderStates, CancelStates
  <2>1. CASE WaiterReaps(t)
    BY <1>5, <2>1 DEF WaiterReaps
  <2>2. CASE WaiterStores(t)
    BY <1>5, <2>2 DEF WaiterStores
  <2>3. CASE WaiterStoreFails(t)
    BY <1>5, <2>3 DEF WaiterStoreFails
  <2>4. CASE WaiterPublishes(t)
    BY <1>5, <2>4 DEF WaiterPublishes
  <2>5. CASE WaiterRemoves(t)
    BY <1>5, <2>5 DEF WaiterRemoves
  <2> QED
    BY <1>5, <2>1, <2>2, <2>3, <2>4, <2>5 DEF WaiterStep
<1>6. ASSUME NEW c \in Cancels, NEW t \in Tasks \cup {NoTask}, NEW s \in Signals,
             CancelSends(c, t, s)
      PROVE  TypeOK'
  BY <1>6 DEF CancelSends
<1>7. ASSUME NEW c \in Cancels, CancelStep(c) PROVE TypeOK'
  <2> HIDE DEF AssignStates, ChildStates, WaiterStates, ReaderStates
  <2>1. CASE CancelKills(c)
    BY <1>7, <2>1 DEF CancelKills
  <2>2. CASE CancelKillRefused(c)
    BY <1>7, <2>2 DEF CancelKillRefused
  <2>3. CASE CancelLocks(c)
    BY <1>7, <2>3 DEF CancelLocks
  <2>4. CASE CancelWrites(c)
    <3>1. sigs' \in [Tasks -> SUBSET AllSignals]
      BY <1>7, <2>4 DEF CancelWrites
    <3>2. writerTaken' \in [Tasks -> BOOLEAN]
      BY <1>7, <2>4 DEF CancelWrites
    <3>3. req' \in [Cancels -> [pc : CancelStates, task : Tasks \cup {NoTask}, sig : AllSignals]]
      BY <1>7, <2>4 DEF CancelWrites
    <3> QED
      BY <1>7, <2>4, <3>1, <3>2, <3>3 DEF CancelWrites
  <2>5. CASE CancelMisses(c)
    <3>0. req' = [req EXCEPT ![c].pc = "missed"] /\ "missed" \in CancelStates
      BY <2>5 DEF CancelMisses
    <3>1. req' \in [Cancels -> [pc : CancelStates, task : Tasks \cup {NoTask}, sig : AllSignals]]
      BY <1>7, <3>0, CancelTyped
    <3> QED
      BY <1>7, <2>5, <3>1 DEF CancelMisses
  <2>6. CASE CancelFlips(c)
    <3>0. req' = [req EXCEPT ![c].pc = "flipped"] /\ "flipped" \in CancelStates
      BY <2>6 DEF CancelFlips
    <3>1. req' \in [Cancels -> [pc : CancelStates, task : Tasks \cup {NoTask}, sig : AllSignals]]
      BY <1>7, <3>0, CancelTyped
    <3> QED
      BY <1>7, <2>6, <3>1 DEF CancelFlips
  <2>7. CASE CancelUnknown(c)
    <3>0. req' = [req EXCEPT ![c].pc = "error"] /\ "error" \in CancelStates
      BY <2>7 DEF CancelUnknown
    <3>1. req' \in [Cancels -> [pc : CancelStates, task : Tasks \cup {NoTask}, sig : AllSignals]]
      BY <1>7, <3>0, CancelTyped
    <3> QED
      BY <1>7, <2>7, <3>1 DEF CancelUnknown
  <2>8. CASE CancelFlipFails(c)
    <3>0. req' = [req EXCEPT ![c].pc = "error"] /\ "error" \in CancelStates
      BY <2>8 DEF CancelFlipFails
    <3>1. req' \in [Cancels -> [pc : CancelStates, task : Tasks \cup {NoTask}, sig : AllSignals]]
      BY <1>7, <3>0, CancelTyped
    <3> QED
      BY <1>7, <2>8, <3>1 DEF CancelFlipFails
  <2>9. CASE CancelPublishes(c)
    <3>0. req' = [req EXCEPT ![c].pc = "recorded"] /\ "recorded" \in CancelStates
      BY <2>9 DEF CancelPublishes
    <3>1. req' \in [Cancels -> [pc : CancelStates, task : Tasks \cup {NoTask}, sig : AllSignals]]
      BY <1>7, <3>0, CancelTyped
    <3>2. published' \subseteq Event
      BY <1>7, <2>9 DEF CancelPublishes, RequestProgress
    <3> QED
      BY <1>7, <2>9, <3>1, <3>2 DEF CancelPublishes
  <2> QED
    BY <1>7, <2>1, <2>2, <2>3, <2>4, <2>5, <2>6, <2>7, <2>8, <2>9 DEF CancelStep
<1>8. CASE Restart
  <2>1. req' \in [Cancels -> [pc : CancelStates, task : Tasks \cup {NoTask}, sig : AllSignals]]
    <3> DEFINE R == [pc : CancelStates, task : Tasks \cup {NoTask}, sig : AllSignals]
    <3>1. ASSUME NEW c \in Cancels
          PROVE  req[c] \in R /\ [req[c] EXCEPT !.pc = "lost"] \in R
      <4>1. req[c] \in R
        OBVIOUS
      <4>2. "lost" \in CancelStates
        OBVIOUS
      <4> HIDE DEF TypeOK, CancelStates, AllSignals
      <4> QED
        BY <4>1, <4>2
    <3>2. req' = [c \in Cancels |-> IF req[c].pc = "unsent" THEN req[c]
                                    ELSE [req[c] EXCEPT !.pc = "lost"]]
      BY <1>8 DEF Restart
    <3> HIDE DEF R, TypeOK
    <3>3. req' \in [Cancels -> R]
      BY <3>1, <3>2
    <3> QED
      BY <3>3 DEF R
  <2>2. /\ assign' \in [Tasks -> AssignStates]
        /\ child' \in [Tasks -> ChildStates]
        /\ waiter' \in [Tasks -> WaiterStates]
        /\ reader' \in [Tasks -> ReaderStates]
    BY <1>8 DEF Restart
  <2> QED
    BY <1>8, <2>1, <2>2 DEF Restart
<1>9. CASE UNCHANGED vars
  BY <1>9 DEF vars
<1> QED
  BY <1>1, <1>2, <1>3, <1>4, <1>5, <1>6, <1>7, <1>8, <1>9 DEF Next

(* An unassigned task stays without a row: only its own insert gives it one. *)
LEMMA NewStep == IInv /\ [Next]_vars => NewIsAbsent'
<1> SUFFICES ASSUME IInv, [Next]_vars PROVE NewIsAbsent'
  OBVIOUS
<1> USE DEF IInv, TypeOK, requests, process, reading, events, bounds, DbError,
        Publish, FinalStatus, Terminal, Exited, Free, NewIsAbsent,
        RequestProgress, SpawnStartsChild, WaiterProgress
<1>1. ASSUME NEW t \in Tasks, AssignStep(t) PROVE NewIsAbsent'
  <2>1. CASE AssignInsert(t)
    BY <1>1, <2>1 DEF AssignInsert
  <2>2. CASE AssignInsertFails(t) \/ Spawn(t) \/ SpawnFails(t) \/
            Register(t) \/ AssignReplies(t)
    BY <1>1, <2>2 DEF AssignInsertFails, Spawn, SpawnFails, Register,
          AssignReplies
  <2> QED
    BY <1>1, <2>1, <2>2 DEF AssignStep
<1>2. ASSUME NEW t \in Tasks, ChildStep(t) PROVE NewIsAbsent'
  BY <1>2 DEF ChildStep, ChildWrites, ChildExits
<1>3. ASSUME NEW t \in Tasks, ReaderStep(t) PROVE NewIsAbsent'
  BY <1>3 DEF ReaderStep, ReaderStarts, ReaderGivesUp, HandshakeSkips,
        HandshakeSucceeds, HandshakeFails, PumpReads, McpPumpDropsEvent,
        McpPumpSkips, PumpPanics, McpPumpBreaks, PumpEnds, ReaderSaveTail,
        ReaderSaveTailFails
<1>4. ASSUME NEW t \in Tasks, PublishOutput(t) PROVE NewIsAbsent'
  BY <1>4 DEF PublishOutput
<1>5. ASSUME NEW t \in Tasks, WaiterStep(t) PROVE NewIsAbsent'
  BY <1>5 DEF WaiterStep, WaiterReaps, WaiterStores, WaiterStoreFails,
        WaiterPublishes, WaiterRemoves
<1>6. ASSUME NEW c \in Cancels, CancelStep(c) PROVE NewIsAbsent'
  <2>1. CASE CancelFlips(c)
    BY <1>6, <2>1 DEF CancelFlips
  <2>2. CASE CancelKills(c) \/ CancelKillRefused(c) \/ CancelLocks(c) \/
            CancelWrites(c) \/ CancelMisses(c) \/ CancelUnknown(c) \/
            CancelFlipFails(c) \/ CancelPublishes(c)
    BY <1>6, <2>2 DEF CancelKills, CancelKillRefused, CancelLocks, CancelWrites,
          CancelMisses, CancelUnknown, CancelFlipFails, CancelPublishes
  <2> QED
    BY <1>6, <2>1, <2>2 DEF CancelStep
<1>7. ASSUME NEW c \in Cancels, NEW t \in Tasks \cup {NoTask}, NEW s \in Signals,
             CancelSends(c, t, s)
      PROVE  NewIsAbsent'
  BY <1>7 DEF CancelSends
<1>8. CASE Restart
  BY <1>8 DEF Restart
<1>9. CASE UNCHANGED vars
  BY <1>9 DEF vars
<1> QED
  BY <1>1, <1>2, <1>3, <1>4, <1>5, <1>6, <1>7, <1>8, <1>9 DEF Next

(* A child appears with the spawn and not before. *)
LEMMA SpawnStep == IInv /\ [Next]_vars => SpawnStartsChild'
<1> SUFFICES ASSUME IInv, [Next]_vars PROVE SpawnStartsChild'
  OBVIOUS
<1> USE DEF IInv, TypeOK, requests, process, reading, events, bounds, DbError,
        Publish, FinalStatus, Terminal, Exited, Free, SpawnStartsChild
<1>1. ASSUME NEW t \in Tasks, AssignStep(t) PROVE SpawnStartsChild'
  <2>1. CASE Spawn(t)
    BY <1>1, <2>1 DEF Spawn
  <2>2. CASE AssignInsert(t) \/ AssignInsertFails(t) \/ SpawnFails(t) \/
            Register(t) \/ AssignReplies(t)
    BY <1>1, <2>2 DEF AssignInsert, AssignInsertFails, SpawnFails, Register,
          AssignReplies
  <2> QED
    BY <1>1, <2>1, <2>2 DEF AssignStep
<1>2. ASSUME NEW t \in Tasks, ChildStep(t) PROVE SpawnStartsChild'
  <2>1. CASE ChildExits(t)
    BY <1>2, <2>1 DEF ChildExits
  <2>2. CASE ChildWrites(t)
    BY <1>2, <2>2 DEF ChildWrites
  <2> QED
    BY <1>2, <2>1, <2>2 DEF ChildStep
<1>3. ASSUME NEW t \in Tasks, ReaderStep(t) PROVE SpawnStartsChild'
  BY <1>3 DEF ReaderStep, ReaderStarts, ReaderGivesUp, HandshakeSkips,
        HandshakeSucceeds, HandshakeFails, PumpReads, McpPumpDropsEvent,
        McpPumpSkips, PumpPanics, McpPumpBreaks, PumpEnds, ReaderSaveTail,
        ReaderSaveTailFails
<1>4. ASSUME NEW t \in Tasks, PublishOutput(t) PROVE SpawnStartsChild'
  BY <1>4 DEF PublishOutput
<1>5. ASSUME NEW t \in Tasks, WaiterStep(t) PROVE SpawnStartsChild'
  BY <1>5 DEF WaiterStep, WaiterReaps, WaiterStores, WaiterStoreFails,
        WaiterPublishes, WaiterRemoves
<1>6. ASSUME NEW c \in Cancels, CancelStep(c) PROVE SpawnStartsChild'
  BY <1>6 DEF CancelStep, CancelKills, CancelKillRefused, CancelLocks,
        CancelWrites, CancelMisses, CancelFlips, CancelUnknown, CancelFlipFails,
        CancelPublishes
<1>7. ASSUME NEW c \in Cancels, NEW t \in Tasks \cup {NoTask}, NEW s \in Signals,
             CancelSends(c, t, s)
      PROVE  SpawnStartsChild'
  BY <1>7 DEF CancelSends
<1>8. CASE Restart
  BY <1>8 DEF Restart
<1>9. CASE UNCHANGED vars
  BY <1>9 DEF vars
<1> QED
  BY <1>1, <1>2, <1>3, <1>4, <1>5, <1>6, <1>7, <1>8, <1>9 DEF Next

(* The waiter's steps establish its facts; no other step takes them back. *)
LEMMA WaiterStepKeeps == IInv /\ [Next]_vars => WaiterProgress'
<1> SUFFICES ASSUME IInv, [Next]_vars PROVE WaiterProgress'
  OBVIOUS
<1> USE DEF IInv, TypeOK, requests, process, reading, events, bounds, DbError,
        Publish, FinalStatus, Terminal, Exited, Free, WaiterProgress,
        NewIsAbsent, SpawnStartsChild
<1>1. ASSUME NEW t \in Tasks, AssignStep(t) PROVE WaiterProgress'
  <2>1. CASE AssignInsert(t)
    BY <1>1, <2>1 DEF AssignInsert
  <2>2. CASE Spawn(t)
    BY <1>1, <2>2 DEF Spawn
  <2>3. CASE AssignReplies(t)
    BY <1>1, <2>3 DEF AssignReplies
  <2>4. CASE AssignInsertFails(t) \/ SpawnFails(t) \/ Register(t)
    BY <1>1, <2>4 DEF AssignInsertFails, SpawnFails, Register
  <2> QED
    BY <1>1, <2>1, <2>2, <2>3, <2>4 DEF AssignStep
<1>2. ASSUME NEW t \in Tasks, ChildStep(t) PROVE WaiterProgress'
  <2>1. CASE ChildExits(t)
    BY <1>2, <2>1 DEF ChildExits
  <2>2. CASE ChildWrites(t)
    BY <1>2, <2>2 DEF ChildWrites
  <2> QED
    BY <1>2, <2>1, <2>2 DEF ChildStep
<1>3. ASSUME NEW t \in Tasks, ReaderStep(t) PROVE WaiterProgress'
  BY <1>3 DEF ReaderStep, ReaderStarts, ReaderGivesUp, HandshakeSkips,
        HandshakeSucceeds, HandshakeFails, PumpReads, McpPumpDropsEvent,
        McpPumpSkips, PumpPanics, McpPumpBreaks, PumpEnds, ReaderSaveTail,
        ReaderSaveTailFails
<1>4. ASSUME NEW t \in Tasks, PublishOutput(t) PROVE WaiterProgress'
  BY <1>4 DEF PublishOutput
<1>5. ASSUME NEW t \in Tasks, WaiterStep(t) PROVE WaiterProgress'
  <2>1. CASE WaiterReaps(t)
    BY <1>5, <2>1 DEF WaiterReaps
  <2>2. CASE WaiterStores(t)
    BY <1>5, <2>2 DEF WaiterStores
  <2>3. CASE WaiterStoreFails(t)
    BY <1>5, <2>3 DEF WaiterStoreFails
  <2>4. CASE WaiterPublishes(t)
    <3>1. [task |-> t, kind |-> FinalStatus(t), chunk |-> 0] \in published'
      BY <2>4 DEF WaiterPublishes
    <3>2. published \subseteq published'
      BY <2>4 DEF WaiterPublishes
    <3>3. \E e \in published' : e.task = t /\ e.kind = FinalStatus(t)
      BY <3>1
    <3> QED
      BY <1>5, <2>4, <3>2, <3>3 DEF WaiterPublishes
  <2>5. CASE WaiterRemoves(t)
    BY <1>5, <2>5 DEF WaiterRemoves
  <2> QED
    BY <1>5, <2>1, <2>2, <2>3, <2>4, <2>5 DEF WaiterStep
<1>6. ASSUME NEW c \in Cancels, CancelStep(c) PROVE WaiterProgress'
  <2>1. CASE CancelFlips(c)
    BY <1>6, <2>1 DEF CancelFlips
  <2>2. CASE CancelPublishes(c)
    BY <1>6, <2>2 DEF CancelPublishes
  <2>3. CASE CancelKills(c) \/ CancelKillRefused(c) \/ CancelLocks(c) \/
            CancelWrites(c) \/ CancelMisses(c) \/ CancelUnknown(c) \/
            CancelFlipFails(c)
    BY <1>6, <2>3 DEF CancelKills, CancelKillRefused, CancelLocks, CancelWrites,
          CancelMisses, CancelUnknown, CancelFlipFails
  <2> QED
    BY <1>6, <2>1, <2>2, <2>3 DEF CancelStep
<1>7. ASSUME NEW c \in Cancels, NEW t \in Tasks \cup {NoTask}, NEW s \in Signals,
             CancelSends(c, t, s)
      PROVE  WaiterProgress'
  BY <1>7 DEF CancelSends
<1>8. CASE Restart
  BY <1>8 DEF Restart
<1>9. CASE UNCHANGED vars
  BY <1>9 DEF vars
<1> QED
  BY <1>1, <1>2, <1>3, <1>4, <1>5, <1>6, <1>7, <1>8, <1>9 DEF Next

(* No step takes a row away or a terminal status back to running. *)
LEMMA RequestStep == IInv /\ [Next]_vars => RequestProgress'
<1> SUFFICES ASSUME IInv, [Next]_vars PROVE RequestProgress'
  OBVIOUS
<1> USE DEF IInv, TypeOK, requests, process, reading, events, bounds, DbError,
        Publish, FinalStatus, Terminal, Exited, Free, RequestProgress,
        NewIsAbsent
<1>1. ASSUME NEW t \in Tasks, AssignStep(t) PROVE RequestProgress'
  <2>1. CASE AssignInsert(t)
    BY <1>1, <2>1 DEF AssignInsert
  <2>2. CASE AssignInsertFails(t) \/ Spawn(t) \/ SpawnFails(t) \/
            Register(t) \/ AssignReplies(t)
    BY <1>1, <2>2 DEF AssignInsertFails, Spawn, SpawnFails, Register,
          AssignReplies
  <2> QED
    BY <1>1, <2>1, <2>2 DEF AssignStep
<1>2. ASSUME NEW t \in Tasks, ChildStep(t) PROVE RequestProgress'
  BY <1>2 DEF ChildStep, ChildWrites, ChildExits
<1>3. ASSUME NEW t \in Tasks, ReaderStep(t) PROVE RequestProgress'
  BY <1>3 DEF ReaderStep, ReaderStarts, ReaderGivesUp, HandshakeSkips,
        HandshakeSucceeds, HandshakeFails, PumpReads, McpPumpDropsEvent,
        McpPumpSkips, PumpPanics, McpPumpBreaks, PumpEnds, ReaderSaveTail,
        ReaderSaveTailFails
<1>4. ASSUME NEW t \in Tasks, PublishOutput(t) PROVE RequestProgress'
  BY <1>4 DEF PublishOutput
<1>5. ASSUME NEW t \in Tasks, WaiterStep(t) PROVE RequestProgress'
  <2>1. CASE WaiterStores(t)
    BY <1>5, <2>1 DEF WaiterStores
  <2>2. CASE WaiterReaps(t) \/ WaiterStoreFails(t) \/ WaiterPublishes(t) \/
            WaiterRemoves(t)
    BY <1>5, <2>2 DEF WaiterReaps, WaiterStoreFails, WaiterPublishes,
          WaiterRemoves
  <2> QED
    BY <1>5, <2>1, <2>2 DEF WaiterStep
<1>6. ASSUME NEW c \in Cancels, CancelStep(c) PROVE RequestProgress'
  <2>1. CASE CancelKills(c)
    BY <1>6, <2>1 DEF CancelKills
  <2>2. CASE CancelKillRefused(c)
    BY <1>6, <2>2 DEF CancelKillRefused
  <2>3. CASE CancelLocks(c)
    BY <1>6, <2>3 DEF CancelLocks
  <2>4. CASE CancelWrites(c)
    BY <1>6, <2>4 DEF CancelWrites
  <2>5. CASE CancelMisses(c)
    BY <1>6, <2>5 DEF CancelMisses
  <2>6. CASE CancelFlips(c)
    BY <1>6, <2>6 DEF CancelFlips
  <2>7. CASE CancelUnknown(c)
    BY <1>6, <2>7 DEF CancelUnknown
  <2>8. CASE CancelFlipFails(c)
    BY <1>6, <2>8 DEF CancelFlipFails
  <2>9. CASE CancelPublishes(c)
    BY <1>6, <2>9 DEF CancelPublishes
  <2> QED
    BY <1>6, <2>1, <2>2, <2>3, <2>4, <2>5, <2>6, <2>7, <2>8, <2>9 DEF CancelStep
<1>7. ASSUME NEW c \in Cancels, NEW t \in Tasks \cup {NoTask}, NEW s \in Signals,
             CancelSends(c, t, s)
      PROVE  RequestProgress'
  BY <1>7 DEF CancelSends
<1>8. CASE Restart
  BY <1>8 DEF Restart
<1>9. CASE UNCHANGED vars
  BY <1>9 DEF vars
<1> QED
  BY <1>1, <1>2, <1>3, <1>4, <1>5, <1>6, <1>7, <1>8, <1>9 DEF Next

(* A row says running only while its end is somebody's job. *)
LEMMA RunningStep == IInv /\ [Next]_vars => RunningIsWatched'
<1> SUFFICES ASSUME IInv, [Next]_vars PROVE RunningIsWatched'
  OBVIOUS
<1> USE DEF IInv, TypeOK, requests, process, reading, events, bounds, DbError,
        Publish, FinalStatus, Terminal, Exited, Free, RunningIsWatched,
        NewIsAbsent
<1>1. ASSUME NEW t \in Tasks, AssignStep(t) PROVE RunningIsWatched'
  <2>1. CASE AssignInsert(t)
    BY <1>1, <2>1 DEF AssignInsert
  <2>2. CASE Spawn(t)
    BY <1>1, <2>2 DEF Spawn
  <2>3. CASE SpawnFails(t)
    BY <1>1, <2>3 DEF SpawnFails
  <2>4. CASE Register(t)
    BY <1>1, <2>4 DEF Register
  <2>5. CASE AssignInsertFails(t) \/ AssignReplies(t)
    BY <1>1, <2>5 DEF AssignInsertFails, AssignReplies
  <2> QED
    BY <1>1, <2>1, <2>2, <2>3, <2>4, <2>5 DEF AssignStep
<1>2. ASSUME NEW t \in Tasks, ChildStep(t) PROVE RunningIsWatched'
  BY <1>2 DEF ChildStep, ChildWrites, ChildExits
<1>3. ASSUME NEW t \in Tasks, ReaderStep(t) PROVE RunningIsWatched'
  BY <1>3 DEF ReaderStep, ReaderStarts, ReaderGivesUp, HandshakeSkips,
        HandshakeSucceeds, HandshakeFails, PumpReads, McpPumpDropsEvent,
        McpPumpSkips, PumpPanics, McpPumpBreaks, PumpEnds, ReaderSaveTail,
        ReaderSaveTailFails
<1>4. ASSUME NEW t \in Tasks, PublishOutput(t) PROVE RunningIsWatched'
  BY <1>4 DEF PublishOutput
<1>5. ASSUME NEW t \in Tasks, WaiterStep(t) PROVE RunningIsWatched'
  <2>1. CASE WaiterReaps(t)
    BY <1>5, <2>1 DEF WaiterReaps
  <2>2. CASE WaiterStores(t)
    BY <1>5, <2>2 DEF WaiterStores
  <2>3. CASE WaiterStoreFails(t)
    BY <1>5, <2>3 DEF WaiterStoreFails
  <2>4. CASE WaiterPublishes(t)
    BY <1>5, <2>4 DEF WaiterPublishes
  <2>5. CASE WaiterRemoves(t)
    BY <1>5, <2>5 DEF WaiterRemoves
  <2> QED
    BY <1>5, <2>1, <2>2, <2>3, <2>4, <2>5 DEF WaiterStep
<1>6. ASSUME NEW c \in Cancels, CancelStep(c) PROVE RunningIsWatched'
  <2>1. CASE CancelFlips(c)
    BY <1>6, <2>1 DEF CancelFlips
  <2>2. CASE CancelKills(c) \/ CancelKillRefused(c) \/ CancelLocks(c) \/
            CancelWrites(c) \/ CancelMisses(c) \/ CancelUnknown(c) \/
            CancelFlipFails(c) \/ CancelPublishes(c)
    BY <1>6, <2>2 DEF CancelKills, CancelKillRefused, CancelLocks, CancelWrites,
          CancelMisses, CancelUnknown, CancelFlipFails, CancelPublishes
  <2> QED
    BY <1>6, <2>1, <2>2 DEF CancelStep
<1>7. ASSUME NEW c \in Cancels, NEW t \in Tasks \cup {NoTask}, NEW s \in Signals,
             CancelSends(c, t, s)
      PROVE  RunningIsWatched'
  BY <1>7 DEF CancelSends
<1>8. CASE Restart
  BY <1>8 DEF Restart
<1>9. CASE UNCHANGED vars
  BY <1>9 DEF vars
<1> QED
  BY <1>1, <1>2, <1>3, <1>4, <1>5, <1>6, <1>7, <1>8, <1>9 DEF Next

(* The entry leaves the map in the last step of the waiter only. *)
LEMMA EntryStep == IInv /\ [Next]_vars => EntryOutlivesChild'
<1> SUFFICES ASSUME IInv, [Next]_vars PROVE EntryOutlivesChild'
  OBVIOUS
<1> USE DEF IInv, TypeOK, requests, process, reading, events, bounds, DbError,
        Publish, FinalStatus, Terminal, Exited, Free, EntryOutlivesChild,
        WaiterProgress, SpawnStartsChild
<1>1. ASSUME NEW t \in Tasks, AssignStep(t) PROVE EntryOutlivesChild'
  <2>1. CASE Spawn(t)
    BY <1>1, <2>1 DEF Spawn
  <2>2. CASE Register(t)
    BY <1>1, <2>2 DEF Register
  <2>3. CASE AssignReplies(t)
    BY <1>1, <2>3 DEF AssignReplies
  <2>4. CASE AssignInsert(t) \/ AssignInsertFails(t) \/ SpawnFails(t)
    BY <1>1, <2>4 DEF AssignInsert, AssignInsertFails, SpawnFails
  <2> QED
    BY <1>1, <2>1, <2>2, <2>3, <2>4 DEF AssignStep
<1>2. ASSUME NEW t \in Tasks, ChildStep(t) PROVE EntryOutlivesChild'
  <2>1. CASE ChildWrites(t)
    BY <1>2, <2>1 DEF ChildWrites
  <2>2. CASE ChildExits(t)
    BY <1>2, <2>2 DEF ChildExits
  <2> QED
    BY <1>2, <2>1, <2>2 DEF ChildStep
<1>3. ASSUME NEW t \in Tasks, ReaderStep(t) PROVE EntryOutlivesChild'
  BY <1>3 DEF ReaderStep, ReaderStarts, ReaderGivesUp, HandshakeSkips,
        HandshakeSucceeds, HandshakeFails, PumpReads, McpPumpDropsEvent,
        McpPumpSkips, PumpPanics, McpPumpBreaks, PumpEnds, ReaderSaveTail,
        ReaderSaveTailFails
<1>4. ASSUME NEW t \in Tasks, PublishOutput(t) PROVE EntryOutlivesChild'
  BY <1>4 DEF PublishOutput
<1>5. ASSUME NEW t \in Tasks, WaiterStep(t) PROVE EntryOutlivesChild'
  <2>1. CASE WaiterReaps(t)
    BY <1>5, <2>1 DEF WaiterReaps
  <2>2. CASE WaiterStores(t)
    BY <1>5, <2>2 DEF WaiterStores
  <2>3. CASE WaiterStoreFails(t)
    BY <1>5, <2>3 DEF WaiterStoreFails
  <2>4. CASE WaiterPublishes(t)
    BY <1>5, <2>4 DEF WaiterPublishes
  <2>5. CASE WaiterRemoves(t)
    BY <1>5, <2>5 DEF WaiterRemoves
  <2> QED
    BY <1>5, <2>1, <2>2, <2>3, <2>4, <2>5 DEF WaiterStep
<1>6. ASSUME NEW c \in Cancels, CancelStep(c) PROVE EntryOutlivesChild'
  <2>1. CASE CancelPublishes(c)
    BY <1>6, <2>1 DEF CancelPublishes
  <2>2. CASE CancelKills(c) \/ CancelKillRefused(c) \/ CancelLocks(c) \/
            CancelWrites(c) \/ CancelMisses(c) \/ CancelFlips(c) \/
            CancelUnknown(c) \/ CancelFlipFails(c)
    BY <1>6, <2>2 DEF CancelKills, CancelKillRefused, CancelLocks, CancelWrites,
          CancelMisses, CancelFlips, CancelUnknown, CancelFlipFails
  <2> QED
    BY <1>6, <2>1, <2>2 DEF CancelStep
<1>7. ASSUME NEW c \in Cancels, NEW t \in Tasks \cup {NoTask}, NEW s \in Signals,
             CancelSends(c, t, s)
      PROVE  EntryOutlivesChild'
  BY <1>7 DEF CancelSends
<1>8. CASE Restart
  BY <1>8 DEF Restart
<1>9. CASE UNCHANGED vars
  BY <1>9 DEF vars
<1> QED
  BY <1>1, <1>2, <1>3, <1>4, <1>5, <1>6, <1>7, <1>8, <1>9 DEF Next

(* Who locks the map for longer than a step is writing, and unlocks it. *)
LEMMA MutexStep == IInv /\ [Next]_vars => MutexHeldByWriter'
<1> SUFFICES ASSUME IInv, [Next]_vars PROVE MutexHeldByWriter'
  OBVIOUS
<1> USE DEF IInv, TypeOK, requests, process, reading, events, bounds, DbError,
        Publish, FinalStatus, Terminal, Exited, Free, MutexHeldByWriter
<1>1. ASSUME NEW t \in Tasks, AssignStep(t) PROVE MutexHeldByWriter'
  <2>1. CASE Register(t)
    BY <1>1, <2>1 DEF Register
  <2>2. CASE AssignInsert(t) \/ AssignInsertFails(t) \/ Spawn(t) \/
            SpawnFails(t) \/ AssignReplies(t)
    BY <1>1, <2>2 DEF AssignInsert, AssignInsertFails, Spawn, SpawnFails,
          AssignReplies
  <2> QED
    BY <1>1, <2>1, <2>2 DEF AssignStep
<1>2. ASSUME NEW t \in Tasks, ChildStep(t) PROVE MutexHeldByWriter'
  BY <1>2 DEF ChildStep, ChildWrites, ChildExits
<1>3. ASSUME NEW t \in Tasks, ReaderStep(t) PROVE MutexHeldByWriter'
  BY <1>3 DEF ReaderStep, ReaderStarts, ReaderGivesUp, HandshakeSkips,
        HandshakeSucceeds, HandshakeFails, PumpReads, McpPumpDropsEvent,
        McpPumpSkips, PumpPanics, McpPumpBreaks, PumpEnds, ReaderSaveTail,
        ReaderSaveTailFails
<1>4. ASSUME NEW t \in Tasks, PublishOutput(t) PROVE MutexHeldByWriter'
  BY <1>4 DEF PublishOutput
<1>5. ASSUME NEW t \in Tasks, WaiterStep(t) PROVE MutexHeldByWriter'
  BY <1>5 DEF WaiterStep, WaiterReaps, WaiterStores, WaiterStoreFails,
        WaiterPublishes, WaiterRemoves
<1>6. ASSUME NEW c \in Cancels, CancelStep(c) PROVE MutexHeldByWriter'
  <2>1. CASE CancelKills(c)
    BY <1>6, <2>1 DEF CancelKills
  <2>2. CASE CancelKillRefused(c)
    BY <1>6, <2>2 DEF CancelKillRefused
  <2>3. CASE CancelLocks(c)
    BY <1>6, <2>3 DEF CancelLocks
  <2>4. CASE CancelWrites(c)
    BY <1>6, <2>4 DEF CancelWrites
  <2>5. CASE CancelMisses(c)
    BY <1>6, <2>5 DEF CancelMisses
  <2>6. CASE CancelFlips(c)
    BY <1>6, <2>6 DEF CancelFlips
  <2>7. CASE CancelUnknown(c)
    BY <1>6, <2>7 DEF CancelUnknown
  <2>8. CASE CancelFlipFails(c)
    BY <1>6, <2>8 DEF CancelFlipFails
  <2>9. CASE CancelPublishes(c)
    BY <1>6, <2>9 DEF CancelPublishes
  <2> QED
    BY <1>6, <2>1, <2>2, <2>3, <2>4, <2>5, <2>6, <2>7, <2>8, <2>9 DEF CancelStep
<1>7. ASSUME NEW c \in Cancels, NEW t \in Tasks \cup {NoTask}, NEW s \in Signals,
             CancelSends(c, t, s)
      PROVE  MutexHeldByWriter'
  BY <1>7 DEF CancelSends
<1>8. CASE Restart
  BY <1>8 DEF Restart
<1>9. CASE UNCHANGED vars
  BY <1>9 DEF vars
<1> QED
  BY <1>1, <1>2, <1>3, <1>4, <1>5, <1>6, <1>7, <1>8, <1>9 DEF Next

(* What is published as ended is stored as ended. *)
LEMMA StoredStep == IInv /\ [Next]_vars => StoredBeforePublished'
<1> SUFFICES ASSUME IInv, [Next]_vars PROVE StoredBeforePublished'
  OBVIOUS
<1> USE DEF IInv, TypeOK, requests, process, reading, events, bounds, DbError,
        Publish, FinalStatus, Terminal, Exited, Free, StoredBeforePublished,
        WaiterProgress, RequestProgress, NewIsAbsent, Event
<1>1. ASSUME NEW t \in Tasks, AssignStep(t) PROVE StoredBeforePublished'
  <2>1. CASE AssignInsert(t)
    BY <1>1, <2>1 DEF AssignInsert
  <2>2. CASE AssignReplies(t)
    BY <1>1, <2>2 DEF AssignReplies
  <2>3. CASE AssignInsertFails(t) \/ Spawn(t) \/ SpawnFails(t) \/ Register(t)
    BY <1>1, <2>3 DEF AssignInsertFails, Spawn, SpawnFails, Register
  <2> QED
    BY <1>1, <2>1, <2>2, <2>3 DEF AssignStep
<1>2. ASSUME NEW t \in Tasks, ChildStep(t) PROVE StoredBeforePublished'
  BY <1>2 DEF ChildStep, ChildWrites, ChildExits
<1>3. ASSUME NEW t \in Tasks, ReaderStep(t) PROVE StoredBeforePublished'
  BY <1>3 DEF ReaderStep, ReaderStarts, ReaderGivesUp, HandshakeSkips,
        HandshakeSucceeds, HandshakeFails, PumpReads, McpPumpDropsEvent,
        McpPumpSkips, PumpPanics, McpPumpBreaks, PumpEnds, ReaderSaveTail,
        ReaderSaveTailFails
<1>4. ASSUME NEW t \in Tasks, PublishOutput(t) PROVE StoredBeforePublished'
  BY <1>4 DEF PublishOutput
<1>5. ASSUME NEW t \in Tasks, WaiterStep(t) PROVE StoredBeforePublished'
  <2>1. CASE WaiterReaps(t)
    BY <1>5, <2>1 DEF WaiterReaps
  <2>2. CASE WaiterStores(t)
    BY <1>5, <2>2 DEF WaiterStores
  <2>3. CASE WaiterStoreFails(t)
    BY <1>5, <2>3 DEF WaiterStoreFails
  <2>4. CASE WaiterPublishes(t)
    BY <1>5, <2>4 DEF WaiterPublishes
  <2>5. CASE WaiterRemoves(t)
    BY <1>5, <2>5 DEF WaiterRemoves
  <2> QED
    BY <1>5, <2>1, <2>2, <2>3, <2>4, <2>5 DEF WaiterStep
<1>6. ASSUME NEW c \in Cancels, CancelStep(c) PROVE StoredBeforePublished'
  <2>1. CASE CancelFlips(c)
    BY <1>6, <2>1 DEF CancelFlips
  <2>2. CASE CancelPublishes(c)
    BY <1>6, <2>2 DEF CancelPublishes
  <2>3. CASE CancelKills(c) \/ CancelKillRefused(c) \/ CancelLocks(c) \/
            CancelWrites(c) \/ CancelMisses(c) \/ CancelUnknown(c) \/
            CancelFlipFails(c)
    BY <1>6, <2>3 DEF CancelKills, CancelKillRefused, CancelLocks, CancelWrites,
          CancelMisses, CancelUnknown, CancelFlipFails
  <2> QED
    BY <1>6, <2>1, <2>2, <2>3 DEF CancelStep
<1>7. ASSUME NEW c \in Cancels, NEW t \in Tasks \cup {NoTask}, NEW s \in Signals,
             CancelSends(c, t, s)
      PROVE  StoredBeforePublished'
  BY <1>7 DEF CancelSends
<1>8. CASE Restart
  BY <1>8 DEF Restart
<1>9. CASE UNCHANGED vars
  BY <1>9 DEF vars
<1> QED
  BY <1>1, <1>2, <1>3, <1>4, <1>5, <1>6, <1>7, <1>8, <1>9 DEF Next

(* Who writes a terminal status leaves its trace. *)
LEMMA CauseStep == IInv /\ [Next]_vars => EndHasCause'
<1> SUFFICES ASSUME IInv, [Next]_vars PROVE EndHasCause'
  OBVIOUS
<1> USE DEF IInv, TypeOK, requests, process, reading, events, bounds, DbError,
        Publish, FinalStatus, Terminal, Exited, Free, EndHasCause,
        WaiterProgress, SpawnStartsChild, NewIsAbsent
<1>1. ASSUME NEW t \in Tasks, AssignStep(t) PROVE EndHasCause'
  <2>1. CASE AssignInsert(t)
    BY <1>1, <2>1 DEF AssignInsert
  <2>2. CASE Spawn(t)
    BY <1>1, <2>2 DEF Spawn
  <2>3. CASE AssignInsertFails(t) \/ SpawnFails(t) \/ Register(t) \/
            AssignReplies(t)
    BY <1>1, <2>3 DEF AssignInsertFails, SpawnFails, Register, AssignReplies
  <2> QED
    BY <1>1, <2>1, <2>2, <2>3 DEF AssignStep
<1>2. ASSUME NEW t \in Tasks, ChildStep(t) PROVE EndHasCause'
  <2>1. CASE ChildWrites(t)
    BY <1>2, <2>1 DEF ChildWrites
  <2>2. CASE ChildExits(t)
    BY <1>2, <2>2 DEF ChildExits
  <2> QED
    BY <1>2, <2>1, <2>2 DEF ChildStep
<1>3. ASSUME NEW t \in Tasks, ReaderStep(t) PROVE EndHasCause'
  BY <1>3 DEF ReaderStep, ReaderStarts, ReaderGivesUp, HandshakeSkips,
        HandshakeSucceeds, HandshakeFails, PumpReads, McpPumpDropsEvent,
        McpPumpSkips, PumpPanics, McpPumpBreaks, PumpEnds, ReaderSaveTail,
        ReaderSaveTailFails
<1>4. ASSUME NEW t \in Tasks, PublishOutput(t) PROVE EndHasCause'
  BY <1>4 DEF PublishOutput
<1>5. ASSUME NEW t \in Tasks, WaiterStep(t) PROVE EndHasCause'
  <2>1. CASE WaiterReaps(t)
    BY <1>5, <2>1 DEF WaiterReaps
  <2>2. CASE WaiterStores(t)
    BY <1>5, <2>2 DEF WaiterStores
  <2>3. CASE WaiterStoreFails(t)
    BY <1>5, <2>3 DEF WaiterStoreFails
  <2>4. CASE WaiterPublishes(t)
    BY <1>5, <2>4 DEF WaiterPublishes
  <2>5. CASE WaiterRemoves(t)
    BY <1>5, <2>5 DEF WaiterRemoves
  <2> QED
    BY <1>5, <2>1, <2>2, <2>3, <2>4, <2>5 DEF WaiterStep
<1>6. ASSUME NEW c \in Cancels, CancelStep(c) PROVE EndHasCause'
  <2>1. CASE CancelKills(c)
    BY <1>6, <2>1 DEF CancelKills
  <2>2. CASE CancelKillRefused(c)
    BY <1>6, <2>2 DEF CancelKillRefused
  <2>3. CASE CancelLocks(c)
    BY <1>6, <2>3 DEF CancelLocks
  <2>4. CASE CancelWrites(c)
    BY <1>6, <2>4 DEF CancelWrites
  <2>5. CASE CancelMisses(c)
    BY <1>6, <2>5 DEF CancelMisses
  <2>6. CASE CancelFlips(c)
    BY <1>6, <2>6 DEF CancelFlips
  <2>7. CASE CancelUnknown(c)
    BY <1>6, <2>7 DEF CancelUnknown
  <2>8. CASE CancelFlipFails(c)
    BY <1>6, <2>8 DEF CancelFlipFails
  <2>9. CASE CancelPublishes(c)
    BY <1>6, <2>9 DEF CancelPublishes
  <2> QED
    BY <1>6, <2>1, <2>2, <2>3, <2>4, <2>5, <2>6, <2>7, <2>8, <2>9 DEF CancelStep
<1>7. ASSUME NEW c \in Cancels, NEW t \in Tasks \cup {NoTask}, NEW s \in Signals,
             CancelSends(c, t, s)
      PROVE  EndHasCause'
  BY <1>7 DEF CancelSends
<1>8. CASE Restart
  BY <1>8 DEF Restart
<1>9. CASE UNCHANGED vars
  BY <1>9 DEF vars
<1> QED
  BY <1>1, <1>2, <1>3, <1>4, <1>5, <1>6, <1>7, <1>8, <1>9 DEF Next

LEMMA IInvStep == IInv /\ [Next]_vars => IInv'
  BY TypeStep, NewStep, SpawnStep, WaiterStepKeeps, RequestStep, RunningStep, EntryStep,
     MutexStep, StoredStep, CauseStep DEF IInv

(* The inductive invariant holds in every reachable state.                 *)
THEOREM Invariance == Spec => []IInv
  BY InitIInv, IInvStep, PTL DEF Spec

(* Every variable keeps its type: rows, program counters and messages.     *)
THEOREM TypeCorrect == Spec => []TypeOK
  BY Invariance, PTL DEF IInv

(* A row that says "running" always has a request or a waiter that will    *)
(* end it, but for a refused spawn, a restart and a failed write.          *)
THEOREM RunningWatched == Spec => []RunningIsWatched
  BY Invariance, PTL DEF IInv

(* A registered task leaves the map after its end was published.           *)
THEOREM EntryOutlives == Spec => []EntryOutlivesChild
  BY Invariance, PTL DEF IInv

(* The map's mutex is held over an await by a writing sigint cancel only.  *)
THEOREM MutexHeld == Spec => []MutexHeldByWriter
  BY Invariance, PTL DEF IInv

(* No client hears of an end that task.get does not show.                  *)
THEOREM StoredFirst == Spec => []StoredBeforePublished
  BY Invariance, PTL DEF IInv

(* A terminal status comes from the exit of the child or from a cancel.    *)
THEOREM CauseOfEnd == Spec => []EndHasCause
  BY Invariance, PTL DEF IInv


-----------------------------------------------------------------------------
(* A restart leaves nothing of a task's run.                               *)
LostIsGone == \A t \in Tasks : assign[t] = "lost" => waiter[t] = "none" /\ child[t] = "none"

LEMMA LostStep == TypeOK /\ LostIsGone /\ [Next]_vars => LostIsGone'
<1> SUFFICES ASSUME TypeOK, LostIsGone, [Next]_vars PROVE LostIsGone'
  OBVIOUS
<1> USE DEF TypeOK, requests, process, reading, events, bounds, Exited, LostIsGone
<1>1. ASSUME NEW t \in Tasks, AssignStep(t) \/ ChildStep(t) PROVE LostIsGone'
  BY <1>1 DEF AssignStep, AssignInsert, AssignInsertFails, Spawn, SpawnFails, Register, AssignReplies,
              ChildStep, ChildWrites, ChildExits
<1>2. ASSUME NEW t \in Tasks, ReaderStep(t) \/ PublishOutput(t) PROVE LostIsGone'
  BY <1>2 DEF ReaderStep, ReaderStarts, ReaderGivesUp, HandshakeSkips,
        HandshakeSucceeds, HandshakeFails, PumpReads, McpPumpDropsEvent,
        McpPumpSkips, PumpPanics, McpPumpBreaks, PumpEnds, ReaderSaveTail,
        ReaderSaveTailFails, PublishOutput
<1>3. ASSUME NEW t \in Tasks, WaiterStep(t) PROVE LostIsGone'
  BY <1>3 DEF WaiterStep, WaiterReaps, WaiterStores, WaiterStoreFails, WaiterPublishes, WaiterRemoves
<1>4. ASSUME NEW c \in Cancels, \/ CancelStep(c)
                                \/ \E t \in Tasks \cup {NoTask}, s \in Signals : CancelSends(c, t, s)
      PROVE  LostIsGone'
  BY <1>4 DEF CancelStep, CancelKills, CancelKillRefused, CancelLocks, CancelWrites, CancelMisses,
        CancelFlips, CancelUnknown, CancelFlipFails, CancelPublishes, CancelSends
<1>5. CASE Restart \/ UNCHANGED vars
  BY <1>5 DEF Restart, vars
<1> QED
  BY <1>1, <1>2, <1>3, <1>4, <1>5 DEF Next

(* The refinement mapping, by name.                                        *)
RunMap == [t \in Tasks |-> RunOf(t)]
StopMap == [c \in Cancels |-> StopOf(req[c].pc)]
TargetMap == [c \in Cancels |-> req[c].task]
ToldSet == {<<e.task, e.kind>> : e \in {x \in published : x.kind \in Terminal}}
Unsure == dbErrors > 0

LifeVars == <<row, RunMap, StopMap, TargetMap, ToldSet, Unsure>>

LEMMA LifeVarsAre == Life!vars = LifeVars /\ Life!vars' = LifeVars'
  BY DEF Life!vars, LifeVars, RunMap, StopMap, TargetMap, ToldSet, Unsure

(* How a run, a request and an announcement move the mapping.              *)
LEMMA RunMoves ==
  ASSUME NEW t \in Tasks, \A x \in Tasks \ {t} : RunOf(x)' = RunOf(x)
  PROVE  RunMap' = [RunMap EXCEPT ![t] = RunOf(t)'] /\ RunMap[t] = RunOf(t)
  BY DEF RunMap

LEMMA RunStays ==
  ASSUME \A x \in Tasks : RunOf(x)' = RunOf(x)
  PROVE  RunMap' = RunMap
  BY DEF RunMap

LEMMA RequestMoves ==
  ASSUME TypeOK, NEW c \in Cancels, NEW to, req' = [req EXCEPT ![c].pc = to]
  PROVE  /\ StopMap' = [StopMap EXCEPT ![c] = StopOf(to)] /\ StopMap[c] = StopOf(req[c].pc)
         /\ TargetMap' = TargetMap /\ TargetMap[c] = req[c].task
  <1>1. \A d \in Cancels : req'[d].task = req[d].task /\ req'[d].pc = IF d = c THEN to ELSE req[d].pc
    BY DEF TypeOK
  <1>2. \A d \in Cancels : StopOf(req'[d].pc) = IF d = c THEN StopOf(to) ELSE StopOf(req[d].pc)
    BY <1>1
  <1>3. StopMap' = [StopMap EXCEPT ![c] = StopOf(to)]
    BY <1>2 DEF StopMap
  <1>4. StopMap[c] = StopOf(req[c].pc) /\ TargetMap[c] = req[c].task
    BY DEF StopMap, TargetMap
  <1>5. TargetMap' = TargetMap
    BY <1>1 DEF TargetMap
  <1> QED
    BY <1>3, <1>4, <1>5

LEMMA ToldGrows ==
  ASSUME NEW t, NEW k, NEW n, Publish(t, k, n)
  PROVE  ToldSet' = IF k \in Terminal THEN ToldSet \cup {<<t, k>>} ELSE ToldSet
  <1> DEFINE e == [task |-> t, kind |-> k, chunk |-> n]
  <1>1. published' = published \cup {e} /\ e.task = t /\ e.kind = k
    BY DEF Publish
  <1> HIDE DEF e
  <1>2. CASE k \in Terminal
    <2>1. {x \in published' : x.kind \in Terminal} = {x \in published : x.kind \in Terminal} \cup {e}
      BY <1>1, <1>2
    <2> QED
      BY <1>1, <1>2, <2>1 DEF ToldSet
  <1>3. CASE k \notin Terminal
    <2>1. {x \in published' : x.kind \in Terminal} = {x \in published : x.kind \in Terminal}
      BY <1>1, <1>3
    <2> QED
      BY <1>3, <2>1 DEF ToldSet
  <1> QED
    BY <1>2, <1>3

(* The run of a task as its program counters tell it.                      *)
RunFacts ==
    \A t \in Tasks :
        /\ assign[t] = "new" => RunOf(t) = "none"
        /\ assign[t] = "inserted" => RunOf(t) = "accepted"
        /\ assign[t] \in {"refused", "lost"} => RunOf(t) = "gone"
        /\ assign[t] \in {"spawned", "registered", "replied"} /\ waiter[t] \in {"none", "waiting", "reaped"}
             => RunOf(t) = "open"
        /\ waiter[t] \in {"reaped", "stored", "published", "done"} =>
             assign[t] \in {"spawned", "registered", "replied"} /\ child[t] \in Exited
        /\ waiter[t] \in {"stored", "published", "done"} => RunOf(t) = FinalStatus(t)

LEMMA RunIs == IInv /\ LostIsGone => RunFacts
  <1> SUFFICES ASSUME IInv, LostIsGone, NEW t \in Tasks
               PROVE  /\ waiter[t] \in {"reaped", "stored", "published", "done"} =>
                           assign[t] \in {"spawned", "registered", "replied"} /\ child[t] \in Exited
    BY DEF RunFacts, RunOf
  <1>1. waiter[t] \in {"reaped", "stored", "published", "done"} => child[t] \in Exited
    BY DEF IInv, WaiterProgress
  <1>2. child[t] \in Exited => child[t] # "none"
    BY DEF Exited
  <1>3. child[t] \in Exited => assign[t] \in {"spawned", "registered", "replied"}
    BY <1>2 DEF IInv, TypeOK, AssignStates, SpawnStartsChild, LostIsGone
  <1> QED
    BY <1>1, <1>3

(* The steps by which nothing changes for a client.                        *)
LEMMA SilentStep ==
  ASSUME UNCHANGED <<row, dbErrors>>, \A x \in Tasks : RunOf(x)' = RunOf(x),
         StopMap' = StopMap, TargetMap' = TargetMap, ToldSet' = ToldSet
  PROVE  [Life!Next]_Life!vars
  <1>1. UNCHANGED LifeVars
    BY RunStays DEF LifeVars, Unsure
  <1> QED
    BY <1>1, LifeVarsAre

(* A request that goes on without a write, and those that end so.          *)
LEMMA RequestStays ==
  ASSUME TypeOK, NEW c \in Cancels, NEW to, req' = [req EXCEPT ![c].pc = to], StopOf(to) = StopOf(req[c].pc)
  PROVE  StopMap' = StopMap /\ TargetMap' = TargetMap
  <1>1. StopMap' = [StopMap EXCEPT ![c] = StopOf(to)] /\ StopMap[c] = StopOf(to) /\ TargetMap' = TargetMap
    BY RequestMoves
  <1>2. DOMAIN StopMap = Cancels /\ DOMAIN StopMap' = Cancels
    BY DEF StopMap
  <1>3. [StopMap EXCEPT ![c] = StopMap[c]] = StopMap
    BY <1>2 DEF StopMap
  <1> QED
    BY <1>1, <1>3

LEMMA AssignMaps ==
  ASSUME TypeOK, TypeOK', RunFacts, RunFacts', NEW t \in Tasks, AssignStep(t)
  PROVE  [Life!Next]_Life!vars
  <1> USE DEF requests, events, bounds
  <1>t. TypeOK /\ TypeOK' /\ dbErrors \in Nat /\ dbErrors' \in Nat
    BY DEF TypeOK
  <1>2. \A x \in Tasks \ {t} : RunOf(x)' = RunOf(x)
    BY <1>t DEF TypeOK, AssignStep, AssignInsert, AssignInsertFails, Spawn, SpawnFails, Register, AssignReplies,
           RunOf, FinalStatus, process
  <1>3. RunMap' = [RunMap EXCEPT ![t] = RunOf(t)'] /\ RunMap[t] = RunOf(t)
    BY <1>2, RunMoves
  <1>4. CASE AssignInsert(t)
    <2>1. /\ assign[t] = "new" /\ assign'[t] = "inserted" /\ row' = [row EXCEPT ![t] = "running"]
          /\ UNCHANGED <<req, published, dbErrors>>
      BY <1>4, <1>t DEF AssignInsert, TypeOK
    <2>2. RunOf(t) = "none" /\ RunOf(t)' = "accepted"
      BY <2>1 DEF RunFacts
    <2>3. StopMap' = StopMap /\ TargetMap' = TargetMap /\ ToldSet' = ToldSet /\ Unsure' = Unsure
      BY <2>1 DEF StopMap, TargetMap, ToldSet, Unsure
    <2>4. Life!Accept(t)
      BY <1>3, <2>1, <2>2, <2>3 DEF Life!Accept, Life!Runs, RunMap, StopMap, TargetMap, ToldSet, Unsure
    <2> QED
      BY <2>4 DEF Life!Next
  <1>5. CASE AssignInsertFails(t)
    <2>1. /\ assign[t] = "new" /\ assign'[t] = "refused" /\ dbErrors' = dbErrors + 1
          /\ UNCHANGED <<row, req, published>>
      BY <1>5, <1>t DEF AssignInsertFails, DbError, TypeOK
    <2>2. RunOf(t) = "none" /\ RunOf(t)' = "gone"
      BY <2>1 DEF RunFacts
    <2>3. StopMap' = StopMap /\ TargetMap' = TargetMap /\ ToldSet' = ToldSet /\ Unsure' = TRUE
      BY <1>t, <2>1 DEF StopMap, TargetMap, ToldSet, Unsure
    <2>4. Life!Refuse(t)
      BY <1>3, <2>1, <2>2, <2>3 DEF Life!Refuse, Life!Runs, Life!MayFail, RunMap, StopMap, TargetMap, ToldSet, Unsure
    <2> QED
      BY <2>4 DEF Life!Next
  <1>6. CASE Spawn(t)
    <2>1. /\ assign[t] = "inserted" /\ assign'[t] = "spawned" /\ waiter'[t] = "waiting"
          /\ UNCHANGED <<row, req, published, dbErrors>>
      BY <1>6, <1>t DEF Spawn, TypeOK
    <2>2. RunOf(t) = "accepted" /\ RunOf(t)' = "open"
      BY <2>1 DEF RunFacts
    <2>3. StopMap' = StopMap /\ TargetMap' = TargetMap /\ ToldSet' = ToldSet /\ Unsure' = Unsure
      BY <2>1 DEF StopMap, TargetMap, ToldSet, Unsure
    <2>4. Life!Launch(t)
      BY <1>3, <2>1, <2>2, <2>3 DEF Life!Launch, Life!Runs, RunMap, StopMap, TargetMap, ToldSet, Unsure
    <2> QED
      BY <2>4 DEF Life!Next
  <1>7. CASE SpawnFails(t)
    <2>1. /\ assign[t] = "inserted" /\ assign'[t] = "refused"
          /\ UNCHANGED <<row, req, published, dbErrors>>
      BY <1>7, <1>t DEF SpawnFails, TypeOK
    <2>2. RunOf(t) = "accepted" /\ RunOf(t)' = "gone"
      BY <2>1 DEF RunFacts
    <2>3. StopMap' = StopMap /\ TargetMap' = TargetMap /\ ToldSet' = ToldSet /\ Unsure' = Unsure
      BY <2>1 DEF StopMap, TargetMap, ToldSet, Unsure
    <2>4. Life!Refuse(t)
      BY <1>3, <2>1, <2>2, <2>3 DEF Life!Refuse, Life!Runs, Life!MayFail, RunMap, StopMap, TargetMap, ToldSet, Unsure
    <2> QED
      BY <2>4 DEF Life!Next
  <1>8. CASE Register(t) \/ AssignReplies(t)
    <2>1. /\ assign[t] \in {"spawned", "registered"} /\ assign'[t] \in {"registered", "replied"}
          /\ UNCHANGED <<row, req, waiter, child, dbErrors>>
      BY <1>8, <1>t DEF Register, AssignReplies, TypeOK, process
    <2>2. RunOf(t)' = RunOf(t)
      BY <2>1 DEF RunOf, FinalStatus
    <2>3. ToldSet' = ToldSet
      <3>1. CASE Register(t)
        BY <3>1 DEF Register, ToldSet
      <3>2. CASE AssignReplies(t)
        <4>1. Publish(t, "running", 0) /\ "running" \notin Terminal
          BY <3>2 DEF AssignReplies, Terminal
        <4> QED
          BY <4>1, ToldGrows
      <3> QED
        BY <1>8, <3>1, <3>2
    <2>4. StopMap' = StopMap /\ TargetMap' = TargetMap
      BY <2>1 DEF StopMap, TargetMap
    <2> QED
      BY <1>2, <2>1, <2>2, <2>3, <2>4, SilentStep
  <1> QED
    BY <1>4, <1>5, <1>6, <1>7, <1>8 DEF AssignStep

LEMMA WaiterMaps ==
  ASSUME TypeOK, TypeOK', RunFacts, RunFacts', NEW t \in Tasks, WaiterStep(t)
  PROVE  [Life!Next]_Life!vars
  <1> USE DEF requests, events, bounds
  <1>t. dbErrors \in Nat /\ dbErrors' \in Nat /\ UNCHANGED <<req, assign, child>>
    BY DEF TypeOK, WaiterStep, WaiterReaps, WaiterStores, WaiterStoreFails, WaiterPublishes, WaiterRemoves, process
  <1>1. StopMap' = StopMap /\ TargetMap' = TargetMap
    BY <1>t DEF StopMap, TargetMap
  <1>2. \A x \in Tasks \ {t} : RunOf(x)' = RunOf(x)
    BY <1>t DEF TypeOK, WaiterStep, WaiterReaps, WaiterStores, WaiterStoreFails, WaiterPublishes, WaiterRemoves,
           RunOf, FinalStatus
  <1>3. RunMap' = [RunMap EXCEPT ![t] = RunOf(t)'] /\ RunMap[t] = RunOf(t)
    BY <1>2, RunMoves
  <1>e. FinalStatus(t) \in Life!Ends /\ FinalStatus(t) \in Terminal /\ FinalStatus(t)' = FinalStatus(t)
    BY <1>t DEF FinalStatus, Life!Ends, Terminal
  <1>4. CASE WaiterStores(t) \/ WaiterStoreFails(t)
    <2>1. /\ waiter[t] = "reaped" /\ waiter'[t] = "stored" /\ UNCHANGED published
          /\ \/ row' = [row EXCEPT ![t] = FinalStatus(t)] /\ UNCHANGED dbErrors
             \/ dbErrors' = dbErrors + 1 /\ UNCHANGED row
      BY <1>4 DEF WaiterStores, WaiterStoreFails, DbError, TypeOK
    <2>2. RunOf(t) = "open" /\ RunOf(t)' = FinalStatus(t)
      BY <1>e, <2>1 DEF RunFacts
    <2>3. ToldSet' = ToldSet
      BY <2>1 DEF ToldSet
    <2>4. \/ row' = [row EXCEPT ![t] = FinalStatus(t)] /\ Unsure' = Unsure
          \/ Unsure' = TRUE /\ UNCHANGED row
      BY <1>t, <2>1 DEF Unsure
    <2>5. Life!Finish(t, FinalStatus(t))
      BY <1>1, <1>3, <2>2, <2>3, <2>4 DEF Life!Finish, Life!Runs, RunMap, StopMap, TargetMap, ToldSet, Unsure
    <2> QED
      BY <1>e, <2>5 DEF Life!Next
  <1>5. CASE WaiterPublishes(t)
    <2>1. /\ waiter[t] = "stored" /\ waiter'[t] = "published" /\ Publish(t, FinalStatus(t), 0)
          /\ UNCHANGED <<row, dbErrors>>
      BY <1>5 DEF WaiterPublishes, TypeOK
    <2>2. RunOf(t) = FinalStatus(t) /\ RunOf(t)' = FinalStatus(t)
      BY <1>e, <2>1 DEF RunFacts
    <2>3. ToldSet' = ToldSet \cup {<<t, FinalStatus(t)>>}
      BY <1>e, <2>1, ToldGrows
    <2>4. RunMap' = RunMap /\ Unsure' = Unsure
      BY <1>2, <2>1, <2>2, RunStays DEF Unsure
    <2>5. Life!Announce(t)
      BY <1>1, <1>3, <1>e, <2>1, <2>2, <2>3, <2>4 DEF Life!Announce, RunMap, StopMap, TargetMap, ToldSet, Unsure
    <2> QED
      BY <2>5 DEF Life!Next
  <1>6. CASE WaiterReaps(t) \/ WaiterRemoves(t)
    <2>1. /\ waiter[t] \in {"waiting", "published"}
          /\ waiter'[t] = IF waiter[t] = "waiting" THEN "reaped" ELSE "done"
          /\ UNCHANGED <<row, published, dbErrors>>
      BY <1>6 DEF WaiterReaps, WaiterRemoves, TypeOK
    <2>2. RunOf(t)' = RunOf(t)
      BY <1>e, <1>t, <2>1 DEF RunOf
    <2>3. ToldSet' = ToldSet
      BY <2>1 DEF ToldSet
    <2> QED
      BY <1>1, <1>2, <2>1, <2>2, <2>3, SilentStep
  <1> QED
    BY <1>4, <1>5, <1>6 DEF WaiterStep

(* The child and the reader move nothing that a client sees of a status.   *)
LEMMA OutputMaps ==
  ASSUME TypeOK, TypeOK', RunFacts, RunFacts', NEW t \in Tasks, ChildStep(t) \/ ReaderStep(t) \/ PublishOutput(t)
  PROVE  [Life!Next]_Life!vars
  <1> USE DEF requests, events, bounds
  <1>1. /\ UNCHANGED <<row, req, assign, waiter>>
        /\ child' = child \/ ChildExits(t)
        /\ dbErrors' = dbErrors \/ (dbErrors' = dbErrors + 1)
    BY DEF ChildStep, ChildWrites, ChildExits, ReaderStep, ReaderStarts, ReaderGivesUp, HandshakeSkips,
        HandshakeSucceeds, HandshakeFails, PumpReads, McpPumpDropsEvent,
        McpPumpSkips, PumpPanics, McpPumpBreaks, PumpEnds, ReaderSaveTail,
        ReaderSaveTailFails, PublishOutput, DbError, process
  <1>2. StopMap' = StopMap /\ TargetMap' = TargetMap
    BY <1>1 DEF StopMap, TargetMap
  <1>3. ASSUME NEW x \in Tasks PROVE RunOf(x)' = RunOf(x)
    <2>1. CASE child'[x] = child[x]
      BY <1>1, <2>1 DEF RunOf, FinalStatus
    <2>2. CASE child'[x] # child[x]
      <3>1. child[x] = "alive"
        BY <1>1, <2>2 DEF ChildExits, TypeOK
      <3>2. waiter[x] \notin {"stored", "published", "done"}
        BY <3>1 DEF RunFacts, Exited
      <3> QED
        BY <1>1, <3>2 DEF RunOf
    <2> QED
      BY <2>1, <2>2
  <1>4. ToldSet' = ToldSet
    <2>1. CASE PublishOutput(t)
      <3>1. PICK n : Publish(t, "output", n)
        BY <2>1 DEF PublishOutput
      <3>2. "output" \notin Terminal
        BY DEF Terminal
      <3> QED
        BY <3>1, <3>2, ToldGrows
    <2>2. CASE ChildStep(t) \/ ReaderStep(t)
      <3>1. UNCHANGED published
        BY <2>2 DEF ChildStep, ChildWrites, ChildExits, ReaderStep, ReaderStarts, ReaderGivesUp, HandshakeSkips,
          HandshakeSucceeds, HandshakeFails, PumpReads, McpPumpDropsEvent,
          McpPumpSkips, PumpPanics, McpPumpBreaks, PumpEnds, ReaderSaveTail, ReaderSaveTailFails
      <3> QED
        BY <3>1 DEF ToldSet
    <2> QED
      BY <2>1, <2>2
  <1>5. CASE dbErrors' = dbErrors
    BY <1>1, <1>2, <1>3, <1>4, <1>5, SilentStep
  <1>6. CASE dbErrors' = dbErrors + 1
    <2>1. Unsure' = TRUE /\ RunMap' = RunMap
      BY <1>3, <1>6, RunStays DEF Unsure, TypeOK
    <2>2. Life!LoseWrite
      BY <1>1, <1>2, <1>4, <2>1 DEF Life!LoseWrite, RunMap, StopMap, TargetMap, ToldSet, Unsure
    <2> QED
      BY <2>2 DEF Life!Next
  <1> QED
    BY <1>1, <1>5, <1>6

LEMMA CancelMaps ==
  ASSUME TypeOK, TypeOK', RequestProgress, NEW c \in Cancels,
         CancelStep(c) \/ \E t \in Tasks \cup {NoTask}, s \in Signals : CancelSends(c, t, s)
  PROVE  [Life!Next]_Life!vars
  <1> USE DEF requests, events, bounds
  <1>t. dbErrors \in Nat /\ dbErrors' \in Nat /\ UNCHANGED <<waiter, assign, child>>
    BY DEF TypeOK, CancelStep, CancelKills, CancelKillRefused, CancelLocks, CancelWrites, CancelMisses,
        CancelFlips, CancelUnknown, CancelFlipFails, CancelPublishes, CancelSends, process
  <1>r. RunMap' = RunMap /\ \A x \in Tasks : RunOf(x)' = RunOf(x)
    BY <1>t DEF RunMap, RunOf, FinalStatus
  <1>1. CASE CancelKills(c) \/ CancelKillRefused(c) \/ CancelWrites(c) \/ CancelUnknown(c) \/ CancelFlipFails(c)
    <2>1. PICK to \in {"signalled", "error"} :
            /\ req' = [req EXCEPT ![c].pc = to] /\ req[c].pc \in {"sent", "writing", "missed"}
            /\ UNCHANGED <<row, published>> /\ (dbErrors' = dbErrors \/ dbErrors' = dbErrors + 1)
      BY <1>1 DEF CancelKills, CancelKillRefused, CancelWrites, CancelUnknown, CancelFlipFails, DbError
    <2>2. StopOf(req[c].pc) = "asked" /\ StopOf(to) = "closed"
      BY <2>1 DEF StopOf
    <2>3. StopMap' = [StopMap EXCEPT ![c] = "closed"] /\ StopMap[c] = "asked" /\ TargetMap' = TargetMap
      <3>1. req' = [req EXCEPT ![c].pc = to]
        BY <2>1
      <3>2. StopMap' = [StopMap EXCEPT ![c] = StopOf(to)] /\ StopMap[c] = StopOf(req[c].pc) /\ TargetMap' = TargetMap
        BY <3>1, RequestMoves, Zenon
      <3> QED
        BY <2>2, <3>2
    <2>4. ToldSet' = ToldSet /\ Unsure' \in {Unsure, TRUE}
      <3>1. ToldSet' = ToldSet
        BY <2>1 DEF ToldSet
      <3>2. CASE dbErrors' = dbErrors
        BY <3>1, <3>2 DEF Unsure
      <3>3. CASE dbErrors' = dbErrors + 1
        <4>1. dbErrors' > 0
          BY <1>t, <3>3
        <4> QED
          BY <3>1, <4>1 DEF Unsure
      <3> QED
        BY <2>1, <3>2, <3>3
    <2>5. Life!Close(c)
      BY <1>r, <2>1, <2>3, <2>4 DEF Life!Close, Life!Stops, Life!MayFail, RunMap, StopMap, TargetMap, ToldSet, Unsure
    <2> QED
      BY <2>5 DEF Life!Next
  <1>2. CASE CancelLocks(c) \/ CancelMisses(c)
    <2>1. PICK to \in {"writing", "missed"} :
            /\ req' = [req EXCEPT ![c].pc = to] /\ req[c].pc = "sent"
            /\ UNCHANGED <<row, published, dbErrors>>
      BY <1>2 DEF CancelLocks, CancelMisses
    <2>2. StopOf(req[c].pc) = StopOf(to)
      BY <2>1 DEF StopOf
    <2>3. StopMap' = StopMap /\ TargetMap' = TargetMap
      BY <2>1, <2>2, RequestStays
    <2>4. ToldSet' = ToldSet
      BY <2>1 DEF ToldSet
    <2> QED
      BY <1>r, <2>1, <2>3, <2>4, SilentStep
  <1>3. CASE CancelFlips(c)
    <2>1. /\ req' = [req EXCEPT ![c].pc = "flipped"] /\ req[c].pc = "missed" /\ req[c].task \in Tasks
          /\ row' = [row EXCEPT ![req[c].task] = "cancelled"] /\ UNCHANGED <<published, dbErrors>>
      BY <1>3 DEF CancelFlips
    <2>2. StopOf(req[c].pc) = "asked" /\ StopOf("flipped") = "stored"
      BY <2>1 DEF StopOf
    <2>3. /\ StopMap' = [StopMap EXCEPT ![c] = "stored"] /\ StopMap[c] = "asked" /\ TargetMap' = TargetMap
          /\ TargetMap[c] = req[c].task
      <3>1. req' = [req EXCEPT ![c].pc = "flipped"]
        BY <2>1
      <3>2. /\ StopMap' = [StopMap EXCEPT ![c] = StopOf("flipped")] /\ StopMap[c] = StopOf(req[c].pc)
            /\ TargetMap' = TargetMap /\ TargetMap[c] = req[c].task
        BY <3>1, RequestMoves, Zenon
      <3> QED
        BY <2>2, <3>2
    <2>4. ToldSet' = ToldSet /\ Unsure' = Unsure
      BY <2>1 DEF ToldSet, Unsure
    <2>5. Life!StoreStop(c)
      BY <1>r, <2>1, <2>3, <2>4 DEF Life!StoreStop, Life!Stops, RunMap, StopMap, TargetMap, ToldSet, Unsure
    <2> QED
      BY <2>5 DEF Life!Next
  <1>4. CASE CancelPublishes(c)
    <2>1. /\ req' = [req EXCEPT ![c].pc = "recorded"] /\ req[c].pc = "flipped"
          /\ Publish(req[c].task, "cancelled", 0) /\ UNCHANGED <<row, dbErrors>>
      BY <1>4 DEF CancelPublishes
    <2>2. StopOf(req[c].pc) = "stored" /\ StopOf("recorded") = "closed"
      BY <2>1 DEF StopOf
    <2>3. /\ StopMap' = [StopMap EXCEPT ![c] = "closed"] /\ StopMap[c] = "stored" /\ TargetMap' = TargetMap
          /\ TargetMap[c] = req[c].task
      <3>1. req' = [req EXCEPT ![c].pc = "recorded"]
        BY <2>1
      <3>2. /\ StopMap' = [StopMap EXCEPT ![c] = StopOf("recorded")] /\ StopMap[c] = StopOf(req[c].pc)
            /\ TargetMap' = TargetMap /\ TargetMap[c] = req[c].task
        BY <3>1, RequestMoves, Zenon
      <3> QED
        BY <2>2, <3>2
    <2>4. "cancelled" \in Terminal
      BY DEF Terminal
    <2>5. ToldSet' = ToldSet \cup {<<req[c].task, "cancelled">>} /\ Unsure' = Unsure
      BY <2>1, <2>4, ToldGrows DEF Unsure
    <2>6. Life!AnnounceStop(c)
      BY <1>r, <2>1, <2>3, <2>5 DEF Life!AnnounceStop, Life!Stops, RunMap, StopMap, TargetMap, ToldSet, Unsure
    <2> QED
      BY <2>6 DEF Life!Next
  <1>5. ASSUME NEW t \in Tasks \cup {NoTask}, NEW s \in Signals, CancelSends(c, t, s) PROVE [Life!Next]_Life!vars
    <2>1. /\ req' = [req EXCEPT ![c] = [pc |-> "sent", task |-> t, sig |-> s]] /\ req[c].pc = "unsent"
          /\ UNCHANGED <<row, published, dbErrors>> /\ (t \in Tasks => row[t] # "absent")
      BY <1>5 DEF CancelSends
    <2>2. StopOf("sent") = "asked" /\ StopOf("unsent") = "unsent"
      BY DEF StopOf
    <2>3. \A d \in Cancels : /\ req'[d].pc = IF d = c THEN "sent" ELSE req[d].pc
                             /\ req'[d].task = IF d = c THEN t ELSE req[d].task
      BY <2>1 DEF TypeOK
    <2>4. \A d \in Cancels : StopOf(req'[d].pc) = IF d = c THEN "asked" ELSE StopOf(req[d].pc)
      BY <2>2, <2>3
    <2>5. StopMap' = [StopMap EXCEPT ![c] = "asked"] /\ StopMap[c] = "unsent"
      BY <2>1, <2>2, <2>4 DEF StopMap
    <2>6. TargetMap' = [TargetMap EXCEPT ![c] = t]
      BY <2>3 DEF TargetMap
    <2>7. ToldSet' = ToldSet /\ Unsure' = Unsure
      BY <2>1 DEF ToldSet, Unsure
    <2>8. Life!Ask(c, t)
      BY <1>r, <2>1, <2>5, <2>6, <2>7 DEF Life!Ask, Life!Stops, RunMap, StopMap, TargetMap, ToldSet, Unsure
    <2> QED
      BY <2>8 DEF Life!Next
  <1> QED
    BY <1>1, <1>2, <1>3, <1>4, <1>5 DEF CancelStep

LEMMA RestartMaps ==
  ASSUME TypeOK, RunFacts, RunFacts', Restart
  PROVE  Life!Restart
  <1>1. /\ UNCHANGED <<row, dbErrors>> /\ published' = {}
        /\ \A t \in Tasks : assign'[t] = IF assign[t] = "new" THEN "new" ELSE "lost"
        /\ \A c \in Cancels : /\ req'[c].pc = IF req[c].pc = "unsent" THEN "unsent" ELSE "lost"
                              /\ req'[c].task = req[c].task
    BY DEF Restart, TypeOK
  <1>2. ASSUME NEW t \in Tasks PROVE RunOf(t)' = IF RunOf(t) = "none" THEN "none" ELSE "gone"
    <2>1. CASE assign[t] = "new"
      BY <1>1, <2>1 DEF RunFacts
    <2>2. CASE assign[t] # "new"
      <3>1. RunOf(t) # "none"
        BY <2>2 DEF RunOf, FinalStatus
      <3>2. RunOf(t)' = "gone"
        BY <1>1, <2>2 DEF RunFacts
      <3> QED
        BY <3>1, <3>2
    <2> QED
      BY <2>1, <2>2
  <1>3. ASSUME NEW c \in Cancels
        PROVE  StopOf(req'[c].pc) = IF StopOf(req[c].pc) = "unsent" THEN "unsent" ELSE "closed"
    BY <1>1 DEF StopOf
  <1>4. RunMap' = [t \in Tasks |-> IF RunMap[t] = "none" THEN "none" ELSE "gone"]
    BY <1>2 DEF RunMap
  <1>5. StopMap' = [c \in Cancels |-> IF StopMap[c] = "unsent" THEN "unsent" ELSE "closed"]
    BY <1>3 DEF StopMap
  <1>6. TargetMap' = TargetMap
    BY <1>1 DEF TargetMap
  <1>7. ToldSet' = {} /\ Unsure' = Unsure
    BY <1>1 DEF ToldSet, Unsure
  <1> QED
    BY <1>1, <1>4, <1>5, <1>6, <1>7 DEF Life!Restart, RunMap, StopMap, TargetMap, ToldSet, Unsure

LEMMA LifeStep == IInv /\ IInv' /\ RunFacts /\ RunFacts' /\ [Next]_vars => [Life!Next]_Life!vars
  <1> SUFFICES ASSUME IInv, IInv', RunFacts, RunFacts', [Next]_vars PROVE [Life!Next]_Life!vars
    OBVIOUS
  <1>1. TypeOK /\ TypeOK' /\ RequestProgress
    BY DEF IInv
  <1>2. CASE UNCHANGED vars
    <2>1. UNCHANGED <<row, dbErrors, assign, waiter, child, req, published>>
      BY <1>2 DEF vars, requests, process, events, bounds
    <2>2. \A x \in Tasks : RunOf(x)' = RunOf(x)
      BY <2>1 DEF RunOf, FinalStatus
    <2>3. StopMap' = StopMap /\ TargetMap' = TargetMap /\ ToldSet' = ToldSet
      BY <2>1 DEF StopMap, TargetMap, ToldSet
    <2> QED
      BY <2>1, <2>2, <2>3, SilentStep
  <1>3. CASE Restart
    BY <1>1, <1>3, RestartMaps DEF Life!Next
  <1>4. ASSUME NEW t \in Tasks, \/ AssignStep(t) \/ ChildStep(t) \/ ReaderStep(t)
                                \/ PublishOutput(t) \/ WaiterStep(t)
        PROVE  [Life!Next]_Life!vars
    BY <1>1, <1>4, AssignMaps, WaiterMaps, OutputMaps
  <1>5. ASSUME NEW c \in Cancels,
               CancelStep(c) \/ \E t \in Tasks \cup {NoTask}, s \in Signals : CancelSends(c, t, s)
        PROVE  [Life!Next]_Life!vars
    BY <1>1, <1>5, CancelMaps
  <1> QED
    BY <1>2, <1>3, <1>4, <1>5 DEF Next

LEMMA LifeInit == Init => Life!Init
  <1> SUFFICES ASSUME Init PROVE Life!Init
    OBVIOUS
  <1>1. \A t \in Tasks : RunOf(t) = "none"
    BY DEF Init, RunOf
  <1>2. \A c \in Cancels : StopOf(req[c].pc) = "unsent" /\ req[c].task = NoTask
    BY DEF Init, StopOf
  <1> QED
    BY <1>1, <1>2 DEF Init, Life!Init

LEMMA LostInit == Init => LostIsGone
  BY DEF Init, LostIsGone

(* The supervisor keeps the life of a task for every set of tasks and of   *)
(* cancel requests and for every bound: the run of a task ends and is      *)
(* stored once, a request stores once, an ended task never runs again, and *)
(* no end is announced that was neither stored nor lost.                   *)
THEOREM ImplementsTaskLife == Spec => KeepsLife
  <1>1. Init => IInv /\ LostIsGone
    BY InitIInv, LostInit
  <1>2. IInv /\ LostIsGone /\ [Next]_vars => LostIsGone'
    BY LostStep DEF IInv
  <1>3. IInv /\ LostIsGone => RunFacts
    BY RunIs
  <1>4. IInv /\ IInv' /\ RunFacts /\ RunFacts' /\ [Next]_vars => [Life!Next]_Life!vars
    BY LifeStep
  <1> QED
    BY <1>1, <1>2, <1>3, <1>4, LifeInit, Invariance, PTL DEF Spec, KeepsLife, Life!Spec

-----------------------------------------------------------------------------
(* How a stored end can change.                                            *)
EndChanges(t) ==
    \/ waiter[t] = "reaped" /\ row[t] = "cancelled" /\ row'[t] = FinalStatus(t)
    \/ row'[t] = "cancelled" /\ \E c \in Cancels : req[c].pc = "missed" /\ req[c].task = t

LEMMA EndStep ==
  ASSUME IInv, LostIsGone, [Next]_vars, NEW t \in Tasks, row[t] \in Terminal, row'[t] # row[t]
  PROVE  EndChanges(t)
  <1>0. TypeOK /\ NewIsAbsent /\ EndHasCause
    BY DEF IInv
  <1>1. ASSUME NEW x \in Tasks, AssignStep(x) PROVE row'[t] = row[t]
    BY <1>0, <1>1 DEF TypeOK, NewIsAbsent, Terminal, AssignStep, AssignInsert, AssignInsertFails, Spawn, SpawnFails,
       Register, AssignReplies
  <1>2. ASSUME NEW x \in Tasks, ChildStep(x) \/ ReaderStep(x) \/ PublishOutput(x) PROVE row' = row
    BY <1>2 DEF ChildStep, ChildWrites, ChildExits, ReaderStep, ReaderStarts, ReaderGivesUp, HandshakeSkips,
        HandshakeSucceeds, HandshakeFails, PumpReads, McpPumpDropsEvent,
        McpPumpSkips, PumpPanics, McpPumpBreaks, PumpEnds, ReaderSaveTail,
        ReaderSaveTailFails, PublishOutput
  <1>3. ASSUME NEW x \in Tasks, WaiterStep(x) PROVE EndChanges(t)
    <2>1. x = t /\ waiter[t] = "reaped" /\ row'[t] = FinalStatus(t)
      BY <1>0, <1>3 DEF TypeOK, WaiterStep, WaiterReaps, WaiterStores, WaiterStoreFails, WaiterPublishes, WaiterRemoves
    <2>2. assign[t] # "lost"
      BY <2>1 DEF LostIsGone
    <2>3. row[t] = "cancelled"
      BY <1>0, <2>1, <2>2 DEF EndHasCause, Terminal
    <2> QED
      BY <2>1, <2>3 DEF EndChanges
  <1>4. ASSUME NEW c \in Cancels, CancelStep(c) PROVE EndChanges(t)
    <2>1. CASE CancelFlips(c)
      BY <1>0, <2>1 DEF TypeOK, CancelFlips, EndChanges
    <2>2. ~CancelFlips(c) => row' = row
      BY <1>4 DEF CancelStep, CancelKills, CancelKillRefused, CancelLocks, CancelWrites, CancelMisses,
         CancelUnknown, CancelFlipFails, CancelPublishes
    <2> QED
      BY <2>1, <2>2
  <1>5. (\E c \in Cancels, x \in Tasks \cup {NoTask}, s \in Signals : CancelSends(c, x, s)) \/ Restart \/ UNCHANGED vars
          => row' = row
    BY DEF CancelSends, Restart, vars
  <1> QED
    BY <1>1, <1>2, <1>3, <1>4, <1>5 DEF Next

(* A stored end is replaced in two ways only, and never by "running": the  *)
(* exit of the child is stored over a cancel that was recorded in between, *)
(* and a cancel request that found no entry stores over whatever is there. *)
THEOREM EndsAreReplaced ==
  Spec => [][\A t \in Tasks : row[t] \in Terminal /\ row'[t] # row[t] => EndChanges(t)]_vars
  <1> DEFINE A == \A t \in Tasks : row[t] \in Terminal /\ row'[t] # row[t] => EndChanges(t)
  <1>1. Init => LostIsGone
    BY LostInit
  <1>2. IInv /\ LostIsGone /\ [Next]_vars => LostIsGone'
    BY LostStep DEF IInv
  <1>3. IInv /\ LostIsGone /\ [Next]_vars => [A]_vars
    BY EndStep
  <1> HIDE DEF A
  <1>4. Spec => [][A]_vars
    BY <1>1, <1>2, <1>3, Invariance, PTL DEF Spec
  <1> QED
    BY <1>4 DEF A
=============================================================================
