------------------------ MODULE ModelDownloadProofs ------------------------
(***************************************************************************)
(* What the downloader keeps for every model, any number of callers, files *)
(* and crashes, proved with TLAPS: unless the partial file was disturbed,  *)
(* the model in place is whole, and what a failed attempt left over can be *)
(* continued.                                                              *)
(***************************************************************************)
EXTENDS ModelDownload, TLAPS

(* A file that nobody refers to is forgotten.                              *)
Clean == \A f \in Files : f \notin Used => content[f] = <<>>

(* One call at a time works on the partial file, and no earlier write is   *)
(* on its way while one does; what is moved is the whole model as far as   *)
(* the downloader can tell.                                                *)
DiskInv ==
    ~Disturbed =>
        /\ \A c, d \in Working : c = d
        /\ late # {} => Working = {}
        /\ \A w \in late : w.file = tmp
        /\ \A c \in Calls : pc[c] = "stream" => handle[c] = tmp
        /\ \A c \in Calls : pc[c] = "move" => tmp # NoFile /\ (Vouched => content[tmp] = Whole)
        /\ dest # NoFile => dest # tmp /\ (Vouched => content[dest] = Whole)

Begins(s) == Len(s) <= Pieces /\ \A i \in DOMAIN s : s[i] = i

(* Where a call goes on is where the partial file ends.                    *)
ResumeInv ==
    ~Disturbed /\ mixed = 0 =>
        /\ tmp # NoFile => Begins(content[tmp])
        /\ \A w \in late : w.piece = Len(content[tmp]) + 1
        /\ \A c \in Calls : pc[c] = "head" => start[c] = IF tmp = NoFile THEN 0 ELSE Len(content[tmp])
        /\ \A c \in Calls : pc[c] = "stream" => next[c] = Len(content[tmp]) + 1

Receives(c) == GetRange(c) \/ GetWhole(c)
GivesUp(c) == RequestFails(c) \/ Cancelled(c)
Goes(c) == Call(c) \/ Complete(c) \/ HeadMisleads(c) \/ Verify(c) \/ Retry(c) \/ Finish(c)
Ends(c) == StreamEnds(c) \/ StreamEndsEarly(c)

LEMMA NextSplits ==
  Next => \/ \E c \in Calls : \/ Goes(c) \/ Probe(c) \/ Receives(c) \/ Piece(c) \/ Ends(c)
                              \/ Move(c) \/ Remove(c) \/ GivesUp(c)
          \/ \E w \in late : Lands(w)
          \/ CancelDownload \/ DeleteModel \/ Crash
  BY DEF Next, Step, Receives, GivesUp, Goes, Ends

LEMMA Appended ==
  ASSUME NEW S, NEW s \in Seq(S), NEW e \in S
  PROVE  /\ Append(s, e) \in Seq(S) /\ Len(Append(s, e)) = Len(s) + 1
         /\ DOMAIN Append(s, e) = DOMAIN s \cup {Len(s) + 1}
         /\ \A i \in DOMAIN s : Append(s, e)[i] = s[i]
         /\ Append(s, e)[Len(s) + 1] = e
  OBVIOUS

LEMMA EmptyIn == \A S : <<>> \in Seq(S) /\ Len(<<>>) = 0
  OBVIOUS

LEMMA BeginsLonger ==
  ASSUME NEW s \in Seq(1..Pieces), Begins(s), NEW k \in 1..Pieces, k = Len(s) + 1
  PROVE  Begins(Append(s, k))
  <1> DEFINE S == 1..Pieces
  <1>1. s \in Seq(S) /\ k \in S
    OBVIOUS
  <1> HIDE DEF S
  <1>2. /\ Len(Append(s, k)) = Len(s) + 1
        /\ DOMAIN Append(s, k) = DOMAIN s \cup {Len(s) + 1}
        /\ \A i \in DOMAIN s : Append(s, k)[i] = s[i]
        /\ Append(s, k)[Len(s) + 1] = k
    BY <1>1, Appended
  <1> QED
    BY <1>2 DEF Begins

LEMMA PieceAppended ==
  ASSUME NEW s \in Seq(1..Pieces), NEW k \in 1..Pieces
  PROVE  Append(s, k) \in Seq(1..Pieces) /\ Len(Append(s, k)) = Len(s) + 1
  OBVIOUS

LEMMA BeginsEmpty == Begins(<<>>)
  BY DownloadAssumption DEF Begins

(* What an action may do with a fresh file and with what is kept.          *)
LEMMA FreshFile ==
  ASSUME Files \ Used # {}, NEW f, f = CHOOSE g \in Files : g \notin Used
  PROVE  f \in Files /\ f \notin Used
  <1>1. \E g \in Files : g \notin Used
    OBVIOUS
  <1> QED
    BY <1>1

LEMMA Opened ==
  ASSUME TypeOK, NEW c \in Calls, Open(c)
  PROVE  /\ UNCHANGED <<dest, content, late>> /\ tmp' \in Files
         /\ handle' = [handle EXCEPT ![c] = tmp']
         /\ \/ tmp # NoFile /\ tmp' = tmp
            \/ tmp = NoFile /\ tmp' \notin Used
  BY FreshFile DEF Open, TypeOK, disk

LEMMA Kept ==
  ASSUME NEW new \in [Files -> Seq(1..Pieces)], Keep(new)
  PROVE  /\ content' \in [Files -> Seq(1..Pieces)]
         /\ \A f \in Files : f \in Used' => content'[f] = new[f]
         /\ Clean'
  <1>1. \A f \in Files : content'[f] = IF f \in Used' THEN new[f] ELSE <<>>
    BY DEF Keep
  <1>2. \A f \in Files : new[f] \in Seq(1..Pieces)
    OBVIOUS
  <1>3. content' \in [Files -> Seq(1..Pieces)]
    <2>1. \A f \in Files : (IF f \in Used' THEN new[f] ELSE <<>>) \in Seq(1..Pieces)
      BY <1>2, EmptyIn
    <2> QED
      BY <2>1 DEF Keep
  <1> QED
    BY <1>1, <1>3 DEF Clean

LEMMA KeptPaths ==
  ASSUME TypeOK', NEW new \in [Files -> Seq(1..Pieces)], Keep(new)
  PROVE  /\ tmp' # NoFile => content'[tmp'] = new[tmp']
         /\ dest' # NoFile => content'[dest'] = new[dest']
  <1>1. tmp' \in Used' /\ dest' \in Used'
    BY DEF Used
  <1>2. tmp' \in Files \cup {NoFile} /\ dest' \in Files \cup {NoFile}
    BY DEF TypeOK
  <1>3. \A f \in Files : f \in Used' => content'[f] = new[f]
    BY Kept
  <1> QED
    BY <1>1, <1>2, <1>3

(* How an attempt ends.                                                    *)
LEMMA Given ==
  ASSUME TypeOK, NEW c \in Calls, GivesUp(c)
  PROVE  /\ pc' = [pc EXCEPT ![c] = "failed"] /\ pc[c] \in {"head", "stream"}
         /\ handle' = [handle EXCEPT ![c] = NoFile]
         /\ start' = [start EXCEPT ![c] = 0] /\ next' = [next EXCEPT ![c] = 1]
         /\ UNCHANGED <<site, attempt, cancel, active, tmp, dest, counts, ghosts>>
         /\ Keep(content)
         /\ \/ late' = late
            \/ /\ pc[c] = "stream" /\ next[c] \in 1..Pieces /\ handle[c] \in Files
               /\ late' = late \cup {[file |-> handle[c], piece |-> next[c]]}
  <1>1. Give(c) /\ pc[c] \in {"head", "stream"}
    BY DEF GivesUp, RequestFails, Cancelled
  <1>2. late' = late \/ (pc[c] = "stream" /\ next[c] <= Pieces
                         /\ late' = late \cup {[file |-> handle[c], piece |-> next[c]]})
    BY <1>1 DEF Give
  <1>3. pc[c] = "stream" => handle[c] \in Files
    BY DEF TypeOK
  <1>4. next[c] <= Pieces => next[c] \in 1..Pieces
    BY DownloadAssumption DEF TypeOK
  <1> QED
    BY <1>1, <1>2, <1>3, <1>4 DEF Give, Become

LEMMA TypeInit == Init => TypeOK /\ Clean /\ DiskInv /\ ResumeInv
  <1> SUFFICES ASSUME Init PROVE TypeOK /\ Clean /\ DiskInv /\ ResumeInv
    OBVIOUS
  <1>1. content \in [Files -> Seq(1..Pieces)] /\ Clean
    BY EmptyIn DEF Init, Clean
  <1>a. /\ pc \in [Calls -> {"idle"}] /\ attempt \in [Calls -> {1}] /\ start \in [Calls -> {0}]
        /\ next \in [Calls -> {1}] /\ handle \in [Calls -> {NoFile}] /\ cancel \in [Calls -> {"deaf"}]
    BY DEF Init
  <1>b. 1 \in 1..(Pieces + 1) /\ 0 \in 0..MaxCrashes /\ 0 \in 0..MaxCancels /\ 0 \in 0..MaxDeletes
        /\ 0 \in 0..MaxOdd /\ 0 + 0 + 0 <= MaxOdd
    BY DownloadAssumption
  <1>c. next \in [Calls -> 1..(Pieces + 1)] /\ start \in [Calls -> Nat]
    BY <1>a, <1>b
  <1>d. \A c \in Calls : pc[c] = "stream" <=> handle[c] # NoFile
    BY <1>a
  <1>2. TypeOK
    BY <1>1, <1>a, <1>b, <1>c, <1>d DEF Init, TypeOK
  <1>3. Working = {}
    BY DEF Init, Working
  <1> QED
    BY <1>1, <1>2, <1>3 DEF Init, DiskInv, ResumeInv

LEMMA TypeStep ==
  ASSUME TypeOK, [Next]_vars
  PROVE  TypeOK'
  <1> USE DownloadAssumption
  <1> USE DEF site, call, disk, counts, odd, ghosts, Become
  <1>a. content \in [Files -> Seq(1..Pieces)]
    BY DEF TypeOK
  <1>b. Dropped \in [Calls -> {"armed", "fired", "deaf"}]
    BY DEF TypeOK, Dropped, Fire
  <1>1. ASSUME NEW c \in Calls, Call(c) \/ Finish(c) PROVE TypeOK'
    <2>1. cancel' \in [Calls -> {"armed", "fired", "deaf"}]
      BY <1>b, <1>1 DEF Call, Finish
    <2>2. /\ pc' \in [Calls -> {"idle", "probe", "head", "stream", "verify", "move", "remove", "failed", "finish"}]
          /\ \A x \in Calls : pc'[x] = "stream" <=> pc[x] = "stream"
          /\ handle' = handle
      <3>1. pc \in [Calls -> {"idle", "probe", "head", "stream", "verify", "move", "remove", "failed", "finish"}]
        BY DEF TypeOK
      <3>2. CASE Call(c)
        BY <3>1, <3>2 DEF Call
      <3>3. CASE Finish(c)
        BY <3>1, <3>3 DEF Finish
      <3> QED
        BY <1>1, <3>2, <3>3
    <2>3. /\ attempt' \in [Calls -> {1, 2}] /\ start' \in [Calls -> Nat] /\ next' \in [Calls -> 1..(Pieces + 1)]
          /\ active' \in Calls \cup {NoCall} /\ asked' \subseteq Calls
      <3>1. CASE Call(c)
        BY <3>1 DEF TypeOK, Call
      <3>2. CASE Finish(c)
        <4>1. 1 \in 1..(Pieces + 1)
          OBVIOUS
        <4> QED
          BY <3>2, <4>1 DEF TypeOK, Finish
      <3> QED
        BY <1>1, <3>1, <3>2
    <2>4. UNCHANGED <<site, disk, counts, overlapped, raced, odd>>
      BY <1>1 DEF Call, Finish
    <2> QED
      BY <2>1, <2>2, <2>3, <2>4 DEF TypeOK
  <1>2. ASSUME NEW c \in Calls, Complete(c) \/ HeadMisleads(c) \/ Verify(c) \/ Retry(c) PROVE TypeOK'
    <2>1. CASE Complete(c)
      BY <2>1 DEF TypeOK, Complete
    <2>2. CASE Verify(c)
      BY <2>2 DEF TypeOK, Verify
    <2>3. CASE Retry(c)
      BY <2>3 DEF TypeOK, Retry
    <2>4. CASE HeadMisleads(c)
      <3>1. pages' \in 0..MaxOdd /\ mixed' + short' + pages' <= MaxOdd /\ UNCHANGED <<mixed, short>>
        BY <2>4 DEF TypeOK, HeadMisleads, MayBeOdd
      <3> QED
        BY <2>4, <3>1 DEF TypeOK, HeadMisleads
    <2> QED
      BY <1>2, <2>1, <2>2, <2>3, <2>4
  <1>3. ASSUME NEW c \in Calls, Probe(c) PROVE TypeOK'
    <2>1. start' \in [Calls -> Nat]
      BY <1>3 DEF TypeOK, Probe
    <2>2. overlapped' \in BOOLEAN /\ raced' \in BOOLEAN
      BY <1>3 DEF Probe, TypeOK
    <2> QED
      BY <1>3, <2>1, <2>2 DEF TypeOK, Probe
  <1>4. ASSUME NEW c \in Calls, Receives(c) PROVE TypeOK'
    <2> DEFINE Counted == /\ mixed' \in 0..MaxOdd /\ mixed' + short' + pages' <= MaxOdd
                          /\ UNCHANGED <<short, pages>>
    <2>1. PICK k \in 1..Pieces : Receive(c, k) /\ Counted
      <3>1. CASE GetRange(c)
        <4>1. start[c] + 1 \in 1..Pieces
          BY <3>1 DEF GetRange, TypeOK
        <4> QED
          BY <3>1, <4>1 DEF GetRange, TypeOK
      <3>2. CASE GetWhole(c)
        <4>1. Counted
          BY <3>2 DEF GetWhole, MayBeOdd, TypeOK
        <4> QED
          BY <3>2, <4>1 DEF GetWhole
      <3> QED
        BY <1>4, <3>1, <3>2 DEF Receives
    <2>2. /\ UNCHANGED <<dest, content, late>> /\ tmp' \in Files
          /\ handle' = [handle EXCEPT ![c] = tmp']
      BY <2>1, Opened DEF Receive
    <2>3. k \in 1..(Pieces + 1)
      OBVIOUS
    <2> QED
      BY <2>1, <2>2, <2>3 DEF TypeOK, Receive
  <1>5. ASSUME NEW c \in Calls, Piece(c) PROVE TypeOK'
    <2>1. next[c] \in 1..Pieces /\ next[c] + 1 \in 1..(Pieces + 1) /\ handle[c] \in Files
      BY <1>5 DEF TypeOK, Piece
    <2>2. Append(content[handle[c]], next[c]) \in Seq(1..Pieces)
      BY <1>a, <2>1, PieceAppended
    <2> QED
      BY <1>5, <2>1, <2>2 DEF TypeOK, Piece
  <1>6. ASSUME NEW c \in Calls, Ends(c) \/ Move(c) \/ Remove(c) PROVE TypeOK'
    <2>1. content' \in [Files -> Seq(1..Pieces)]
      BY <1>a, <1>6, Kept DEF Ends, StreamEnds, StreamEndsEarly, Flush, Move, Remove
    <2>2. CASE Ends(c)
      <3>1. Flush(c) /\ short' \in 0..MaxOdd /\ mixed' + short' + pages' <= MaxOdd
        <4>1. mixed \in 0..MaxOdd /\ short \in 0..MaxOdd /\ pages \in 0..MaxOdd /\ mixed + short + pages <= MaxOdd
          BY DEF TypeOK
        <4>2. /\ Flush(c) /\ UNCHANGED <<mixed, pages>>
              /\ short' = short \/ (short' = short + 1 /\ mixed + short + pages < MaxOdd)
          BY <2>2 DEF Ends, StreamEnds, StreamEndsEarly, Flush, MayBeOdd
        <4> QED
          BY <4>1, <4>2
      <3>2. AfterStream \in {"failed", "verify", "move"}
        BY DEF AfterStream
      <3> QED
        BY <2>1, <3>1, <3>2 DEF TypeOK, Flush
    <2>3. CASE Move(c)
      BY <2>1, <2>3 DEF TypeOK, Move
    <2>4. CASE Remove(c)
      BY <2>1, <2>4 DEF TypeOK, Remove
    <2> QED
      BY <1>6, <2>2, <2>3, <2>4
  <1>7. ASSUME NEW c \in Calls, GivesUp(c) PROVE TypeOK'
    <2>1. content' \in [Files -> Seq(1..Pieces)]
      BY <1>a, <1>7, Kept, Given
    <2>2. late' \subseteq [file : Files, piece : 1..Pieces]
      <3>1. late' = late \/ (handle[c] \in Files /\ next[c] \in 1..Pieces
                             /\ late' = late \cup {[file |-> handle[c], piece |-> next[c]]})
        BY <1>7, Given
      <3>2. late \subseteq [file : Files, piece : 1..Pieces]
        BY DEF TypeOK
      <3> QED
        BY <3>1, <3>2
    <2>3. /\ pc' = [pc EXCEPT ![c] = "failed"]
          /\ handle' = [handle EXCEPT ![c] = NoFile]
          /\ start' = [start EXCEPT ![c] = 0] /\ next' = [next EXCEPT ![c] = 1]
          /\ UNCHANGED <<site, attempt, cancel, active, tmp, dest, counts, ghosts>>
      BY <1>7, Given
    <2> QED
      BY <2>1, <2>2, <2>3 DEF TypeOK
  <1>8. ASSUME NEW w \in late, Lands(w) PROVE TypeOK'
    <2>1. w.file \in Files /\ w.piece \in 1..Pieces
      BY DEF TypeOK
    <2>2. [content EXCEPT ![w.file] = Append(@, w.piece)] \in [Files -> Seq(1..Pieces)]
      BY <1>a, <2>1, PieceAppended
    <2>3. content' \in [Files -> Seq(1..Pieces)]
      BY <1>8, <2>2, Kept DEF Lands
    <2> QED
      BY <1>8, <2>3 DEF TypeOK, Lands
  <1>9. CASE CancelDownload
    <2>1. cancel' \in [Calls -> {"armed", "fired", "deaf"}]
      BY <1>9 DEF TypeOK, CancelDownload, Fire
    <2> QED
      BY <1>9, <2>1 DEF TypeOK, CancelDownload
  <1>10. CASE DeleteModel \/ Crash
    <2>1. content' \in [Files -> Seq(1..Pieces)]
      BY <1>a, <1>10, Kept DEF DeleteModel, Crash
    <2> QED
      <3>1. CASE DeleteModel
        BY <2>1, <3>1 DEF TypeOK, DeleteModel
      <3>2. CASE Crash
        <4>1. /\ pc' \in [Calls -> {"idle"}] /\ attempt' \in [Calls -> {1}] /\ start' \in [Calls -> {0}]
              /\ next' \in [Calls -> {1}] /\ handle' \in [Calls -> {NoFile}] /\ cancel' \in [Calls -> {"deaf"}]
          BY <3>2 DEF Crash
        <4>2. next' \in [Calls -> 1..(Pieces + 1)] /\ start' \in [Calls -> Nat] /\ crashes' \in 0..MaxCrashes
          BY <3>2, <4>1 DEF Crash, TypeOK
        <4>3. \A c \in Calls : pc'[c] = "stream" <=> handle'[c] # NoFile
          BY <4>1
        <4>4. active' = NoCall /\ late' = {} /\ asked' = {}
              /\ UNCHANGED <<known, told, tmp, dest, cancels, deletes, overlapped, raced, mixed, short, pages>>
          BY <3>2 DEF Crash
        <4>5. /\ known' \in BOOLEAN /\ told' \in BOOLEAN /\ overlapped' \in BOOLEAN /\ raced' \in BOOLEAN
              /\ mixed' \in 0..MaxOdd /\ short' \in 0..MaxOdd /\ pages' \in 0..MaxOdd
              /\ mixed' + short' + pages' <= MaxOdd
          BY <4>4 DEF TypeOK
        <4>6. /\ tmp' \in Files \cup {NoFile} /\ dest' \in Files \cup {NoFile}
              /\ cancels' \in 0..MaxCancels /\ deletes' \in 0..MaxDeletes
          BY <4>4 DEF TypeOK
        <4>7. pc' \in [Calls -> {"idle", "probe", "head", "stream", "verify", "move", "remove", "failed", "finish"}]
              /\ attempt' \in [Calls -> {1, 2}] /\ handle' \in [Calls -> Files \cup {NoFile}]
              /\ cancel' \in [Calls -> {"armed", "fired", "deaf"}]
          BY <4>1
        <4> QED
          BY <2>1, <4>2, <4>3, <4>4, <4>5, <4>6, <4>7 DEF TypeOK
      <3> QED
        BY <1>10, <3>1, <3>2
  <1>11. CASE UNCHANGED vars
    BY <1>11 DEF vars, TypeOK
  <1> QED
    BY <1>1, <1>2, <1>3, <1>4, <1>5, <1>6, <1>7, <1>8, <1>9, <1>10, <1>11, NextSplits DEF Goes

-----------------------------------------------------------------------------
LEMMA CleanStep ==
  ASSUME TypeOK, TypeOK', Clean, [Next]_vars
  PROVE  Clean'
  <1> USE DEF site, call, disk, counts, odd, ghosts
  <1>a. content \in [Files -> Seq(1..Pieces)]
    BY DEF TypeOK
  <1>1. ASSUME UNCHANGED <<handle, disk>> PROVE Clean'
    BY <1>1 DEF Clean, Used
  <1>2. ASSUME NEW c \in Calls, Goes(c) \/ Probe(c) PROVE Clean'
    BY <1>1, <1>2 DEF Goes, Call, Complete, HeadMisleads, Verify, Retry, Finish, Probe
  <1>3. ASSUME NEW c \in Calls, Receives(c) PROVE Clean'
    <2>1. Open(c)
      BY <1>3 DEF Receives, GetRange, GetWhole, Receive
    <2>2. /\ UNCHANGED <<dest, content, late>> /\ tmp' \in Files
          /\ handle' = [handle EXCEPT ![c] = tmp']
          /\ tmp = NoFile \/ tmp' = tmp
      BY <2>1, Opened
    <2>3. CASE handle[c] = NoFile
      <3>1. \A f \in Files : f \in Used => f \in Used'
        <4>1. \A d \in Calls : handle'[d] = IF d = c THEN tmp' ELSE handle[d]
          BY <2>2 DEF TypeOK
        <4> SUFFICES ASSUME NEW f \in Files, f \in Used PROVE f \in Used'
          OBVIOUS
        <4>2. f # NoFile
          BY DownloadAssumption
        <4>3. CASE f \in {tmp, dest} \/ f \in {w.file : w \in late}
          BY <2>2, <4>2, <4>3 DEF Used
        <4>4. ASSUME NEW d \in Calls, f = handle[d] PROVE f \in Used'
          <5>1. d # c /\ f = handle'[d]
            BY <2>3, <4>1, <4>2, <4>4
          <5> QED
            BY <5>1 DEF Used
        <4> QED
          BY <4>3, <4>4 DEF Used
      <3> QED
        BY <2>2, <3>1 DEF Clean
    <2>4. handle[c] = NoFile
      BY <1>3 DEF Receives, GetRange, GetWhole, Receive, TypeOK
    <2> QED
      BY <2>3, <2>4
  <1>4. ASSUME NEW c \in Calls, Piece(c) PROVE Clean'
    <2>1. handle[c] \in Used /\ Used' = Used /\ content' = [content EXCEPT ![handle[c]] = Append(@, next[c])]
      BY <1>4 DEF Piece, Used
    <2> QED
      BY <1>a, <2>1 DEF Clean
  <1>5. ASSUME NEW c \in Calls, Ends(c) \/ Move(c) \/ Remove(c) \/ GivesUp(c) PROVE Clean'
    BY <1>a, <1>5, Kept, Given DEF Ends, StreamEnds, StreamEndsEarly, Flush, Move, Remove
  <1>6. ASSUME NEW w \in late, Lands(w) PROVE Clean'
    <2>1. w.file \in Files /\ w.piece \in 1..Pieces
      BY DEF TypeOK
    <2>2. [content EXCEPT ![w.file] = Append(@, w.piece)] \in [Files -> Seq(1..Pieces)]
      BY <1>a, <2>1, PieceAppended
    <2> QED
      BY <1>6, <2>2, Kept DEF Lands
  <1>7. CASE CancelDownload \/ UNCHANGED vars
    BY <1>1, <1>7 DEF CancelDownload, vars
  <1>8. CASE DeleteModel \/ Crash
    BY <1>a, <1>8, Kept DEF DeleteModel, Crash
  <1> QED
    BY <1>2, <1>3, <1>4, <1>5, <1>6, <1>7, <1>8, NextSplits

-----------------------------------------------------------------------------
LEMMA StaysDisturbed ==
  ASSUME TypeOK, [Next]_vars
  PROVE  /\ Disturbed => Disturbed'
         /\ mixed' = 0 => mixed = 0
         /\ Vouched' => Vouched
  <1> USE DEF site, call, disk, counts, odd, ghosts, Become
  <1> DEFINE Steady == overlapped' = overlapped /\ raced' = raced /\ known' = known
             Same == mixed' = mixed /\ short' = short
  <1>1. ASSUME NEW c \in Calls, Goes(c) \/ Piece(c) \/ StreamEnds(c) \/ Move(c) \/ Remove(c) \/ GetRange(c)
        PROVE  Steady /\ Same
    BY <1>1 DEF Goes, Call, Complete, HeadMisleads, Verify, Retry, Finish, GetRange, Receive, Piece,
                StreamEnds, Flush, Move, Remove
  <1>2. ASSUME NEW c \in Calls, GetWhole(c) PROVE Steady /\ mixed' = mixed + 1 /\ short' = short
    BY <1>2 DEF GetWhole, Receive
  <1>3. ASSUME NEW c \in Calls, StreamEndsEarly(c) PROVE Steady /\ mixed' = mixed /\ short' = short + 1
    BY <1>3 DEF StreamEndsEarly, Flush
  <1>4. ASSUME NEW c \in Calls, GivesUp(c) PROVE Steady /\ Same
    BY <1>4, Given
  <1>5. ASSUME NEW c \in Calls, Probe(c)
        PROVE  (overlapped => overlapped') /\ (raced => raced') /\ known' = known /\ Same
    BY <1>5 DEF Probe
  <1>6. ASSUME (\E w \in late : Lands(w)) \/ CancelDownload \/ DeleteModel \/ Crash \/ UNCHANGED vars
        PROVE  Steady /\ Same
    BY <1>6 DEF Lands, CancelDownload, DeleteModel, Crash, vars
  <1>7. mixed \in Nat /\ short \in Nat
    BY DownloadAssumption DEF TypeOK
  <1>8. (overlapped => overlapped') /\ (raced => raced') /\ known' = known
    BY <1>1, <1>2, <1>3, <1>4, <1>5, <1>6, NextSplits DEF Receives, Ends
  <1>9. (mixed' = 0 => mixed = 0) /\ (short' = 0 => short = 0)
    <2>1. mixed + 1 # 0 /\ short + 1 # 0
      BY <1>7
    <2> QED
      BY <1>1, <1>2, <1>3, <1>4, <1>5, <1>6, <2>1, NextSplits DEF Receives, Ends
  <1> QED
    BY <1>8, <1>9 DEF Disturbed, Vouched

(* What a step may do to the disk invariants when it touches no file.      *)
Untouched == UNCHANGED <<handle, tmp, dest, content, late, overlapped, raced>>

LEMMA DiskStep ==
  ASSUME TypeOK, TypeOK', Clean, Clean', DiskInv, ResumeInv, [Next]_vars
  PROVE  DiskInv'
  <1> USE DEF site, call, disk, counts, odd, ghosts, Become
  <1> SUFFICES ASSUME ~Disturbed' PROVE DiskInv'
    BY DEF DiskInv
  <1>d. ~Disturbed /\ (Vouched' => Vouched)
    BY StaysDisturbed
  <1>i. /\ \A c, d \in Working : c = d
        /\ late # {} => Working = {}
        /\ \A w \in late : w.file = tmp
        /\ \A c \in Calls : pc[c] = "stream" => handle[c] = tmp
        /\ \A c \in Calls : pc[c] = "move" => tmp # NoFile /\ (Vouched => content[tmp] = Whole)
        /\ dest # NoFile => dest # tmp /\ (Vouched => content[dest] = Whole)
    BY <1>d DEF DiskInv
  <1>t. /\ content \in [Files -> Seq(1..Pieces)] /\ tmp \in Files \cup {NoFile} /\ dest \in Files \cup {NoFile}
        /\ NoFile \notin Files /\ \A w \in late : w.file \in Files
    BY DownloadAssumption DEF TypeOK
  <1>f. DOMAIN pc = Calls
    BY DEF TypeOK
  (* A call that goes on without touching a file.                          *)
  <1>1. ASSUME NEW c \in Calls, Goes(c) PROVE DiskInv'
    <2>1. Untouched /\ Working' \subseteq Working
          /\ \A x \in Calls : /\ pc'[x] = "stream" => pc[x] = "stream"
                              /\ pc'[x] = "move" =>
                                    pc[x] = "move" \/ (tmp # NoFile /\ (Vouched => content[tmp] = Whole))
      <3>1. CASE Call(c) \/ Finish(c) \/ Retry(c)
        <4>0. \E to : pc' = [pc EXCEPT ![c] = to] /\ to \notin {"head", "stream", "verify", "move", "remove"}
          BY <3>1 DEF Call, Finish, Retry
        <4>1. Untouched /\ pc'[c] \notin {"head", "stream", "verify", "move", "remove"}
              /\ \A x \in Calls \ {c} : pc'[x] = pc[x]
          BY <1>f, <3>1, <4>0 DEF Call, Finish, Retry, Untouched
        <4> QED
          BY <4>1 DEF Working
      <3>2. CASE Complete(c) \/ HeadMisleads(c) \/ Verify(c)
        <4>1. Untouched /\ pc[c] \in {"head", "verify"} /\ pc'[c] # "stream"
              /\ (pc'[c] = "move" => tmp # NoFile /\ content[tmp] = Whole)
              /\ \A x \in Calls \ {c} : pc'[x] = pc[x]
          BY <1>f, <3>2 DEF Complete, HeadMisleads, Verify, Untouched
        <4> QED
          BY <4>1 DEF Working
      <3> QED
        BY <1>1, <3>1, <3>2 DEF Goes
    <2> QED
      BY <1>d, <1>i, <2>1 DEF DiskInv, Untouched
  <1>2. ASSUME NEW c \in Calls, Probe(c) PROVE DiskInv'
    <2>1. /\ UNCHANGED <<handle, tmp, dest, content, late>> /\ pc' = [pc EXCEPT ![c] = "head"]
          /\ Working = {} /\ \A w \in late : w.file # tmp
      BY <1>2 DEF Probe, Disturbed
    <2>2. late = {} /\ Working' = {c}
      <3>1. pc'[c] = "head" /\ \A x \in Calls \ {c} : pc'[x] = pc[x]
        BY <1>f, <2>1
      <3> QED
        BY <1>i, <2>1, <3>1 DEF Working
    <2>3. \A x \in Calls : pc'[x] \in {"stream", "move"} => pc[x] = pc'[x]
      BY <2>1 DEF TypeOK
    <2> QED
      BY <1>d, <1>i, <2>1, <2>2, <2>3 DEF DiskInv
  <1>3. ASSUME NEW c \in Calls, Receives(c) PROVE DiskInv'
    <2>1. pc[c] = "head" /\ pc' = [pc EXCEPT ![c] = "stream"] /\ Open(c)
      BY <1>3 DEF Receives, GetRange, GetWhole, Receive
    <2>2. /\ UNCHANGED <<dest, content, late>> /\ tmp' \in Files
          /\ handle' = [handle EXCEPT ![c] = tmp']
          /\ (tmp # NoFile /\ tmp' = tmp) \/ (tmp = NoFile /\ tmp' \notin Used)
      BY <2>1, Opened
    <2>3. c \in Working /\ Working' = Working /\ Working = {c} /\ late = {}
      <3>1. c \in Working
        BY <2>1 DEF Working
      <3>2. pc'[c] = "stream" /\ \A x \in Calls \ {c} : pc'[x] = pc[x]
        BY <2>1 DEF TypeOK
      <3>3. Working' = Working
        BY <2>1, <3>2 DEF Working
      <3>4. \A x \in Working : x = c
        BY <1>i, <3>1
      <3> QED
        BY <1>i, <3>1, <3>3, <3>4
    <2>4. \A x \in Calls : pc'[x] \in {"stream", "move"} => x = c
      BY <2>3 DEF Working
    <2>5. pc'[c] = "stream" /\ handle'[c] = tmp'
      BY <2>1, <2>2 DEF TypeOK
    <2>6. dest # NoFile => dest # tmp'
      BY <1>i, <2>2 DEF Used
    <2> QED
      BY <1>d, <1>i, <2>2, <2>3, <2>4, <2>5, <2>6 DEF DiskInv
  <1>4. ASSUME NEW c \in Calls, Piece(c) PROVE DiskInv'
    <2>1. /\ pc[c] = "stream" /\ UNCHANGED <<pc, handle, tmp, dest, late>>
          /\ content' = [content EXCEPT ![tmp] = Append(@, next[c])]
      BY <1>4, <1>i DEF Piece
    <2>2. Working' = Working /\ c \in Working
      BY <2>1 DEF Working
    <2>3. \A x \in Calls : pc'[x] # "move"
      BY <1>i, <2>1, <2>2 DEF Working
    <2>4. dest # NoFile => content'[dest] = content[dest]
      BY <1>i, <1>t, <2>1
    <2> QED
      BY <1>d, <1>i, <2>1, <2>2, <2>3, <2>4 DEF DiskInv
  <1>5. ASSUME NEW c \in Calls, Ends(c) PROVE DiskInv'
    <2>1. /\ pc[c] = "stream" /\ pc'[c] \in {"verify", "failed", "move"}
          /\ UNCHANGED <<known, mixed, tmp, dest, late>> /\ Keep(content)
          /\ handle' = [handle EXCEPT ![c] = NoFile]
          /\ \A x \in Calls \ {c} : pc'[x] = pc[x]
          /\ pc'[c] = "move" => tmp # NoFile /\ ~known
      <3>1. Flush(c)
        BY <1>5 DEF Ends, StreamEnds, StreamEndsEarly
      <3>2. AfterStream \in {"verify", "failed", "move"} /\ (AfterStream = "move" => tmp # NoFile /\ ~known)
        BY DEF AfterStream
      <3> QED
        BY <1>f, <3>1, <3>2 DEF Flush
    <2>2. Working = {c} /\ Working' \subseteq {c} /\ late = {}
      BY <1>i, <2>1 DEF Working
    <2>3. \A x \in Calls : pc'[x] # "stream" /\ (pc'[x] = "move" => x = c)
      BY <2>1, <2>2 DEF Working
    <2>4. /\ dest # NoFile => content'[dest] = content[dest]
          /\ tmp # NoFile => content'[tmp] = content[tmp]
      BY <1>t, <2>1, KeptPaths
    (* Without a hash, the file that is moved was received to its end.     *)
    <2>5. ASSUME pc'[c] = "move", Vouched' PROVE content'[tmp] = Whole
      <3>1. tmp # NoFile /\ mixed = 0 /\ short' = 0
        BY <2>1, <2>5 DEF Vouched
      <3>2. next[c] > Pieces
        <4>1. short \in Nat
          BY DownloadAssumption DEF TypeOK
        <4>2. ~StreamEndsEarly(c)
          BY <3>1, <4>1 DEF StreamEndsEarly
        <4> QED
          BY <1>5, <4>2 DEF Ends, StreamEnds
      <3>3. Begins(content[tmp]) /\ next[c] = Len(content[tmp]) + 1
        BY <1>d, <2>1, <3>1 DEF ResumeInv
      <3>4. content[tmp] \in Seq(1..Pieces) /\ Pieces \in Nat
        BY <1>t, <3>1, DownloadAssumption
      <3>5. Len(content[tmp]) = Pieces
        BY <3>2, <3>3, <3>4 DEF Begins
      <3>6. content[tmp] = [k \in 1..Pieces |-> k]
        BY <3>3, <3>4, <3>5 DEF Begins
      <3> QED
        BY <2>4, <3>1, <3>6 DEF Whole
    <2> QED
      BY <1>d, <1>i, <2>1, <2>2, <2>3, <2>4, <2>5 DEF DiskInv
  <1>6. ASSUME NEW c \in Calls, Move(c) \/ Remove(c) PROVE DiskInv'
    <2>1. /\ pc[c] \in {"move", "remove"} /\ pc'[c] \in {"finish", "failed"} /\ UNCHANGED <<handle, late>>
          /\ Keep(content) /\ \A x \in Calls \ {c} : pc'[x] = pc[x]
          /\ \/ pc[c] = "move" /\ dest' = tmp /\ tmp' = NoFile
             \/ dest' = dest /\ (tmp' = NoFile \/ tmp' = tmp)
      BY <1>6, <1>f DEF Move, Remove
    <2>2. Working = {c} /\ Working' = {} /\ late = {}
      BY <1>i, <2>1 DEF Working
    <2>3. \A x \in Calls : pc'[x] \notin {"stream", "move"}
      BY <2>2 DEF Working
    <2>4. dest' # NoFile => dest' # tmp' /\ (Vouched => content[dest'] = Whole)
      BY <1>i, <2>1
    <2>5. dest' # NoFile => content'[dest'] = content[dest']
      BY <1>t, <2>1, KeptPaths
    <2> QED
      BY <1>d, <2>1, <2>2, <2>3, <2>4, <2>5 DEF DiskInv
  <1>7. ASSUME NEW c \in Calls, GivesUp(c) PROVE DiskInv'
    <2>1. /\ pc' = [pc EXCEPT ![c] = "failed"] /\ pc[c] \in {"head", "stream"}
          /\ handle' = [handle EXCEPT ![c] = NoFile] /\ UNCHANGED <<tmp, dest>> /\ Keep(content)
          /\ late' = late \/ (pc[c] = "stream" /\ late' = late \cup {[file |-> handle[c], piece |-> next[c]]})
      BY <1>7, Given
    <2>2. Working = {c} /\ Working' = {} /\ late = {}
      <3>1. c \in Working
        BY <2>1 DEF Working
      <3>2. Working = {c} /\ late = {}
        BY <1>i, <3>1
      <3>3. \A x \in Calls : x # c => pc'[x] = pc[x]
        BY <1>f, <2>1
      <3>4. pc'[c] = "failed"
        BY <1>f, <2>1
      <3> QED
        BY <3>2, <3>3, <3>4 DEF Working
    <2>3. \A x \in Calls : pc'[x] \notin {"stream", "move"}
      BY <2>2 DEF Working
    <2>4. \A w \in late' : w.file = tmp'
      BY <1>i, <2>1, <2>2
    <2>5. dest # NoFile => content'[dest] = content[dest]
      BY <1>t, <2>1, KeptPaths
    <2> QED
      BY <1>d, <1>i, <2>1, <2>2, <2>3, <2>4, <2>5 DEF DiskInv
  <1>8. ASSUME NEW w \in late, Lands(w) PROVE DiskInv'
    <2> DEFINE new == [content EXCEPT ![w.file] = Append(@, w.piece)]
    <2>1. UNCHANGED <<pc, handle, tmp, dest>> /\ late' = late \ {w} /\ Keep(new) /\ Working = {} /\ w.file = tmp
      BY <1>8, <1>i DEF Lands
    <2>2. new \in [Files -> Seq(1..Pieces)]
      <3>1. w.file \in Files /\ w.piece \in 1..Pieces
        BY DEF TypeOK
      <3> QED
        BY <1>t, <3>1, PieceAppended
    <2>3. \A x \in Calls : pc'[x] \notin {"stream", "move"}
      BY <2>1 DEF Working
    <2>4. Working' = {}
      BY <2>1 DEF Working
    <2>5. dest # NoFile => content'[dest] = new[dest]
      BY <1>t, <2>1, <2>2, KeptPaths
    <2>6. dest # NoFile => new[dest] = content[dest]
      BY <1>i, <1>t, <2>1
    <2> HIDE DEF new
    <2> QED
      BY <1>d, <1>i, <2>1, <2>3, <2>4, <2>5, <2>6 DEF DiskInv
  <1>9. CASE CancelDownload \/ UNCHANGED vars
    <2>1. Untouched /\ UNCHANGED pc
      BY <1>9 DEF CancelDownload, vars, Untouched
    <2> QED
      BY <1>d, <1>i, <2>1 DEF DiskInv, Untouched, Working
  <1>10. CASE DeleteModel
    <2>1. UNCHANGED <<pc, handle, tmp, late>> /\ dest' = NoFile /\ Keep(content)
      BY <1>10 DEF DeleteModel
    <2>2. tmp # NoFile => content'[tmp] = content[tmp]
      BY <1>t, <2>1, KeptPaths
    <2> QED
      BY <1>d, <1>i, <2>1, <2>2 DEF DiskInv, Working
  <1>11. CASE Crash
    <2>1. UNCHANGED <<tmp, dest>> /\ late' = {} /\ pc' = [c \in Calls |-> "idle"] /\ Keep(content)
      BY <1>11 DEF Crash
    <2>2. Working' = {} /\ \A x \in Calls : pc'[x] \notin {"stream", "move"}
      BY <2>1 DEF Working
    <2>3. dest # NoFile => content'[dest] = content[dest]
      BY <1>t, <2>1, KeptPaths
    <2> QED
      BY <1>d, <1>i, <2>1, <2>2, <2>3 DEF DiskInv
  <1> QED
    BY <1>1, <1>2, <1>3, <1>4, <1>5, <1>6, <1>7, <1>8, <1>9, <1>10, <1>11, NextSplits

LEMMA ResumeStep ==
  ASSUME TypeOK, TypeOK', Clean, DiskInv, ResumeInv, [Next]_vars
  PROVE  ResumeInv'
  <1> USE DEF site, call, disk, counts, odd, ghosts, Become
  <1> SUFFICES ASSUME ~Disturbed', mixed' = 0 PROVE ResumeInv'
    BY DEF ResumeInv
  <1>d. ~Disturbed /\ mixed = 0
    BY StaysDisturbed
  <1>i. /\ \A c, d \in Working : c = d
        /\ late # {} => Working = {}
        /\ \A w \in late : w.file = tmp
        /\ \A c \in Calls : pc[c] = "stream" => handle[c] = tmp
    BY <1>d DEF DiskInv
  <1>r. /\ tmp # NoFile => Begins(content[tmp])
        /\ \A w \in late : w.piece = Len(content[tmp]) + 1
        /\ \A c \in Calls : pc[c] = "head" => start[c] = IF tmp = NoFile THEN 0 ELSE Len(content[tmp])
        /\ \A c \in Calls : pc[c] = "stream" => next[c] = Len(content[tmp]) + 1
    BY <1>d DEF ResumeInv
  <1>t. /\ content \in [Files -> Seq(1..Pieces)] /\ tmp \in Files \cup {NoFile} /\ NoFile \notin Files
        /\ \A w \in late : w.file \in Files /\ w.piece \in 1..Pieces
    BY DownloadAssumption DEF TypeOK
  <1>f. DOMAIN pc = Calls
    BY DEF TypeOK
  (* Where only one call is at work and it stops, there is little to show. *)
  <1>q. ASSUME late' = {}, tmp' # NoFile => Begins(content'[tmp']),
               \A x \in Calls : pc'[x] \notin {"head", "stream"}
        PROVE  ResumeInv'
    BY <1>q DEF ResumeInv
  <1>1. ASSUME NEW c \in Calls, Goes(c) PROVE ResumeInv'
    <2>1. UNCHANGED <<tmp, content, late>>
      BY <1>1 DEF Goes, Call, Complete, HeadMisleads, Verify, Retry, Finish
    <2>2. pc'[c] \notin {"head", "stream"}
          /\ \A x \in Calls \ {c} : pc'[x] = pc[x] /\ start'[x] = start[x] /\ next'[x] = next[x]
      <3>f. DOMAIN pc = Calls /\ DOMAIN start = Calls /\ DOMAIN next = Calls
        BY DEF TypeOK
      <3>1. CASE Call(c)
        BY <3>f, <3>1 DEF Call
      <3>2. CASE Complete(c) \/ HeadMisleads(c) \/ Verify(c)
        BY <3>f, <3>2 DEF Complete, HeadMisleads, Verify
      <3>3. CASE Retry(c)
        BY <3>f, <3>3 DEF Retry
      <3>4. CASE Finish(c)
        BY <3>f, <3>4 DEF Finish
      <3> QED
        BY <1>1, <3>1, <3>2, <3>3, <3>4 DEF Goes
    <2> QED
      BY <1>r, <2>1, <2>2 DEF ResumeInv
  <1>2. ASSUME NEW c \in Calls, Probe(c) PROVE ResumeInv'
    <2>1. /\ UNCHANGED <<tmp, content, late, next>> /\ pc' = [pc EXCEPT ![c] = "head"]
          /\ start' = [start EXCEPT ![c] = IF tmp = NoFile THEN 0 ELSE Len(content[tmp])]
      BY <1>2 DEF Probe
    <2>2. /\ pc'[c] = "head" /\ start'[c] = IF tmp = NoFile THEN 0 ELSE Len(content[tmp])
          /\ \A x \in Calls \ {c} : pc'[x] = pc[x] /\ start'[x] = start[x]
      BY <2>1 DEF TypeOK
    <2> QED
      BY <1>r, <2>1, <2>2 DEF ResumeInv
  <1>3. ASSUME NEW c \in Calls, Receives(c) PROVE ResumeInv'
    <2>1. GetRange(c)
      <3>1. GetWhole(c) => mixed' = mixed + 1
        BY DEF GetWhole
      <3> QED
        BY <1>3, <1>d, <3>1 DEF Receives
    <2>2. /\ pc[c] = "head" /\ pc' = [pc EXCEPT ![c] = "stream"] /\ Open(c)
          /\ next' = [next EXCEPT ![c] = start[c] + 1]
      BY <2>1 DEF GetRange, Receive
    <2>3. /\ UNCHANGED <<dest, content, late>> /\ tmp' \in Files
          /\ (tmp # NoFile /\ tmp' = tmp) \/ (tmp = NoFile /\ tmp' \notin Used)
      BY <2>2, Opened
    <2>4. c \in Working
      BY <2>2 DEF Working
    <2>5. late' = {} /\ \A x \in Calls \ {c} : pc'[x] \notin {"head", "stream"}
      <3>1. \A x \in Calls \ {c} : pc'[x] = pc[x] /\ x \notin Working
        BY <1>f, <1>i, <2>2, <2>4
      <3> QED
        BY <1>i, <2>3, <2>4, <3>1 DEF Working
    <2>6. pc'[c] = "stream" /\ next'[c] = start[c] + 1
      BY <2>2 DEF TypeOK
    <2>7. Begins(content'[tmp']) /\ start[c] = Len(content'[tmp'])
      <3>1. CASE tmp # NoFile
        BY <1>r, <2>2, <2>3, <3>1
      <3>2. CASE tmp = NoFile
        <4>1. content'[tmp'] = <<>> /\ start[c] = 0
          BY <1>r, <2>2, <2>3, <3>2 DEF Clean
        <4> QED
          BY <4>1, BeginsEmpty, EmptyIn
      <3> QED
        BY <3>1, <3>2
    <2> QED
      BY <2>5, <2>6, <2>7 DEF ResumeInv
  <1>4. ASSUME NEW c \in Calls, Piece(c) PROVE ResumeInv'
    <2>1. /\ pc[c] = "stream" /\ UNCHANGED <<pc, tmp, late>> /\ next' = [next EXCEPT ![c] = @ + 1]
          /\ content' = [content EXCEPT ![tmp] = Append(@, next[c])]
      BY <1>4, <1>i DEF Piece
    <2>2. next[c] \in 1..Pieces /\ tmp \in Files
      BY <1>4, <1>i, <2>1 DEF Piece, TypeOK
    <2>3. /\ content[tmp] \in Seq(1..Pieces) /\ Begins(content[tmp]) /\ next[c] = Len(content[tmp]) + 1
          /\ content'[tmp] = Append(content[tmp], next[c]) /\ next'[c] = next[c] + 1
      BY <1>r, <1>t, <2>1, <2>2 DEF TypeOK
    <2>4. Begins(content'[tmp]) /\ Len(content'[tmp]) = next[c]
      BY <2>2, <2>3, BeginsLonger, PieceAppended
    <2>5. late' = {} /\ \A x \in Calls \ {c} : pc'[x] \notin {"head", "stream"}
      <3>1. c \in Working
        BY <2>1 DEF Working
      <3>2. \A x \in Calls \ {c} : x \notin Working
        BY <1>i, <3>1
      <3> QED
        BY <1>i, <2>1, <3>1, <3>2 DEF Working
    <2> QED
      BY <2>1, <2>3, <2>4, <2>5 DEF ResumeInv
  <1>5. ASSUME NEW c \in Calls, Ends(c) PROVE ResumeInv'
    <2>1. /\ pc[c] = "stream" /\ pc'[c] \in {"verify", "failed", "move"} /\ UNCHANGED <<tmp, late>>
          /\ Keep(content)
          /\ \A x \in Calls \ {c} : pc'[x] = pc[x]
      <3>1. Flush(c)
        BY <1>5 DEF Ends, StreamEnds, StreamEndsEarly
      <3>2. AfterStream \in {"verify", "failed", "move"}
        BY DEF AfterStream
      <3> QED
        BY <1>f, <3>1, <3>2 DEF Flush
    <2>2. late' = {} /\ \A x \in Calls : pc'[x] \notin {"head", "stream"}
      BY <1>i, <2>1 DEF Working
    <2>3. tmp # NoFile => content'[tmp] = content[tmp]
      BY <1>t, <2>1, KeptPaths
    <2> QED
      BY <1>q, <1>r, <2>1, <2>2, <2>3
  <1>6. ASSUME NEW c \in Calls, Move(c) \/ Remove(c) PROVE ResumeInv'
    <2>1. /\ pc[c] \in {"move", "remove"} /\ pc'[c] \in {"finish", "failed"} /\ UNCHANGED late /\ tmp' = NoFile
          /\ \A x \in Calls \ {c} : pc'[x] = pc[x]
      BY <1>6 DEF Move, Remove, TypeOK
    <2>2. late' = {} /\ \A x \in Calls : pc'[x] \notin {"head", "stream"}
      BY <1>i, <2>1 DEF Working
    <2> QED
      BY <1>q, <2>1, <2>2
  <1>7. ASSUME NEW c \in Calls, GivesUp(c) PROVE ResumeInv'
    <2>1. /\ pc' = [pc EXCEPT ![c] = "failed"] /\ pc[c] \in {"head", "stream"}
          /\ UNCHANGED <<tmp, dest>> /\ Keep(content)
          /\ late' = late \/ (pc[c] = "stream" /\ late' = late \cup {[file |-> handle[c], piece |-> next[c]]})
      BY <1>7, Given
    <2>2. late = {} /\ \A x \in Calls : pc'[x] \notin {"head", "stream"}
      <3>1. c \in Working /\ pc'[c] = "failed" /\ \A x \in Calls \ {c} : pc'[x] = pc[x]
        BY <2>1 DEF Working, TypeOK
      <3>2. \A x \in Calls \ {c} : x \notin Working
        BY <1>i, <3>1
      <3> QED
        BY <1>i, <3>1, <3>2 DEF Working
    <2>3. tmp # NoFile => content'[tmp] = content[tmp]
      BY <1>t, <2>1, KeptPaths
    <2>4. ASSUME NEW w \in late' PROVE w.piece = Len(content'[tmp']) + 1
      <3>1. pc[c] = "stream" /\ w.piece = next[c] /\ handle[c] = tmp
        BY <1>i, <2>1, <2>2, <2>4
      <3>2. tmp # NoFile
        BY <3>1 DEF TypeOK
      <3> QED
        BY <1>r, <2>1, <2>3, <3>1, <3>2
    <2> QED
      BY <1>r, <2>1, <2>2, <2>3, <2>4 DEF ResumeInv
  <1>8. ASSUME NEW w \in late, Lands(w) PROVE ResumeInv'
    <2> DEFINE new == [content EXCEPT ![w.file] = Append(@, w.piece)]
    <2>1. UNCHANGED <<pc, tmp>> /\ late' = late \ {w} /\ Keep(new) /\ Working = {} /\ w.file = tmp
      BY <1>8, <1>i DEF Lands
    <2>2. w.file \in Files /\ w.piece \in 1..Pieces /\ w.piece = Len(content[tmp]) + 1 /\ tmp \in Files
      BY <1>r, <1>t, <2>1
    <2>3. new \in [Files -> Seq(1..Pieces)] /\ new[tmp] = Append(content[tmp], w.piece)
      BY <1>t, <2>1, <2>2, PieceAppended
    <2> HIDE DEF new
    <2>4. content'[tmp] = new[tmp]
      BY <1>t, <2>1, <2>2, <2>3, KeptPaths
    <2>5. content[tmp] \in Seq(1..Pieces) /\ Begins(content[tmp])
      BY <1>r, <1>t, <2>2
    <2>6. Begins(content'[tmp])
      BY <2>2, <2>3, <2>4, <2>5, BeginsLonger
    <2>7. late' = {}
      <3>1. ASSUME NEW v \in late PROVE v = w
        <4>1. v.file = w.file /\ v.piece = w.piece
          BY <1>i, <1>r
        <4>2. v \in [file : Files, piece : 1..Pieces] /\ w \in [file : Files, piece : 1..Pieces]
          BY DEF TypeOK
        <4> QED
          BY <4>1, <4>2
      <3> QED
        BY <2>1, <3>1
    <2>8. \A x \in Calls : pc'[x] \notin {"head", "stream"}
      BY <2>1 DEF Working
    <2> QED
      BY <1>q, <2>1, <2>6, <2>7, <2>8
  <1>9. CASE CancelDownload \/ UNCHANGED vars
    <2>1. UNCHANGED <<pc, start, next, tmp, content, late>>
      BY <1>9 DEF CancelDownload, vars
    <2> QED
      BY <1>r, <2>1 DEF ResumeInv
  <1>10. CASE DeleteModel
    <2>1. UNCHANGED <<pc, start, next, tmp, late>> /\ Keep(content)
      BY <1>10 DEF DeleteModel
    <2>2. tmp # NoFile => content'[tmp] = content[tmp]
      BY <1>t, <2>1, KeptPaths
    <2>3. ASSUME tmp = NoFile PROVE late = {} /\ \A x \in Calls : pc[x] # "stream"
      <3>1. ASSUME NEW w \in late PROVE FALSE
        <4>1. w.file = tmp
          BY <3>1, <1>i
        <4>2. w.file \in Files
          BY <3>1 DEF TypeOK
        <4> QED
          BY <4>1, <4>2, <2>3, <1>t
      <3>2. ASSUME NEW x \in Calls, pc[x] = "stream" PROVE FALSE
        <4>1. handle[x] = tmp /\ handle[x] # NoFile
          BY <3>2, <1>i DEF TypeOK
        <4> QED
          BY <4>1, <2>3
      <3> QED
        BY <3>1, <3>2
    <2> QED
      BY <1>r, <2>1, <2>2, <2>3 DEF ResumeInv
  <1>11. CASE Crash
    <2>1. UNCHANGED <<tmp, dest>> /\ late' = {} /\ pc' = [c \in Calls |-> "idle"] /\ Keep(content)
      BY <1>11 DEF Crash
    <2>2. tmp # NoFile => content'[tmp] = content[tmp]
      BY <1>t, <2>1, KeptPaths
    <2> QED
      BY <1>q, <1>r, <2>1, <2>2
  <1> QED
    BY <1>1, <1>2, <1>3, <1>4, <1>5, <1>6, <1>7, <1>8, <1>9, <1>10, <1>11, NextSplits

-----------------------------------------------------------------------------
IInv == TypeOK /\ Clean /\ DiskInv /\ ResumeInv

(* Every reachable state satisfies the inductive invariant.                *)
THEOREM Invariance == Spec => []IInv
  <1>1. Init => IInv
    BY TypeInit DEF IInv
  <1>2. IInv /\ [Next]_vars => IInv'
    BY TypeStep, CleanStep, DiskStep, ResumeStep DEF IInv
  <1> QED
    BY <1>1, <1>2, PTL DEF Spec

(* The variables keep their types, and a call has a handle exactly while   *)
(* it receives.                                                            *)
THEOREM TypeCorrect == Spec => []TypeOK
  <1>1. IInv => TypeOK
    BY DEF IInv
  <1> QED
    BY <1>1, Invariance, PTL

(* A model in place is the whole model, whatever failed, crashed or was    *)
(* resumed before, unless the partial file was disturbed: where the hash   *)
(* is known whatever the servers answered, and with a placeholder for a    *)
(* hash while none mixed in a whole model or cut an answer short.          *)
THEOREM PlacedWhole == Spec => []PlacedIsWhole
  <1>1. IInv => PlacedIsWhole
    BY DEF IInv, DiskInv, PlacedIsWhole
  <1> QED
    BY <1>1, Invariance, PTL

(* What a failed attempt leaves behind, with the writes still on their way *)
(* to it, is a beginning of the model and can be continued.                *)
THEOREM PartialResumable == Spec => []PartialIsPrefix
  <1>1. IInv => PartialIsPrefix
    <2> SUFFICES ASSUME IInv, tmp # NoFile, ~Disturbed, mixed = 0
                 PROVE  /\ Len(content[tmp]) <= Pieces
                        /\ content[tmp] = SubSeq(Whole, 1, Len(content[tmp]))
                        /\ \A w \in late : w.file = tmp => w.piece = Len(content[tmp]) + 1
      BY DEF PartialIsPrefix
    <2> DEFINE n == Len(content[tmp])
    <2>1. content[tmp] \in Seq(1..Pieces) /\ Begins(content[tmp]) /\ \A w \in late : w.piece = n + 1
      BY DEF IInv, TypeOK, ResumeInv
    <2>2. n \in Nat /\ n <= Pieces /\ Pieces \in Nat
      BY <2>1, DownloadAssumption DEF Begins
    <2>3. content[tmp] = [i \in 1..n |-> i]
      BY <2>1 DEF Begins
    <2>4. SubSeq(Whole, 1, n) = [i \in 1..n |-> i]
      BY <2>2 DEF Whole
    <2> QED
      BY <2>1, <2>2, <2>3, <2>4
  <1> QED
    BY <1>1, Invariance, PTL

-----------------------------------------------------------------------------
(* What the cancel receiver of a call can tell, and whose sender the map   *)
(* has.                                                                    *)
CancelInv ==
    /\ \A c \in Calls :
         /\ pc[c] = "idle" => attempt[c] = 1 /\ cancel[c] = "deaf" /\ active # c /\ c \notin asked
         /\ pc[c] # "idle" /\ attempt[c] = 1 => cancel[c] = "fired" \/ (cancel[c] = "armed" /\ active = c)
         /\ attempt[c] = 2 => cancel[c] = "deaf"
         /\ active = c => cancel[c] # "fired"
         /\ c \in asked /\ attempt[c] = 1 => cancel[c] = "fired"
    /\ active # NoCall => active \in Calls

LEMMA CancelStep == TypeOK /\ CancelInv /\ [Next]_vars => CancelInv'
  <1> SUFFICES ASSUME TypeOK, CancelInv, [Next]_vars PROVE CancelInv'
    OBVIOUS
  <1> USE DownloadAssumption DEF site, call, disk, counts, odd, ghosts, Become
  <1>1. ASSUME NEW c \in Calls, Call(c) PROVE CancelInv'
    BY <1>1 DEF TypeOK, CancelInv, Call, Dropped, Fire
  <1>2. ASSUME NEW c \in Calls, Finish(c) PROVE CancelInv'
    BY <1>2 DEF TypeOK, CancelInv, Finish, Dropped, Fire
  <1>3. ASSUME NEW c \in Calls, Retry(c) PROVE CancelInv'
    BY <1>3 DEF TypeOK, CancelInv, Retry
  <1>4. CASE CancelDownload
    BY <1>4 DEF TypeOK, CancelInv, CancelDownload, Fire
  <1>5. CASE Crash
    BY <1>5 DEF TypeOK, CancelInv, Crash
  <1>6. ASSUME NEW c \in Calls, Step(c) \/ HeadMisleads(c) \/ GetWhole(c) \/ StreamEndsEarly(c) \/ Cancelled(c)
               \/ RequestFails(c) PROVE CancelInv'
    <2>1. /\ UNCHANGED <<attempt, cancel, active, asked>>
          /\ pc[c] # "idle" /\ pc'[c] # "idle" /\ \A x \in Calls \ {c} : pc'[x] = pc[x]
      <3>1. CASE Probe(c) \/ Complete(c) \/ HeadMisleads(c) \/ Verify(c) \/ Move(c) \/ Remove(c)
        BY <3>1 DEF TypeOK, Probe, Complete, HeadMisleads, Verify, Move, Remove
      <3>2. CASE GetRange(c) \/ GetWhole(c)
        BY <3>2 DEF TypeOK, GetRange, GetWhole, Receive
      <3>3. CASE Piece(c)
        BY <3>3 DEF Piece
      <3>4. CASE Cancelled(c) \/ RequestFails(c)
        BY <3>4 DEF TypeOK, Cancelled, RequestFails, Give
      <3>5. CASE StreamEnds(c) \/ StreamEndsEarly(c)
        BY <3>5 DEF TypeOK, StreamEnds, StreamEndsEarly, Flush, AfterStream
      <3> QED
        BY <1>6, <3>1, <3>2, <3>3, <3>4, <3>5 DEF Step
    <2> QED
      BY <2>1 DEF TypeOK, CancelInv
  <1>7. CASE (\E w \in late : Lands(w)) \/ DeleteModel \/ UNCHANGED vars
    BY <1>7 DEF CancelInv, Lands, DeleteModel, vars
  <1> QED
    BY <1>1, <1>2, <1>3, <1>4, <1>5, <1>6, <1>7 DEF Next

(* A call at its first address has been cancelled, or the map has its      *)
(* sender, so that the user's cancel reaches it; the attempt at the mirror *)
(* is the only one it cannot reach.                                        *)
CancelReaches ==
    \A c \in Calls : pc[c] # "idle" /\ attempt[c] = 1 =>
        cancel[c] = "fired" \/ (cancel[c] = "armed" /\ active = c)

(* However calls for the model replace each other's sender, finish, retry  *)
(* and crash, a call at its first address can be cancelled or already is.  *)
THEOREM FirstAttemptCancellable == Spec => []CancelReaches
  <1>1. Init => CancelInv
    BY DownloadAssumption DEF Init, CancelInv
  <1>2. CancelInv => CancelReaches
    BY DEF CancelInv, CancelReaches
  <1> QED
    BY <1>1, <1>2, TypeCorrect, CancelStep, PTL DEF Spec
=============================================================================
