--------------------------- MODULE ModelDownload ---------------------------
(***************************************************************************)
(* Downloads of one local AI model: the command with its mirror and its    *)
(* cancel sender, and the downloader that resumes a partial file, checks   *)
(* its hash, if the catalogue has it, and moves it into place.             *)
(*                                                                         *)
(* All calls share the path of the partial file, but a handle stays with   *)
(* the file it opened when the path is renamed or removed.  A file is the  *)
(* sequence of the pieces appended to it; piece k is the k-th of the model.*)
(* A write goes on in the background: dropping the handle does not end it. *)
(***************************************************************************)
EXTENDS Integers, Sequences, FiniteSets

CONSTANTS
    Calls,          \* callers of local_ai_download_model, one call at a time each
    Files,          \* names for files on disk
    NoFile, NoCall,
    Pieces,         \* pieces of the model
    MaxCrashes,     \* bound: crashes of the application
    MaxCancels,     \* bound: calls of local_ai_cancel_download
    MaxDeletes,     \* bound: calls of local_ai_delete_model
    MaxLate,        \* bound: writes of dropped handles on their way
    MaxOdd          \* bound: odd answers of a server (mixed, short, pages)

ASSUME DownloadAssumption ==
    /\ NoFile \notin Files /\ NoCall \notin Calls
    /\ Pieces \in Nat \ {0} /\ MaxCrashes \in Nat /\ MaxCancels \in Nat /\ MaxDeletes \in Nat
    /\ MaxLate \in Nat /\ MaxOdd \in Nat

Whole == [k \in 1..Pieces |-> k]

VARIABLES
    known,      \* the catalogue has the hash of the model, no placeholder
    told,       \* the answer to HEAD tells the size of the model
    pc,         \* where a call is
    attempt,    \* 1 at the first address, 2 at the mirror
    start,      \* start_byte
    next,       \* the piece its response delivers next
    handle,     \* the file it appends to
    cancel,     \* its cancel receiver: armed, fired, deaf
    active,     \* active_downloads: whose sender is in the map
    tmp, dest,  \* the files at the two paths
    content,    \* what is in a file
    late,       \* writes of dropped handles that have not reached the file
    crashes, cancels, deletes,
    asked,      \* ghost: calls the user cancelled while they received
    overlapped, \* ghost: two calls worked on the partial file at a time
    raced,      \* ghost: a length was read before such a write
    mixed,      \* ghost: answers to a range with the whole model
    short,      \* ghost: answers without a length that ended early
    pages       \* ghost: answers to HEAD with the length of something else

site == <<known, told>>
call == <<pc, attempt, start, next, handle, cancel>>
disk == <<tmp, dest, content, late>>
counts == <<crashes, cancels, deletes>>
odd == <<mixed, short, pages>>
ghosts == <<asked, overlapped, raced, odd>>
vars == <<site, call, active, disk, counts, ghosts>>

Init ==
    /\ known \in BOOLEAN /\ told \in BOOLEAN
    /\ pc = [c \in Calls |-> "idle"]
    /\ attempt = [c \in Calls |-> 1]
    /\ start = [c \in Calls |-> 0] /\ next = [c \in Calls |-> 1]
    /\ handle = [c \in Calls |-> NoFile]
    /\ cancel = [c \in Calls |-> "deaf"]
    /\ active = NoCall
    /\ tmp = NoFile /\ dest = NoFile
    /\ content = [f \in Files |-> <<>>] /\ late = {}
    /\ crashes = 0 /\ cancels = 0 /\ deletes = 0
    /\ asked = {} /\ overlapped = FALSE /\ raced = FALSE
    /\ mixed = 0 /\ short = 0 /\ pages = 0

-----------------------------------------------------------------------------
Become(c, p) == pc' = [pc EXCEPT ![c] = p]

(* The disk forgets a file that no path, handle or write refers to.        *)
Used == {tmp, dest} \cup {handle[c] : c \in Calls} \cup {w.file : w \in late}
Keep(new) == content' = [f \in Files |-> IF f \in Used' THEN new[f] ELSE <<>>]

Running == {c \in Calls : pc[c] # "idle"}

(* The sender of a call that loses its place in the map is dropped, which  *)
(* its receiver takes for a cancellation.                                  *)
Fire(c) == [cancel EXCEPT ![c] = IF @ = "armed" THEN "fired" ELSE @]
Dropped == IF active = NoCall THEN cancel ELSE Fire(active)

Call(c) ==
    /\ pc[c] = "idle" /\ Become(c, "probe")
    /\ cancel' = [Dropped EXCEPT ![c] = "armed"]
    /\ active' = c
    /\ UNCHANGED <<site, attempt, start, next, handle, disk, counts, ghosts>>

(* From the look at the length of the partial file to its rename.          *)
Working == {c \in Calls : pc[c] \in {"head", "stream", "verify", "move", "remove"}}

(* How much is there already.                                              *)
Probe(c) ==
    /\ pc[c] = "probe" /\ Become(c, "head")
    /\ start' = [start EXCEPT ![c] = IF tmp = NoFile THEN 0 ELSE Len(content[tmp])]
    /\ overlapped' = (overlapped \/ Working # {})
    /\ raced' = (raced \/ \E w \in late : w.file = tmp)
    /\ UNCHANGED <<site, attempt, next, handle, cancel, active, disk, counts, asked, odd>>

(* One odd answer more fits the bound.                                     *)
MayBeOdd == mixed + short + pages < MaxOdd

(* Mutant: a complete partial file is asked for once more.                 *)
CompleteIgnored(c) ==
    /\ pc[c] = "head" /\ told /\ start[c] > Pieces /\ Become(c, "verify")
    /\ UNCHANGED <<site, attempt, start, next, handle, cancel, active, disk, counts, ghosts>>

(* HEAD told the size, and the partial file has it: no request is made.    *)
Complete(c) ==
    /\ pc[c] = "head" /\ told /\ start[c] >= Pieces /\ Become(c, "verify")
    /\ UNCHANGED <<site, attempt, start, next, handle, cancel, active, disk, counts, ghosts>>

(* The status of HEAD is not looked at: the length of an error page is     *)
(* taken for the size of the model.                                        *)
HeadMisleads(c) ==
    /\ pc[c] = "head" /\ start[c] > 0 /\ MayBeOdd /\ Become(c, "verify")
    /\ pages' = pages + 1
    /\ UNCHANGED <<site, attempt, start, next, handle, cancel, active, disk, counts>>
    /\ UNCHANGED <<asked, overlapped, raced, mixed, short>>

(* The partial file is opened to append, or created.                       *)
Open(c) ==
    IF tmp # NoFile
    THEN handle' = [handle EXCEPT ![c] = tmp] /\ UNCHANGED disk
    ELSE /\ Files \ Used # {}
         /\ tmp' = CHOOSE f \in Files : f \notin Used
         /\ handle' = [handle EXCEPT ![c] = tmp']
         /\ UNCHANGED <<dest, content, late>>

(* A response that starts at piece k.                                      *)
Receive(c, k) ==
    /\ pc[c] = "head" /\ Become(c, "stream")
    /\ next' = [next EXCEPT ![c] = k]
    /\ Open(c)
    /\ UNCHANGED <<site, attempt, start, cancel, active, counts, asked, overlapped, raced>>

(* Mutant: the response is appended from its beginning.                    *)
GetRangeRestarted(c) == start[c] < Pieces /\ Receive(c, 1) /\ UNCHANGED odd

GetRange(c) == start[c] < Pieces /\ Receive(c, start[c] + 1) /\ UNCHANGED odd

(* A server that knows no ranges answers with the whole model.             *)
GetWhole(c) ==
    /\ start[c] > 0 /\ MayBeOdd /\ Receive(c, 1)
    /\ mixed' = mixed + 1 /\ UNCHANGED <<short, pages>>

Piece(c) ==
    /\ pc[c] = "stream" /\ next[c] <= Pieces
    /\ content' = [content EXCEPT ![handle[c]] = Append(@, next[c])]
    /\ next' = [next EXCEPT ![c] = @ + 1]
    /\ UNCHANGED <<site, pc, attempt, start, handle, cancel, active, tmp, dest, late, counts, ghosts>>

(* The file that is at the path is compared with a hash that is known; one *)
(* with a placeholder for a hash is moved as it is.                        *)
AfterStream == IF tmp = NoFile THEN "failed" ELSE IF known THEN "verify" ELSE "move"

(* flush, and what comes after it.                                         *)
Flush(c) ==
    /\ pc[c] = "stream" /\ Become(c, AfterStream)
    /\ handle' = [handle EXCEPT ![c] = NoFile]
    /\ UNCHANGED <<site, attempt, start, next, cancel, active, tmp, dest, late, counts>>
    /\ UNCHANGED <<asked, overlapped, raced, mixed, pages>>
    /\ Keep(content)

(* Mutant: the file stays open.                                            *)
StreamEndsOpen(c) ==
    /\ pc[c] = "stream" /\ next[c] > Pieces /\ Become(c, AfterStream)
    /\ UNCHANGED <<site, attempt, start, next, handle, cancel, active, disk, counts, ghosts>>

StreamEnds(c) == next[c] > Pieces /\ Flush(c) /\ UNCHANGED short

(* An answer that has no length is over when its connection closes: how    *)
(* much was received is compared with nothing.                             *)
StreamEndsEarly(c) == next[c] <= Pieces /\ MayBeOdd /\ Flush(c) /\ short' = short + 1

(* Mutant: the hash is not compared.                                       *)
VerifyNothing(c) ==
    /\ pc[c] = "verify"
    /\ Become(c, IF tmp = NoFile THEN "failed" ELSE "move")
    /\ UNCHANGED <<site, attempt, start, next, handle, cancel, active, disk, counts, ghosts>>

(* The hash of what is at the path now; a placeholder is the hash of no    *)
(* file.                                                                   *)
Verify(c) ==
    /\ pc[c] = "verify"
    /\ Become(c, IF tmp = NoFile THEN "failed"
                 ELSE IF known /\ content[tmp] = Whole THEN "move" ELSE "remove")
    /\ UNCHANGED <<site, attempt, start, next, handle, cancel, active, disk, counts, ghosts>>

(* What is at the path by now is renamed.                                  *)
Move(c) ==
    /\ pc[c] = "move"
    /\ IF tmp = NoFile THEN Become(c, "failed") /\ UNCHANGED <<tmp, dest>>
       ELSE Become(c, "finish") /\ dest' = tmp /\ tmp' = NoFile
    /\ UNCHANGED <<site, attempt, start, next, handle, cancel, active, late, counts, ghosts>>
    /\ Keep(content)

Remove(c) ==
    /\ pc[c] = "remove" /\ Become(c, "failed") /\ tmp' = NoFile
    /\ UNCHANGED <<site, attempt, start, next, handle, cancel, active, dest, late, counts, ghosts>>
    /\ Keep(content)

(* The attempt ends with an error; a piece it received last may still be   *)
(* on its way to the file.                                                 *)
Give(c) ==
    /\ Become(c, "failed")
    /\ late' \in {late} \cup
         {late \cup {[file |-> handle[c], piece |-> k]} :
             k \in {n \in {next[c]} : pc[c] = "stream" /\ n <= Pieces /\ Cardinality(late) < MaxLate}}
    /\ start' = [start EXCEPT ![c] = 0] /\ next' = [next EXCEPT ![c] = 1]
    /\ handle' = [handle EXCEPT ![c] = NoFile]
    /\ UNCHANGED <<site, attempt, cancel, active, tmp, dest, counts, ghosts>>
    /\ Keep(content)

(* The HEAD or the GET fails (416 for a range beyond the end), the stream  *)
(* breaks or the disk is full.                                             *)
RequestFails(c) == pc[c] \in {"head", "stream"} /\ Give(c)

(* Only a call that receives looks at its cancel receiver.                 *)
Cancelled(c) == pc[c] = "stream" /\ cancel[c] = "fired" /\ Give(c)

(* A write of a dropped handle reaches its file, wherever that is by now.  *)
Lands(w) ==
    /\ w \in late /\ late' = late \ {w}
    /\ UNCHANGED <<site, call, active, tmp, dest, counts, ghosts>>
    /\ Keep([content EXCEPT ![w.file] = Append(@, w.piece)])

(* Any error of the first address, a cancellation included, is followed by *)
(* an attempt at the mirror, if there is one, which cannot be cancelled.   *)
Retry(c) ==
    /\ pc[c] = "failed" /\ attempt[c] = 1 /\ Become(c, "probe")
    /\ attempt' = [attempt EXCEPT ![c] = 2]
    /\ cancel' = [cancel EXCEPT ![c] = "deaf"]
    /\ UNCHANGED <<site, start, next, handle, active, disk, counts, ghosts>>

(* The call takes whatever sender the map has for the model with it.       *)
Finish(c) ==
    /\ pc[c] \in {"finish", "failed"} /\ Become(c, "idle")
    /\ cancel' = [Dropped EXCEPT ![c] = "deaf"] /\ active' = NoCall
    /\ attempt' = [attempt EXCEPT ![c] = 1]
    /\ start' = [start EXCEPT ![c] = 0] /\ next' = [next EXCEPT ![c] = 1]
    /\ asked' = asked \ {c}
    /\ UNCHANGED <<site, handle, disk, counts, overlapped, raced, odd>>

(* local_ai_cancel_download.                                               *)
CancelDownload ==
    /\ active # NoCall /\ cancels < MaxCancels /\ cancels' = cancels + 1
    /\ cancel' = Fire(active) /\ active' = NoCall
    /\ asked' = IF pc[active] = "stream" /\ attempt[active] = 1 THEN asked \cup {active} ELSE asked
    /\ UNCHANGED <<site, pc, attempt, start, next, handle, disk, crashes, deletes, overlapped, raced, odd>>

(* local_ai_delete_model.                                                  *)
DeleteModel ==
    /\ dest # NoFile /\ deletes < MaxDeletes /\ deletes' = deletes + 1
    /\ dest' = NoFile
    /\ UNCHANGED <<site, call, active, tmp, late, crashes, cancels, ghosts>>
    /\ Keep(content)

(* The application dies and starts again: only the files are left.         *)
Crash ==
    /\ Running # {} /\ crashes < MaxCrashes /\ crashes' = crashes + 1
    /\ pc' = [c \in Calls |-> "idle"] /\ attempt' = [c \in Calls |-> 1]
    /\ start' = [c \in Calls |-> 0] /\ next' = [c \in Calls |-> 1]
    /\ handle' = [c \in Calls |-> NoFile] /\ cancel' = [c \in Calls |-> "deaf"]
    /\ active' = NoCall /\ late' = {} /\ asked' = {}
    /\ UNCHANGED <<site, tmp, dest, cancels, deletes, overlapped, raced, odd>>
    /\ Keep(content)

Step(c) ==
    \/ Probe(c) \/ Complete(c) \/ GetRange(c) \/ Piece(c) \/ StreamEnds(c)
    \/ Verify(c) \/ Move(c) \/ Remove(c)

Next ==
    \/ \E c \in Calls : \/ Call(c) \/ Step(c) \/ HeadMisleads(c) \/ GetWhole(c)
                        \/ StreamEndsEarly(c) \/ Cancelled(c)
                        \/ RequestFails(c) \/ Retry(c) \/ Finish(c)
    \/ \E w \in late : Lands(w)
    \/ CancelDownload \/ DeleteModel \/ Crash

Spec == Init /\ [][Next]_vars

(* The user calls again after every failure.  A request may fail as often  *)
(* as it likes, and so may a stream at every piece, but where they can     *)
(* succeed again and again they do so again and again.                     *)
FairSpec ==
    /\ Spec /\ WF_vars(\E w \in late : Lands(w))
    /\ \A c \in Calls :
         /\ WF_vars(Call(c) \/ Probe(c) \/ Verify(c) \/ Move(c) \/ Remove(c) \/ Finish(c))
         /\ SF_vars(Complete(c) \/ GetRange(c))
         /\ \A k \in 1..(Pieces + 1) : SF_vars(next[c] = k /\ (Piece(c) \/ StreamEnds(c)))

-----------------------------------------------------------------------------
TypeOK ==
    /\ known \in BOOLEAN /\ told \in BOOLEAN
    /\ pc \in [Calls -> {"idle", "probe", "head", "stream", "verify", "move", "remove", "failed", "finish"}]
    /\ attempt \in [Calls -> {1, 2}]
    /\ start \in [Calls -> Nat] /\ next \in [Calls -> 1..(Pieces + 1)]
    /\ handle \in [Calls -> Files \cup {NoFile}]
    /\ \A c \in Calls : pc[c] = "stream" <=> handle[c] # NoFile
    /\ cancel \in [Calls -> {"armed", "fired", "deaf"}]
    /\ active \in Calls \cup {NoCall}
    /\ tmp \in Files \cup {NoFile} /\ dest \in Files \cup {NoFile}
    /\ content \in [Files -> Seq(1..Pieces)]
    /\ late \subseteq [file : Files, piece : 1..Pieces]
    /\ crashes \in 0..MaxCrashes /\ cancels \in 0..MaxCancels /\ deletes \in 0..MaxDeletes
    /\ asked \subseteq Calls /\ overlapped \in BOOLEAN /\ raced \in BOOLEAN
    /\ mixed \in 0..MaxOdd /\ short \in 0..MaxOdd /\ pages \in 0..MaxOdd
    /\ mixed + short + pages <= MaxOdd

(* Two calls, or a call and a write of one before it, were at the file.    *)
Disturbed == overlapped \/ raced

(* The file at the path is the model's as far as the downloader can tell:  *)
(* the hash is known, or nothing came that only a hash would reveal.       *)
Vouched == known \/ (mixed = 0 /\ short = 0)

(* Unless the partial file was disturbed, a model in place is the model,   *)
(* through failures, crashes and resumption: with a known hash whatever    *)
(* the servers answer, and without one, as for every model of the shipped  *)
(* catalogue, where no server answered a range with the whole model or cut *)
(* an answer short.                                                        *)
PlacedIsWhole == dest # NoFile /\ ~Disturbed /\ Vouched => content[dest] = Whole

(* While no server mixes in a whole model, what is kept of a failed        *)
(* attempt can be continued: with the writes that have not landed it is a  *)
(* beginning of the model.                                                 *)
PartialIsPrefix ==
    tmp # NoFile /\ ~Disturbed /\ mixed = 0 =>
        /\ Len(content[tmp]) <= Pieces
        /\ content[tmp] = SubSeq(Whole, 1, Len(content[tmp]))
        /\ \A w \in late : w.file = tmp => w.piece = Len(content[tmp]) + 1

(* "Cancel an ongoing download": a call that was cancelled while it        *)
(* received does not go on to receive from the mirror.                     *)
CancelStopsDownload == \A c \in asked : ~(pc[c] = "stream" /\ attempt[c] = 2)

(* A complete partial file of a model whose size HEAD does not tell: what  *)
(* is asked for starts at its end, and the server refuses it.              *)
Refused == ~told /\ tmp # NoFile /\ Len(content[tmp]) >= Pieces

(* However often requests fail, break off or the application dies, a user  *)
(* who keeps calling gets a file in place, unless the partial file is      *)
(* disturbed or mixed, or is complete and for ever refused.                *)
RetriesPlaceModel == <>(dest # NoFile \/ Disturbed \/ mixed > 0) \/ <>[]Refused
=============================================================================
