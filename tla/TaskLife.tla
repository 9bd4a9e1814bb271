------------------------------ MODULE TaskLife ------------------------------
(***************************************************************************)
(* What a client of the daemon may count on about a task, whatever threads *)
(* and requests the daemon runs it with.  The run of a task ends once and  *)
(* its end is stored once, over whatever is there; a cancel request stores *)
(* at most once; nothing else ends a task and nothing makes an ended one   *)
(* run again.  An end is announced after it was stored, or its write was   *)
(* lost.  A restart of the daemon forgets announcements and requests and   *)
(* leaves the table as it is.                                              *)
(***************************************************************************)
CONSTANTS Tasks, NoTask, Cancels

VARIABLES
    row,        \* the status a client reads
    run,        \* none, accepted, open, then how it ended, or gone
    stop,       \* a cancel request: unsent, asked, stored, closed
    target,     \* the task it is for
    told,       \* the ends announced, with their tasks
    unsure      \* a write of the table has failed

vars == <<row, run, stop, target, told, unsure>>

Ends == {"succeeded", "failed"}

Init ==
    /\ row = [t \in Tasks |-> "absent"] /\ run = [t \in Tasks |-> "none"]
    /\ stop = [c \in Cancels |-> "unsent"] /\ target = [c \in Cancels |-> NoTask]
    /\ told = {} /\ unsure = FALSE

Runs(t, from, to) == run[t] = from /\ run' = [run EXCEPT ![t] = to]
Stops(c, from, to) == stop[c] = from /\ stop' = [stop EXCEPT ![c] = to]
MayFail == unsure' \in {unsure, TRUE}

Accept(t) ==
    /\ Runs(t, "none", "accepted")
    /\ row' = [row EXCEPT ![t] = "running"]
    /\ UNCHANGED <<stop, target, told, unsure>>

Launch(t) == Runs(t, "accepted", "open") /\ UNCHANGED <<row, stop, target, told, unsure>>

(* The client of task.assign gets an error; an accepted task keeps its row *)
Refuse(t) ==
    /\ Runs(t, "none", "gone") \/ Runs(t, "accepted", "gone")
    /\ MayFail
    /\ UNCHANGED <<row, stop, target, told>>

Finish(t, how) ==
    /\ Runs(t, "open", how)
    /\ \/ row' = [row EXCEPT ![t] = how] /\ UNCHANGED unsure
       \/ unsure' = TRUE /\ UNCHANGED row
    /\ UNCHANGED <<stop, target, told>>

Announce(t) ==
    /\ run[t] \in Ends
    /\ told' = told \cup {<<t, run[t]>>}
    /\ UNCHANGED <<row, run, stop, target, unsure>>

Ask(c, t) ==
    /\ Stops(c, "unsent", "asked")
    /\ t \in Tasks => row[t] # "absent"
    /\ target' = [target EXCEPT ![c] = t]
    /\ UNCHANGED <<row, run, told, unsure>>

(* A signal was sent, or the answer is an error.                           *)
Close(c) == Stops(c, "asked", "closed") /\ MayFail /\ UNCHANGED <<row, run, target, told>>

StoreStop(c) ==
    /\ Stops(c, "asked", "stored")
    /\ target[c] \in Tasks /\ row' = [row EXCEPT ![target[c]] = "cancelled"]
    /\ UNCHANGED <<run, target, told, unsure>>

AnnounceStop(c) ==
    /\ Stops(c, "stored", "closed")
    /\ told' = told \cup {<<target[c], "cancelled">>}
    /\ UNCHANGED <<row, run, target, unsure>>

(* Another write of the table is lost.                                     *)
LoseWrite == unsure' = TRUE /\ UNCHANGED <<row, run, stop, target, told>>

Restart ==
    /\ run' = [t \in Tasks |-> IF run[t] = "none" THEN "none" ELSE "gone"]
    /\ stop' = [c \in Cancels |-> IF stop[c] = "unsent" THEN "unsent" ELSE "closed"]
    /\ told' = {}
    /\ UNCHANGED <<row, target, unsure>>

Next ==
    \/ \E t \in Tasks : Accept(t) \/ Launch(t) \/ Refuse(t) \/ Announce(t) \/ \E how \in Ends : Finish(t, how)
    \/ \E c \in Cancels : Close(c) \/ StoreStop(c) \/ AnnounceStop(c) \/ \E t \in Tasks \cup {NoTask} : Ask(c, t)
    \/ LoseWrite \/ Restart

Spec == Init /\ [][Next]_vars
=============================================================================
