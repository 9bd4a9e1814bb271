------------------------- MODULE MC_TaskSupervisor -------------------------
(* Instances of TaskSupervisor for TLC.                                    *)
EXTENDS TaskSupervisor, TLC

CONSTANTS c1, c2

Sent(c) == c \in Cancels /\ req[c].pc # "unsent"

(* Bound: two reads of output; or one, with a restart or a failing write;  *)
(* or none, with a cancel of a task there is not or a second cancel of the *)
(* task.  Only the requests are told apart here, and no action does so:    *)
(* the second cancel is the one that is sent later.  Nothing that fairness *)
(* makes happen is cut off.                                                *)
ExtraRequest == Sent(c2) \/ \E c \in Cancels : Sent(c) /\ req[c].task = NoTask
FewAccidents ==
    /\ Sent(c2) => Sent(c1) /\ \A c \in Cancels : req[c].task \in Tasks
    /\ \A t \in Tasks :
        restarts + dbErrors + wrote[t] <= (IF ExtraRequest THEN 0 ELSE 2)
    /\ restarts + dbErrors <= 1
=============================================================================
