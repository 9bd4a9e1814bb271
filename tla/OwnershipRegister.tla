------------------------- MODULE OwnershipRegister -------------------------
(***************************************************************************)
(* What devices may count on about the ownership of tasks, however their   *)
(* connections come and go.  An assigned task has an owner that is set by  *)
(* compare-and-swap: a request that names the owner it expects takes the   *)
(* task from just that owner, and one that names nobody takes it only if   *)
(* it is free or the requester's own.  Nothing else moves or frees a task. *)
(* Notices come at any time, are lost at any time, and are never wrong.    *)
(***************************************************************************)
CONSTANTS Tasks, Names, None

VARIABLES
    assigned,   \* the tasks there are
    owner,
    taken,      \* every takeover: task, from whom, by whom, from whom expected
    told        \* the notices some connection holds: task, from whom, by whom

vars == <<assigned, owner, taken, told>>

Init ==
    /\ assigned = {}
    /\ owner = [t \in Tasks |-> None]
    /\ taken = {}
    /\ told = {}

Assign(t) ==
    /\ assigned' = assigned \cup {t}
    /\ UNCHANGED <<owner, taken, told>>

Take(t, by, expected) ==
    /\ t \in assigned
    /\ owner' = [owner EXCEPT ![t] = by]
    /\ IF expected = None THEN owner[t] \in {None, by} ELSE owner[t] = expected
    /\ taken' = taken \cup {<<t, owner[t], by, expected>>}
    /\ UNCHANGED <<assigned, told>>

Tell ==
    /\ UNCHANGED <<assigned, owner, taken>>
    /\ \A n \in told' : n \in told \/ \E x \in taken : n = <<x[1], x[2], x[3]>>

Next ==
    \/ Tell
    \/ \E t \in Tasks : Assign(t)
    \/ \E t \in Tasks, by \in Names, expected \in Names \cup {None} : Take(t, by, expected)

Spec == Init /\ [][Next]_vars
=============================================================================
