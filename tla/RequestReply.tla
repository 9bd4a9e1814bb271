---------------------------- MODULE RequestReply ----------------------------
(***************************************************************************)
(* What the daemon's client SDK promises of a request, whatever becomes of *)
(* the connection: the daemon runs it at most once, an answer is that of   *)
(* its own run, and a request that was refused (the SDK says the           *)
(* connection is closed, or the caller gave up before it was sent) has not *)
(* been run and never will be.  After any other failure the caller does    *)
(* not know.                                                               *)
(***************************************************************************)
EXTENDS Naturals

CONSTANT Calls

VARIABLES
    asked,      \* requests that were made
    runs,       \* how often the daemon ran a request
    outcome     \* what its caller was told

vars == <<asked, runs, outcome>>

Init ==
    /\ asked = {}
    /\ runs = [c \in Calls |-> 0]
    /\ outcome = [c \in Calls |-> "none"]

Ask(c) ==
    /\ c \notin asked
    /\ asked' = asked \cup {c}
    /\ UNCHANGED <<runs, outcome>>

(* A request may run after its caller has stopped waiting for it.          *)
Run(c) ==
    /\ c \in asked /\ runs[c] = 0 /\ outcome[c] # "refused"
    /\ runs' = [runs EXCEPT ![c] = 1]
    /\ UNCHANGED <<asked, outcome>>

Tell(c, o) ==
    /\ c \in asked /\ outcome[c] = "none"
    /\ outcome' = [outcome EXCEPT ![c] = o]
    /\ UNCHANGED <<asked, runs>>

Answer(c) == runs[c] = 1 /\ Tell(c, "answered")
Refuse(c) == runs[c] = 0 /\ Tell(c, "refused")
Fail(c) == Tell(c, "unknown")

Next == \E c \in Calls : Ask(c) \/ Run(c) \/ Answer(c) \/ Refuse(c) \/ Fail(c)

Spec == Init /\ [][Next]_vars
=============================================================================
