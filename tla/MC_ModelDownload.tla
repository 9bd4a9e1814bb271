--------------------------- MODULE MC_ModelDownload ---------------------------
(* Instances of ModelDownload for TLC.                                     *)
EXTENDS ModelDownload

(* A disturbed file stays disturbed, and the properties claim nothing of   *)
(* it: what follows is not explored.                                       *)
Undisturbed == ~Disturbed

(* Bound: a crash comes together with a mixed or a short answer in one     *)
(* behaviour, a cancel, a deletion and an error page by themselves.        *)
FewAccidents ==
    /\ cancels + deletes + pages + crashes <= 1
    /\ cancels + deletes + pages + mixed + short <= 1
=============================================================================
