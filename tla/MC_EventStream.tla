--------------------------- MODULE MC_EventStream ---------------------------
(* Instances of EventStream for TLC.                                       *)
EXTENDS EventStream, TLC

Symmetry == Permutations(Clients)

(* The database fails and the retention job runs in separate behaviours.   *)
FewAccidents == dbErrors + prunes <= 1
=============================================================================
