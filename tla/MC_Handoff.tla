------------------------------ MODULE MC_Handoff ------------------------------
(* Instances of Handoff for TLC.                                            *)
EXTENDS Handoff, TLC

Symmetry == Permutations(Conns) \cup Permutations(Devices)
=============================================================================
