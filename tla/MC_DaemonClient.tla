--------------------------- MODULE MC_DaemonClient --------------------------
(* Instances of DaemonClient for TLC.                                      *)
EXTENDS DaemonClient
=============================================================================
