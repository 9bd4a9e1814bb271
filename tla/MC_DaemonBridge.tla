--------------------------- MODULE MC_DaemonBridge --------------------------
(* Instances of DaemonBridge for TLC.                                      *)
EXTENDS DaemonBridge
=============================================================================
