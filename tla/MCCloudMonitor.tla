--------------------------- MODULE MCCloudMonitor ---------------------------
(* CloudMonitor with small sets for TLC.                                    *)
EXTENDS CloudMonitor
=============================================================================
