---------------------------- MODULE MCPpsMonitor ----------------------------
(* Model of PpsMonitor; bounds are in the configuration. *)
EXTENDS PpsMonitor
=============================================================================
