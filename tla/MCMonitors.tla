------------------------------ MODULE MCMonitors ------------------------------
(* Instances of Monitors for TLC. *)
EXTENDS Monitors

CONSTANTS s1
=============================================================================
