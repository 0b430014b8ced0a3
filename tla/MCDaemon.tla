------------------------------ MODULE MCDaemon ------------------------------
(* The daemons of one user for TLC: three runs of main, in any overlap.     *)
EXTENDS Daemon
=============================================================================
