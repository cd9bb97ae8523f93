------------------------------ MODULE MCDaemon ------------------------------
(* An instance of Daemon for TLC.  No symmetry, as liveness is checked.    *)
EXTENDS Daemon
=============================================================================
