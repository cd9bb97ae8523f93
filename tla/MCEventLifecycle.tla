-------------------------- MODULE MCEventLifecycle --------------------------
(* An instance of EventLifecycle for TLC.  No symmetry, as liveness is     *)
(* checked.                                                                *)
EXTENDS EventLifecycle
=============================================================================
