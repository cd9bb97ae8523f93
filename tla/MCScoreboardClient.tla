------------------------- MODULE MCScoreboardClient -------------------------
(* Instances of ScoreboardClient for TLC.                                  *)
EXTENDS ScoreboardClient, TLC

Symmetry ==
  Permutations(Mounts) \cup Permutations(Events) \cup
  Permutations(Sockets) \cup Permutations(Timers)
=============================================================================
