--------------------------- MODULE MCAuthSession ---------------------------
(* Instances of AuthSession for TLC.                                       *)
EXTENDS AuthSession, TLC

Symmetry == Permutations(Tabs) \cup Permutations(Sessions)
=============================================================================
