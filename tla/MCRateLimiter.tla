--------------------------- MODULE MCRateLimiter ---------------------------
(* Instances of RateLimiter for TLC.                                       *)
EXTENDS RateLimiter, TLC

(* Requests are interchangeable, and so are keys.                          *)
Symmetry == Permutations(Requests) \cup Permutations(Keys)
=============================================================================
