-------------------------- MODULE MCGatewayCluster --------------------------
(* Instances of GatewayCluster for TLC.                                    *)
EXTENDS GatewayCluster, TLC

Symmetry == Permutations(Requests) \cup Permutations(Processes)
=============================================================================
