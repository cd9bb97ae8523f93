----------------------------- MODULE MCGateway -----------------------------
(* Instances of Gateway for TLC.                                           *)
EXTENDS Gateway, TLC

Symmetry == Permutations(Requests)

(* Every route and method, with and without a token, from one connection,  *)
(* and account requests from every client in every way; through an ingress *)
(* the port is one of the ingress, and one is enough.                      *)
OneClient == CHOOSE a \in Addrs : TRUE
OnePort == CHOOSE p \in Ports : TRUE

AllInputs ==
  {in \in Request :
     /\ in.via # "direct" => in.port = OnePort
     /\ \/ /\ in.addr = OneClient /\ in.port = OnePort
           /\ in.via = "direct" /\ in.header = <<>>
        \/ /\ in.route \in AuthRoutes /\ in.method = "POST"
           /\ ~in.token /\ in.wellFormed}
=============================================================================
