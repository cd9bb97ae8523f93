--------------------------- MODULE GatewayCluster ---------------------------
(***************************************************************************)
(* The gateway as it is deployed: k8s/base/workloads runs three replicas   *)
(* of the api-gateway, an autoscaler moves that number, and crashes and    *)
(* rollouts replace processes.  Every process creates its own limiters in  *)
(* NewRouter and keeps them in memory, and the service in front of them    *)
(* sends a request to any ready process.  This module follows one limiter  *)
(* and one client address through that.                                    *)
(***************************************************************************)
EXTENDS Integers, FiniteSets

CONSTANTS
  Processes,  \* processes that may run one after the other or together
  Requests,   \* requests of the client
  Limit,      \* limit of the limiter
  Window,     \* its window, in clock units
  MaxUp,      \* maxReplicas of the autoscaler, with the surge of a rollout
  MaxTime     \* bound: the clock stops there

ASSUME ClusterAssumption ==
  /\ {Limit, Window, MaxUp, MaxTime} \subseteq Nat
  /\ IsFiniteSet(Processes)

VARIABLES
  clock,
  life,       \* each process is "new", "up" or "gone"
  decisions   \* the answers given so far, each with the process that gave it

vars == <<clock, life, decisions>>

(* What process p remembers, while it lives: the answers it gave itself.   *)
Ledger(p) ==
  {[req |-> d.req, key |-> d.key, at |-> d.at, ok |-> d.ok] :
     d \in {e \in decisions : e.proc = p}}

Limiter(p) == INSTANCE SlidingWindow WITH
  Keys <- {"client"}, time <- clock, decisions <- Ledger(p)

Up == {p \in Processes : life[p] = "up"}

Init ==
  /\ clock = 0
  /\ life = [p \in Processes |-> "new"]
  /\ decisions = {}

Tick ==
  /\ clock < MaxTime
  /\ clock' = clock + 1
  /\ UNCHANGED <<life, decisions>>

(* main: NewRouter builds empty limiters and the server starts.            *)
Start(p) ==
  /\ life[p] = "new"
  /\ Cardinality(Up) < MaxUp
  /\ life' = [life EXCEPT ![p] = "up"]
  /\ UNCHANGED <<clock, decisions>>

(* A crash, an eviction, a scale-down or the old half of a rollout: what   *)
(* the process remembered is lost with it.                                 *)
Exit(p) ==
  /\ life[p] = "up"
  /\ life' = [life EXCEPT ![p] = "gone"]
  /\ UNCHANGED <<clock, decisions>>

Count(p) == Cardinality(Limiter(p)!Admitted("client", clock))

(* Variant: the limiter compares with > and lets one more through.         *)
ServeOneMore(r, p) ==
  /\ life[p] = "up"
  /\ \A d \in decisions : d.req # r
  /\ decisions' = decisions \cup
       {[req |-> r, key |-> "client", at |-> clock, ok |-> Count(p) <= Limit,
         proc |-> p]}
  /\ UNCHANGED <<clock, life>>

(* The service picks a process; its limiter answers.                       *)
Serve(r, p) ==
  /\ life[p] = "up"
  /\ \A d \in decisions : d.req # r
  /\ decisions' = decisions \cup
       {[req |-> r, key |-> "client", at |-> clock, ok |-> Count(p) < Limit,
         proc |-> p]}
  /\ UNCHANGED <<clock, life>>

Next ==
  \/ Tick
  \/ \E p \in Processes : Start(p) \/ Exit(p)
  \/ \E r \in Requests, p \in Processes : Serve(r, p)

Spec == Init /\ [][Next]_vars

----------------------------------------------------------------------------
(* The admissions of the whole deployment in (t - Window, t].              *)
Admissions(t) == {d \in decisions : d.ok /\ t - Window < d.at /\ d.at <= t}

(* What the deployment does guarantee: a client gets at most Limit         *)
(* admissions per window from each process that served it in that window,  *)
(* replaced processes included.                                            *)
BoundedByProcesses ==
  \A t \in 0..clock :
    Cardinality(Admissions(t)) <=
      Limit * Cardinality({d.proc : d \in Admissions(t)})
=============================================================================
