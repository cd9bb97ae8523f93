----------------------- MODULE GatewayCluster_proofs -----------------------
(***************************************************************************)
(* Proofs about GatewayCluster, for any number of processes and requests,  *)
(* any limit and any window.                                               *)
(***************************************************************************)
EXTENDS GatewayCluster, FiniteSetTheorems, TLAPS

Served(S) == {d.proc : d \in S}

StateInv ==
  /\ clock \in Nat
  /\ life \in [Processes -> {"new", "up", "gone"}]
  /\ IsFiniteSet(decisions)
  /\ \A d \in decisions :
       /\ d.proc \in Processes /\ d.key = "client"
       /\ d.at \in 0..clock /\ d.ok \in BOOLEAN
  /\ \A d, e \in decisions : d.req = e.req => d = e

(* The bound, for every part of a window: a window loses admissions as     *)
(* time passes, and a process adds its own to those of the others.         *)
PartsInv ==
  \A t \in 0..clock : \A S \in SUBSET Admissions(t) :
    Cardinality(S) <= Limit * Cardinality(Served(S))

----------------------------------------------------------------------------
LEMMA Numbers == Limit \in Nat /\ Window \in Nat /\ IsFiniteSet(Processes)
BY ClusterAssumption

LEMMA Counts ==
  ASSUME StateInv, NEW S, S \subseteq decisions
  PROVE  /\ IsFiniteSet(S) /\ Cardinality(S) \in Nat
         /\ Served(S) \subseteq Processes /\ IsFiniteSet(Served(S))
         /\ Cardinality(Served(S)) \in Nat
<1>1. Served(S) \subseteq Processes
  BY DEF Served, StateInv
<1> QED BY <1>1, Numbers, FS_Subset, FS_CardinalityType DEF StateInv

LEMMA InitInv == Init => StateInv /\ PartsInv
<1> SUFFICES ASSUME Init PROVE StateInv /\ PartsInv
  OBVIOUS
<1>1. StateInv
  BY FS_EmptySet DEF Init, StateInv
<1>2. ASSUME NEW t \in 0..clock, NEW S \in SUBSET Admissions(t)
      PROVE  Cardinality(S) <= Limit * Cardinality(Served(S))
  <2>1. S = {} /\ Served(S) = {}
    BY DEF Init, Admissions, Served
  <2> QED BY <2>1, FS_EmptySet, Numbers
<1> QED BY <1>1, <1>2 DEF PartsInv

(* A decision, as Serve records it.                                        *)
Decision(r, p) ==
  [req |-> r, key |-> "client", at |-> clock, ok |-> Count(p) < Limit, proc |-> p]

LEMMA StepState == ASSUME StateInv, [Next]_vars PROVE StateInv'
<1>1. CASE UNCHANGED vars
  BY <1>1 DEF vars, StateInv
<1>2. CASE Tick
  BY <1>2 DEF Tick, StateInv
<1>3. ASSUME NEW p \in Processes, Start(p) \/ Exit(p) PROVE StateInv'
  BY <1>3 DEF Start, Exit, StateInv
<1>4. ASSUME NEW r \in Requests, NEW p \in Processes, Serve(r, p) PROVE StateInv'
  <2>1. decisions' = decisions \cup {Decision(r, p)} /\ UNCHANGED <<clock, life>>
    BY <1>4 DEF Serve, Decision
  <2>2. IsFiniteSet(decisions')
    BY <2>1, FS_AddElement DEF StateInv
  <2>3. Decision(r, p).ok \in BOOLEAN
    BY DEF Decision
  <2>4. /\ Decision(r, p).proc = p /\ Decision(r, p).key = "client"
        /\ Decision(r, p).at = clock /\ Decision(r, p).req = r
    BY DEF Decision
  <2>5. \A d \in decisions : d.req # r
    BY <1>4 DEF Serve
  <2>6. \A d, e \in decisions' : d.req = e.req => d = e
    BY <2>1, <2>4, <2>5 DEF StateInv
  <2> QED BY <2>1, <2>2, <2>3, <2>4, <2>6 DEF StateInv
<1> QED BY <1>1, <1>2, <1>3, <1>4 DEF Next

(* A process counts in its ledger what is in the history.                  *)
Recorded(d) == [req |-> d.req, key |-> d.key, at |-> d.at, ok |-> d.ok]

LEMMA Ledgers ==
  ASSUME NEW p
  PROVE  Ledger(p) = {Recorded(d) : d \in {e \in decisions : e.proc = p}}
BY DEF Ledger, Recorded

(* What process p counts is what it has admitted in the current window.    *)
LEMMA OwnCount ==
  ASSUME StateInv, NEW p
  PROVE  Count(p) = Cardinality({d \in Admissions(clock) : d.proc = p})
<1> DEFINE A == {d \in Admissions(clock) : d.proc = p}
           B == Limiter(p)!Admitted("client", clock)
           f == [d \in A |-> Recorded(d)]
<1>1. \A d : /\ Recorded(d).req = d.req /\ Recorded(d).key = d.key
             /\ Recorded(d).at = d.at /\ Recorded(d).ok = d.ok
  BY DEF Recorded
<1>2. B = {Recorded(d) : d \in A}
  <2>1. B = {x \in Ledger(p) : /\ x.ok /\ x.key = "client"
                               /\ clock - Window < x.at /\ x.at <= clock}
    BY DEF Limiter!Admitted
  <2> HIDE DEF B
  <2>2. \A x \in B : \E d \in A : x = Recorded(d)
    BY <1>1, <2>1, Ledgers DEF Admissions
  <2>3. \A d \in A : Recorded(d) \in B
    BY <1>1, <2>1, Ledgers DEF Admissions, StateInv
  <2> QED BY <2>2, <2>3
<1>3. \A d, e \in A : Recorded(d) = Recorded(e) => d = e
  BY <1>1 DEF Admissions, StateInv
<1>4. IsFiniteSet(A)
  <2>1. A \subseteq decisions
    BY DEF Admissions
  <2> QED BY <2>1, Counts
<1> HIDE DEF A, B
<1>5. f \in Bijection(A, B)
  BY <1>2, <1>3 DEF Bijection, Injection, Surjection, IsInjective
<1>6. ExistsBijection(A, B)
  BY <1>5 DEF ExistsBijection
<1>7. Cardinality(B) = Cardinality(A)
  BY <1>4, <1>6, FS_Bijection
<1> QED BY <1>7 DEF A, B, Count

LEMMA StepParts == ASSUME StateInv, PartsInv, [Next]_vars PROVE PartsInv'
<1>1. CASE UNCHANGED <<clock, decisions>>
  BY <1>1 DEF PartsInv, Admissions
<1>2. CASE Tick
  <2>1. clock' = clock + 1 /\ decisions' = decisions
    BY <1>2 DEF Tick
  <2>2. ASSUME NEW t \in 0..clock', NEW S \in SUBSET Admissions(t)'
        PROVE  Cardinality(S) <= Limit * Cardinality(Served(S))
    <3>1. CASE t \in 0..clock
      BY <2>1, <3>1 DEF PartsInv, Admissions
    <3>2. CASE t = clock + 1
      <4>1. S \in SUBSET Admissions(clock)
        BY <2>1, <3>2, Numbers DEF Admissions, StateInv
      <4>2. clock \in 0..clock
        BY DEF StateInv
      <4> QED BY <4>1, <4>2 DEF PartsInv
    <3> QED BY <2>1, <3>1, <3>2 DEF StateInv
  <2> QED BY <2>2 DEF PartsInv, Served
<1>3. ASSUME NEW r \in Requests, NEW p \in Processes, Serve(r, p) PROVE PartsInv'
  <2> DEFINE d == Decision(r, p)
  <2>1. decisions' = decisions \cup {d} /\ clock' = clock
    BY <1>3 DEF Serve, Decision
  <2>2. d.at = clock /\ d.proc = p /\ (d.ok => Count(p) < Limit)
    BY DEF Decision
  <2> HIDE DEF d
  <2>3. ASSUME NEW t \in 0..clock, NEW S \in SUBSET Admissions(t)'
        PROVE  Cardinality(S) <= Limit * Cardinality(Served(S))
    <3>1. CASE d \notin S
      <4>1. S \in SUBSET Admissions(t)
        BY <2>1, <3>1 DEF Admissions
      <4> QED BY <4>1 DEF PartsInv
    <3>2. CASE d \in S
      <4> DEFINE own == {x \in S \ {d} : x.proc = p}
                 others == {x \in S : x.proc # p}
      <4>1. d.ok /\ t = clock /\ S \ {d} \subseteq Admissions(clock)
        BY <2>1, <2>2, <3>2 DEF Admissions, StateInv
      <4>2. /\ own \subseteq {x \in Admissions(clock) : x.proc = p}
            /\ others \in SUBSET Admissions(clock)
            /\ Admissions(clock) \subseteq decisions
        BY <2>2, <4>1 DEF Admissions
      <4>3. /\ S = others \cup (own \cup {d}) /\ others \cap (own \cup {d}) = {}
            /\ d \notin own
        BY <2>2, <3>2
      <4>4. Served(S) = Served(others) \cup {p} /\ p \notin Served(others)
        BY <2>2, <3>2 DEF Served
      <4> HIDE DEF own, others
      <4>5. /\ IsFiniteSet(own) /\ IsFiniteSet(others)
            /\ Cardinality(own) \in Nat /\ Cardinality(others) \in Nat
            /\ IsFiniteSet(Served(others)) /\ Cardinality(Served(others)) \in Nat
        BY <4>2, Counts
      <4>6. Cardinality(own) <= Count(p) /\ Count(p) \in Nat
        <5> DEFINE all == {x \in Admissions(clock) : x.proc = p}
        <5>1. all \subseteq decisions
          BY DEF Admissions
        <5> HIDE DEF all
        <5>2. IsFiniteSet(all) /\ Cardinality(all) \in Nat
          BY <5>1, Counts
        <5>3. own \subseteq all
          BY <4>2 DEF all
        <5>4. Cardinality(own) <= Cardinality(all)
          BY <5>2, <5>3, FS_Subset
        <5> QED BY <5>2, <5>4, OwnCount DEF all
      <4>7. IsFiniteSet(own \cup {d}) /\ Cardinality(own \cup {d}) = Cardinality(own) + 1
        BY <4>3, <4>5, FS_AddElement
      <4>8. Cardinality(others \cap (own \cup {d})) = 0
        BY <4>3, FS_EmptySet
      <4>9. Cardinality(S) = Cardinality(others) + Cardinality(own) + 1
        <5>1. Cardinality(others \cup (own \cup {d})) =
                Cardinality(others) + Cardinality(own \cup {d})
                - Cardinality(others \cap (own \cup {d}))
          BY <4>5, <4>7, FS_Union
        <5>2. Cardinality(S) = Cardinality(others) + Cardinality(own \cup {d}) - 0
          BY <4>3, <4>8, <5>1
        <5> QED BY <4>5, <4>7, <5>2
      <4>10. Cardinality(Served(S)) = Cardinality(Served(others)) + 1
        BY <4>4, <4>5, FS_AddElement
      <4>11. Cardinality(others) <= Limit * Cardinality(Served(others))
        BY <4>2 DEF PartsInv, StateInv
      <4>12. Cardinality(own) + 1 <= Limit
        BY <2>2, <4>1, <4>5, <4>6, Numbers
      <4>13. \A n \in Nat : Limit * (n + 1) = Limit * n + Limit
        BY Numbers
      <4>14. Limit * Cardinality(Served(others)) \in Nat
        BY <4>5, Numbers
      <4> QED BY <4>5, <4>9, <4>10, <4>11, <4>12, <4>13, <4>14, Numbers
    <3> QED BY <3>1, <3>2
  <2> QED BY <2>1, <2>3 DEF PartsInv, Served
<1>4. ASSUME NEW p \in Processes, Start(p) \/ Exit(p)
      PROVE  UNCHANGED <<clock, decisions>>
  BY <1>4 DEF Start, Exit
<1> QED BY <1>1, <1>2, <1>3, <1>4 DEF Next, vars

(* Everything together is inductive.                                       *)
THEOREM Invariance == Spec => [](StateInv /\ PartsInv)
<1>1. StateInv /\ PartsInv /\ [Next]_vars => (StateInv /\ PartsInv)'
  BY StepState, StepParts
<1> QED BY InitInv, <1>1, PTL DEF Spec

(* However many processes start, crash and are replaced, a client gets at  *)
(* most Limit admissions per window from each that served it.              *)
THEOREM BudgetPerProcess == Spec => []BoundedByProcesses
<1>1. PartsInv => BoundedByProcesses
  BY DEF PartsInv, BoundedByProcesses, Served
<1> QED BY Invariance, <1>1, PTL

----------------------------------------------------------------------------
LEMMA LimiterCardinality ==
  ASSUME NEW p PROVE \A S : Limiter(p)!Cardinality(S) = Cardinality(S)
BY DEF Limiter!Cardinality, Cardinality

(* An answer of p is a decision of its limiter.                            *)
LEMMA ServeDecides ==
  ASSUME StateInv, NEW r \in Requests, NEW p \in Processes, Serve(r, p)
  PROVE  Limiter(p)!Decide(r)
<1> DEFINE x == Decision(r, p)
           ok == Cardinality(Limiter(p)!Admitted("client", clock)) < Limit
<1>1. /\ \A d \in decisions : d.req # r
      /\ decisions' = decisions \cup {x} /\ clock' = clock
  BY DEF Serve, Decision
<1>2. x.proc = p
  BY DEF Decision
<1>3. Recorded(x) = [req |-> r, key |-> "client", at |-> clock, ok |-> ok]
  BY DEF Recorded, Decision, Count
<1> HIDE DEF x
<1>4. Ledger(p)' = Ledger(p) \cup {Recorded(x)}
  <2>1. {e \in decisions' : e.proc = p} = {e \in decisions : e.proc = p} \cup {x}
    BY <1>1, <1>2
  <2>2. Ledger(p)' = {Recorded(d) : d \in {e \in decisions' : e.proc = p}}
    BY DEF Ledger, Recorded
  <2> QED BY <2>1, <2>2, Ledgers
<1>5. \A d \in Ledger(p) : d.req # r /\ d.at <= clock
  BY <1>1 DEF Ledger, StateInv
<1>6. clock \in 0..clock
  BY DEF StateInv
<1>7. \E k \in {"client"}, t \in 0..clock :
        /\ \A d \in Ledger(p) : d.at <= t
        /\ Ledger(p)' = Ledger(p) \cup
             {[req |-> r, key |-> k, at |-> t,
               ok  |-> Cardinality(Limiter(p)!Admitted(k, t)) < Limit]}
  BY <1>3, <1>4, <1>5, <1>6
<1> QED BY <1>1, <1>5, <1>7, LimiterCardinality DEF Limiter!Decide

LEMMA StepDecides ==
  ASSUME StateInv, [Next]_vars, NEW p \in Processes
  PROVE  [Limiter(p)!Next]_(Limiter(p)!vars)
<1>1. ASSUME NEW r \in Requests, Serve(r, p) PROVE Limiter(p)!Next
  BY <1>1, ServeDecides DEF Limiter!Next
<1>2. ASSUME NEW r \in Requests, NEW q \in Processes \ {p}, Serve(r, q)
      PROVE  UNCHANGED Limiter(p)!vars
  <2>1. decisions' = decisions \cup {Decision(r, q)} /\ clock' = clock
    BY <1>2 DEF Serve, Decision
  <2>2. Decision(r, q).proc = q
    BY DEF Decision
  <2>3. {e \in decisions' : e.proc = p} = {e \in decisions : e.proc = p}
    BY <2>1, <2>2
  <2> QED BY <2>1, <2>3 DEF Limiter!vars, Ledger
<1>3. CASE Tick
  BY <1>3 DEF Tick, Limiter!Next, Limiter!Tick, Ledger
<1>4. CASE UNCHANGED <<clock, decisions>>
  BY <1>4 DEF Limiter!vars, Ledger
<1>5. ASSUME NEW q \in Processes, Start(q) \/ Exit(q)
      PROVE  UNCHANGED <<clock, decisions>>
  BY <1>5 DEF Start, Exit
<1> QED BY <1>1, <1>2, <1>3, <1>4, <1>5 DEF Next, vars

(* Each process of the deployment, however the others start, serve and     *)
(* end, is by itself the atomic limiter that RateLimiter implements.       *)
THEOREM ProcessesAreSlidingWindows ==
  ASSUME NEW p \in Processes
  PROVE  Spec => Limiter(p)!Spec
<1>1. Init => Limiter(p)!Init
  BY DEF Init, Limiter!Init, Ledger
<1> QED BY <1>1, StepDecides, Invariance, PTL DEF Spec, Limiter!Spec
=============================================================================
