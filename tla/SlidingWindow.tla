--------------------------- MODULE SlidingWindow ---------------------------
(***************************************************************************)
(* What the rate limiter of api/middleware/middleware.go promises, without *)
(* its mutex, its pruned map or its cleanup goroutine.  Every request is   *)
(* decided in one step, in the order of the decision times, from the whole *)
(* history: it is admitted exactly when fewer than Limit requests of its   *)
(* key were admitted during the Window that ends with it.                  *)
(***************************************************************************)
EXTENDS Integers, FiniteSets

CONSTANTS
  Requests,   \* the requests that may arrive
  Keys,       \* the clients the limiter tells apart
  Limit,      \* limit of NewRateLimiter
  Window      \* window of NewRateLimiter, in clock units

VARIABLES
  time,       \* the clock
  decisions   \* every decision taken so far

vars == <<time, decisions>>

Decision == [req : Requests, key : Keys, at : Nat, ok : BOOLEAN]

(* The admissions of key k in the half-open window (t - Window, t].        *)
Admitted(k, t) ==
  {d \in decisions : d.ok /\ d.key = k /\ t - Window < d.at /\ d.at <= t}

Init == time = 0 /\ decisions = {}

Tick == time' = time + 1 /\ UNCHANGED decisions

(* Decide(r): r is answered once, for a moment t between the previous      *)
(* decision and now.                                                       *)
Decide(r) ==
  /\ \A d \in decisions : d.req # r
  /\ \E k \in Keys, t \in 0..time :
       /\ \A d \in decisions : d.at <= t
       /\ decisions' = decisions \cup
            {[req |-> r, key |-> k, at |-> t,
              ok  |-> Cardinality(Admitted(k, t)) < Limit]}
  /\ UNCHANGED time

Next == Tick \/ \E r \in Requests : Decide(r)

Spec == Init /\ [][Next]_vars
=============================================================================
