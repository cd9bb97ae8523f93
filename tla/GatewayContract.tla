-------------------------- MODULE GatewayContract --------------------------
(***************************************************************************)
(* What the gateway promises its clients, without middlewares: a request   *)
(* is answered in one step, at most once.  What it is answered follows     *)
(* from the request alone, unless its client has used up the budget of its *)
(* route.  Whether a request is charged does not depend on how it is       *)
(* answered: one without the token it needs is not, any other one on a     *)
(* route with a budget is, also when it is answered with an error.         *)
(***************************************************************************)
EXTENDS Integers, FiniteSets

CONSTANTS
  Requests,
  Inputs,
  Window,
  MaxTime,
  NoBudget,
  Preflight(_),    \* the request asks for no more than permission
  LacksToken(_),   \* it needs a token, and has none that is valid
  BudgetOf(_),     \* the budget it draws on, or NoBudget
  LimitOf(_),      \* the size of a budget
  Client(_),       \* the client it counts as
  Promised(_)      \* its answer, when nothing above stands in the way

VARIABLES
  clock,
  input,           \* the requests that have been received
  ledger,          \* what has been charged, and refused, so far
  answer

vars == <<clock, input, ledger, answer>>

Init ==
  /\ clock = 0
  /\ input = [r \in {} |-> {}]
  /\ ledger = {}
  /\ answer = [r \in Requests |-> "none"]

Tick ==
  /\ clock < MaxTime
  /\ clock' = clock + 1
  /\ UNCHANGED <<input, ledger, answer>>

(* A request arrives, any of those that a client may send.                 *)
Receive(r) ==
  /\ r \notin DOMAIN input
  /\ DOMAIN input' = DOMAIN input \cup {r}
  /\ \A q \in DOMAIN input : input'[q] = input[q]
  /\ input'[r] \in Inputs
  /\ answer' = IF Preflight(input'[r]) THEN [answer EXCEPT ![r] = "204"] ELSE answer
  /\ UNCHANGED <<clock, ledger>>

Waiting(r) == r \in DOMAIN input /\ answer[r] = "none"

(* An answer that costs the client nothing.                                *)
Reply(r) ==
  /\ Waiting(r)
  /\ \/ LacksToken(input[r]) /\ answer' = [answer EXCEPT ![r] = "401"]
     \/ /\ ~LacksToken(input[r]) /\ BudgetOf(input[r]) = NoBudget
        /\ answer' = [answer EXCEPT ![r] = Promised(input[r])]
  /\ UNCHANGED <<clock, input, ledger>>

(* What a client has spent of a budget in the window that ends now.        *)
Spent(client, budget) ==
  {e \in ledger : /\ e.ok /\ e.key = client /\ e.limiter = budget
                  /\ clock - Window < e.at /\ e.at <= clock}

(* An answer that is charged, or refused.                                  *)
Charge(r) ==
  LET b  == BudgetOf(input[r])
      c  == Client(input[r])
      ok == Cardinality(Spent(c, b)) < LimitOf(b)
  IN
  /\ Waiting(r) /\ ~LacksToken(input[r]) /\ b # NoBudget
  /\ ledger' = ledger \cup
       {[req |-> r, key |-> c, at |-> clock, ok |-> ok, limiter |-> b]}
  /\ answer' = [answer EXCEPT ![r] = IF ok THEN Promised(input[r]) ELSE "429"]
  /\ UNCHANGED <<clock, input>>

Next ==
  \/ Tick
  \/ \E r \in Requests : Receive(r) \/ Reply(r) \/ Charge(r)

Spec == Init /\ [][Next]_vars
=============================================================================
