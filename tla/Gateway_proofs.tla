--------------------------- MODULE Gateway_proofs ---------------------------
(***************************************************************************)
(* Proofs about Gateway, for any set of requests, inputs and addresses,    *)
(* and any limits.                                                         *)
(***************************************************************************)
EXTENDS Gateway, FiniteSetTheorems, SequenceTheorems, TLAPS

(* What a request may have still to pass, with and without a limiter; and  *)
(* before which of them nothing can have charged it.                       *)
Unlimited == {<<>>, <<"post">>, <<"jwt", "post">>}
Limited == {<<"auth", "post">>, <<"api">>, <<"jwt", "api">>,
            <<"jwt", "flag", "post">>, <<"flag", "post">>}

Uncharged == Limited \cup {<<"jwt", "post">>}

JwtRoutes == JwtFirst \cup {"logout", "flags"}

Statuses == {"none", "200", "201", "204", "400", "401", "404", "405", "429"}

StateInv ==
  /\ clock \in 0..MaxTime
  /\ Arrived \subseteq Requests /\ \A r \in Arrived : input[r] \in Inputs
  /\ todo \in [Requests -> Unlimited \cup Limited]
  /\ status \in [Requests -> Statuses]
  /\ \A r \in Requests \ Arrived : status[r] = "none"
  /\ \A r \in Arrived : status[r] = "none" => input[r].method # "OPTIONS"

(* Every decision is about the client of its request, which has arrived.   *)
DecisionInv ==
  /\ IsFiniteSet(decisions)
  /\ \A d \in decisions :
       /\ d.req \in Arrived /\ d.limiter \in Limiters
       /\ d.key = Client(input[d.req]) /\ d.at \in 0..clock /\ d.ok \in BOOLEAN
       /\ input[d.req].method # "OPTIONS"
       /\ d.ok \/ status[d.req] = "429"
       /\ input[d.req].route \in AuthRoutes => d.limiter = "auth"
  /\ \A d, e \in decisions : d.req = e.req => d = e

(* Before its limiter a request has not been charged, and before its token *)
(* check not either; without a valid token it never gets past that check.  *)
ChargeInv ==
  \A r \in Arrived : status[r] = "none" /\ todo[r] \in Uncharged => ~Charged(r)
TokenInv ==
  \A r \in Arrived :
    status[r] = "none" /\ input[r].route \in JwtRoutes /\ ~input[r].token
    => todo[r] # <<>> /\ Head(todo[r]) = "jwt"
RouteInv ==
  \A r \in Arrived :
    status[r] = "none" /\ input[r].route \in AuthRoutes
    => todo[r] \in {<<"auth", "post">>, <<"post">>, <<>>}

IInv == /\ StateInv /\ DecisionInv /\ ChargeInv /\ TokenInv /\ RouteInv
        /\ RefusedTokenIsFree /\ SuccessNeedsToken

----------------------------------------------------------------------------
(* What Append leaves in front.                                            *)
LEMMA HeadedBy ==
  ASSUME NEW S, NEW seq \in Seq(S), NEW x \in S
  PROVE  /\ Append(seq, x) \in Seq(S) /\ Append(seq, x) # <<>>
         /\ \A i \in 1..Len(seq) : Append(seq, x)[i] = seq[i]
BY AppendProperties

(* The key of a request is the client it counts as, however it comes.      *)
LEMMA KeyIsClient ==
  ASSUME NEW in \in Request
  PROVE  ClientKey(in) = Client(in) /\ Client(in) \in Addrs
<1>1. in.addr \in Addrs /\ in.via \in {"direct", "nginx", "alb"}
      /\ (in.header = <<>> \/ \E a \in Addrs : in.header = <<a>>)
  BY DEF Request
<1>2. CASE in.header = <<>>
  <2>1. Forwarded(in) = <<>> \/ Forwarded(in) = <<in.addr>>
    BY <1>1, <1>2 DEF Forwarded
  <2> QED BY <1>1, <1>2, <2>1 DEF ClientKey, Client, RemoteAddr, Forwarded
<1>3. ASSUME NEW a \in Addrs, in.header = <<a>>
      PROVE  ClientKey(in) = Client(in) /\ Client(in) \in Addrs
  <2> DEFINE f == Append(in.header, in.addr)
  <2>1. in.header \in Seq(Addrs) /\ Len(in.header) = 1 /\ in.header[1] = a
    BY <1>3
  <2>2. f # <<>> /\ Head(f) = a
    <3>1. /\ f \in Seq(Addrs) /\ f # <<>>
          /\ \A i \in 1..Len(in.header) : f[i] = in.header[i]
      BY <1>1, <2>1, HeadedBy
    <3>2. f[1] = a
      BY <2>1, <3>1
    <3> HIDE DEF f
    <3> QED BY <3>1, <3>2
  <2>3. Client(in) = IF in.via = "nginx" THEN in.addr ELSE a
    BY <1>1, <1>3 DEF Client
  <2>4. CASE in.via = "direct"
    BY <2>1, <2>3, <2>4, <1>3 DEF ClientKey, Forwarded
  <2>5. CASE in.via = "nginx"
    BY <1>1, <2>3, <2>5 DEF ClientKey, Forwarded
  <2>6. CASE in.via = "alb"
    <3>1. Forwarded(in) = f
      BY <2>6 DEF Forwarded
    <3> QED BY <2>2, <2>3, <2>6, <3>1 DEF ClientKey
  <2> QED BY <1>1, <1>3, <2>3, <2>4, <2>5, <2>6
<1> QED BY <1>1, <1>2, <1>3

LEMMA KeyOfArrived ==
  ASSUME StateInv, NEW r \in Arrived
  PROVE  ClientKey(input[r]) = Client(input[r]) /\ Client(input[r]) \in Addrs
BY KeyIsClient, GatewayAssumption DEF StateInv

LEMMA Chains ==
  ASSUME NEW route \in Routes
  PROVE  /\ Chain(route) \in Unlimited \cup Limited
         /\ route \in JwtRoutes => Chain(route) # <<>> /\ Head(Chain(route)) = "jwt"
         /\ route \in AuthRoutes => Chain(route) = <<"auth", "post">>
BY DEF Chain, Listed, Routes, AuthRoutes, JwtFirst, JwtRoutes, Unlimited, Limited

(* One middleware on: the token check comes first, the limiter before the  *)
(* method filter.                                                          *)
LEMMA Tails ==
  ASSUME NEW c \in Unlimited \cup Limited, c # <<>>
  PROVE  /\ Tail(c) \in Unlimited \cup Limited
         /\ c \in Unlimited => Tail(c) \in Unlimited
         /\ Head(c) \in Limiters => Tail(c) \in Unlimited /\ c \in Limited
         /\ Head(c) = "post" => Tail(c) = <<>>
         /\ Head(c) = "jwt" => c \in Uncharged
         /\ Tail(c) # <<"jwt", "post">>
         /\ c = <<"auth", "post">> => Head(c) = "auth" /\ Tail(c) = <<"post">>
         /\ Head(c) \in Limiters \cup {"jwt", "post"}
         /\ Head(c) = "auth" => c = <<"auth", "post">>
<1> USE DEF Unlimited, Limited, Limiters, Uncharged
<1>1. CASE c = <<"post">>
  <2>1. Tail(c) = <<>> /\ Head(c) = "post" BY <1>1
  <2> QED BY <1>1, <2>1
<1>2. CASE c = <<"jwt", "post">>
  <2>1. Tail(c) = <<"post">> /\ Head(c) = "jwt" BY <1>2
  <2> QED BY <1>2, <2>1
<1>3. CASE c = <<"auth", "post">>
  <2>1. Tail(c) = <<"post">> /\ Head(c) = "auth" BY <1>3
  <2> QED BY <1>3, <2>1
<1>4. CASE c = <<"api">>
  <2>1. Tail(c) = <<>> /\ Head(c) = "api" BY <1>4
  <2> QED BY <1>4, <2>1
<1>5. CASE c = <<"jwt", "api">>
  <2>1. Tail(c) = <<"api">> /\ Head(c) = "jwt" BY <1>5
  <2> QED BY <1>5, <2>1
<1>6. CASE c = <<"jwt", "flag", "post">>
  <2>1. Tail(c) = <<"flag", "post">> /\ Head(c) = "jwt" BY <1>6
  <2> QED BY <1>6, <2>1
<1>7. CASE c = <<"flag", "post">>
  <2>1. Tail(c) = <<"post">> /\ Head(c) = "flag" BY <1>7
  <2> QED BY <1>7, <2>1
<1> QED BY <1>1, <1>2, <1>3, <1>4, <1>5, <1>6, <1>7

LEMMA InitIInv == Init => IInv
<1> SUFFICES ASSUME Init PROVE IInv
  OBVIOUS
<1>1. Arrived = {} /\ decisions = {}
  BY DEF Init, Arrived
<1>2. StateInv
  BY <1>1, GatewayAssumption DEF Init, StateInv, Unlimited, Statuses
<1>3. DecisionInv
  BY <1>1, FS_EmptySet DEF DecisionInv
<1> QED
  BY <1>1, <1>2, <1>3
  DEF IInv, ChargeInv, TokenInv, RouteInv, RefusedTokenIsFree, SuccessNeedsToken

(* What handlers answer, once the chain has been passed.                   *)
LEMMA Answers ==
  ASSUME NEW in \in Request
  PROVE  /\ Handled(in) \in Statuses \ {"none", "429"}
         /\ Handled(in) = "401" => in.route = "events"
         /\ Handled(in) \in Successes /\ ~in.token /\ in.route \notin JwtRoutes
            => in.route \in PublicRoutes \/ (in.route = "events" /\ in.method = "GET")
<1>1. in.route \in Routes /\ in.method \in Methods
  BY DEF Request
<1> DEFINE P == /\ Handled(in) \in Statuses \ {"none", "429"}
                /\ Handled(in) = "401" => in.route = "events"
                /\ Handled(in) \in Successes /\ ~in.token /\ in.route \notin JwtRoutes
                   => in.route \in PublicRoutes
                      \/ (in.route = "events" /\ in.method = "GET")
<1> USE DEF Handled, Checked, OnGet, Statuses, Successes, JwtRoutes, AuthRoutes,
            JwtFirst, PublicRoutes
<1>2. CASE in.route \in AuthRoutes \cup {"logout"}
  BY <1>2 DEF AccountHandled
<1>3. CASE in.route = "events"
  BY <1>3 DEF EventsHandled
<1>4. CASE in.route \in {"event", "challenges", "eventTeams", "scoreboard"}
  BY <1>4 DEF SubrouteHandled
<1>5. CASE in.route \in {"bySlug", "flags", "team", "health", "unknown"}
  BY <1>5 DEF SlugHandled, FlagHandled, TeamHandled
<1> QED BY <1>1, <1>2, <1>3, <1>4, <1>5 DEF Routes

----------------------------------------------------------------------------
(* Time passes.                                                            *)
LEMMA TickKeeps == ASSUME IInv, Tick PROVE IInv'
<1>1. UNCHANGED <<input, todo, decisions, status, Arrived>>
      /\ clock' = clock + 1 /\ clock < MaxTime
  BY DEF Tick, Arrived
<1>2. MaxTime \in Nat
  BY GatewayAssumption
<1>3. StateInv'
  BY <1>1, <1>2 DEF IInv, StateInv
<1>4. DecisionInv'
  BY <1>1, <1>2 DEF IInv, StateInv, DecisionInv
<1> QED
  BY <1>1, <1>3, <1>4 DEF IInv, ChargeInv, TokenInv, RouteInv,
     RefusedTokenIsFree, SuccessNeedsToken, Charged

(* A request arrives, uncharged, before its whole chain or answered.       *)
LEMMA ArriveKeeps ==
  ASSUME IInv, NEW r \in Requests, NEW in \in Inputs, Arrive(r, in) PROVE IInv'
<1> USE DEF IInv
<1>1. /\ r \notin Arrived /\ Arrived' = Arrived \cup {r} /\ input'[r] = in
      /\ \A q \in Arrived : input'[q] = input[q] /\ q # r
      /\ UNCHANGED <<clock, decisions>>
  BY DEF Arrive, Arrived
<1>2. in \in Request /\ in.route \in Routes
  BY GatewayAssumption DEF Request
<1>3. Chain(in.route) \in Unlimited \cup Limited
  BY <1>2, Chains
<1>4. /\ todo' = [todo EXCEPT ![r] = Chain(in.route)] /\ status' = status
         /\ in.method # "OPTIONS"
      \/ /\ todo' = todo /\ status' = [status EXCEPT ![r] = "204"]
         /\ in.method = "OPTIONS"
  BY DEF Arrive
<1>5. StateInv'
  BY <1>1, <1>3, <1>4 DEF StateInv, Statuses
<1>6. \A q \in Arrived : todo'[q] = todo[q] /\ status'[q] = status[q]
  BY <1>1, <1>4 DEF StateInv
<1>7. DecisionInv'
  BY <1>1, <1>6 DEF DecisionInv
<1>8. ~Charged(r)' /\ \A q \in Arrived : Charged(q)' <=> Charged(q)
  BY <1>1 DEF Charged, DecisionInv
<1>9. \/ status'[r] = "none" /\ todo'[r] = Chain(in.route)
      \/ status'[r] = "204" /\ in.method = "OPTIONS"
  BY <1>4, <1>1 DEF StateInv
<1>10. ChargeInv'
  BY <1>1, <1>6, <1>8 DEF ChargeInv
<1>11. TokenInv'
  BY <1>1, <1>2, <1>6, <1>9, Chains DEF TokenInv
<1>12. RouteInv'
  BY <1>1, <1>2, <1>6, <1>9, Chains DEF RouteInv
<1>13. RefusedTokenIsFree'
  BY <1>1, <1>6, <1>8 DEF RefusedTokenIsFree
<1>14. SuccessNeedsToken'
  BY <1>1, <1>6, <1>9 DEF SuccessNeedsToken, Successes
<1> QED BY <1>5, <1>7, <1>10, <1>11, <1>12, <1>13, <1>14

(* A step of r within its chain, which charges nobody.                     *)
Within(r) ==
  /\ r \in Arrived /\ status[r] = "none"
  /\ UNCHANGED <<clock, input, decisions, Arrived>>
  /\ \A q \in Requests \ {r} : todo'[q] = todo[q] /\ status'[q] = status[q]

LEMMA PassKeeps ==
  ASSUME IInv, NEW r \in Requests, Within(r), PassOn(r), todo[r] # <<>>,
         Head(todo[r]) = "jwt" => input[r].token
  PROVE  IInv'
<1> USE DEF IInv, Within
<1>1. todo[r] \in Unlimited \cup Limited
  BY DEF StateInv
<1>2. todo' = [todo EXCEPT ![r] = Tail(todo[r])] /\ status' = status
  BY DEF PassOn
<1>3. todo'[r] = Tail(todo[r])
  BY <1>2 DEF StateInv
<1>4. StateInv'
  BY <1>1, <1>2, Tails DEF StateInv
<1>5. DecisionInv'
  BY <1>2 DEF DecisionInv
<1>6. \A q \in Arrived : Charged(q)' <=> Charged(q)
  BY DEF Charged
<1>7. ChargeInv'
  <2>1. todo'[r] \in Uncharged => todo[r] \in Uncharged
    <3>1. Unlimited \cap Limited = {}
      BY DEF Unlimited, Limited
    <3> QED BY <1>1, <1>3, <3>1, Tails DEF Uncharged
  <2> QED BY <1>2, <1>6, <2>1 DEF ChargeInv, StateInv
<1>8. TokenInv'
  BY <1>2 DEF TokenInv, StateInv
<1>9. RouteInv'
  BY <1>1, <1>2, <1>3, Tails DEF RouteInv, StateInv, Limiters
<1>10. RefusedTokenIsFree' /\ SuccessNeedsToken'
  BY <1>2, <1>6 DEF RefusedTokenIsFree, SuccessNeedsToken
<1> QED BY <1>4, <1>5, <1>7, <1>8, <1>9, <1>10

LEMMA AnswerKeeps ==
  ASSUME IInv, NEW r \in Requests, Within(r), NEW code \in Statuses \ {"none"},
         Answer(r, code),
         code = "401" /\ input[r].route # "events" => ~Charged(r),
         code \in Successes /\ ~input[r].token =>
           \/ input[r].route \in PublicRoutes
           \/ input[r].route = "events" /\ input[r].method = "GET"
  PROVE  IInv'
<1> USE DEF IInv, Within
<1>1. status' = [status EXCEPT ![r] = code] /\ todo' = todo
  BY DEF Answer
<1>2. status'[r] = code /\ \A q \in Requests \ {r} : status'[q] = status[q]
  BY <1>1 DEF StateInv
<1>3. StateInv'
  BY <1>1 DEF StateInv
<1>4. DecisionInv'
  BY <1>1, <1>2 DEF DecisionInv, StateInv
<1>5. \A q \in Arrived : Charged(q)' <=> Charged(q)
  BY DEF Charged
<1>6. ChargeInv' /\ TokenInv' /\ RouteInv'
  BY <1>1, <1>2, <1>5 DEF ChargeInv, TokenInv, RouteInv, StateInv
<1>7. RefusedTokenIsFree' /\ SuccessNeedsToken'
  BY <1>2, <1>5 DEF RefusedTokenIsFree, SuccessNeedsToken, StateInv
<1> QED BY <1>3, <1>4, <1>6, <1>7

----------------------------------------------------------------------------
(* The middlewares and the handler.                                        *)
LEMMA AuthenticateKeeps ==
  ASSUME IInv, NEW r \in Requests, Authenticate(r) PROVE IInv'
<1>1. Within(r) /\ todo[r] # <<>> /\ Head(todo[r]) = "jwt"
  BY DEF Authenticate, AtMiddleware, Open, PassOn, Answer, Within, Arrived, IInv, StateInv
<1>2. CASE input[r].token
  BY <1>1, <1>2, PassKeeps DEF Authenticate
<1>3. CASE ~input[r].token
  <2>1. ~Charged(r)
    <3>1. todo[r] \in Uncharged
      BY <1>1, Tails DEF IInv, StateInv
    <3> QED BY <1>1, <3>1 DEF Within, IInv, ChargeInv
  <2>2. "401" \in Statuses \ {"none"} /\ "401" \notin Successes
    BY DEF Statuses, Successes
  <2> QED BY <1>1, <1>3, <2>1, <2>2, AnswerKeeps DEF Authenticate
<1> QED BY <1>2, <1>3

LEMMA FilterMethodKeeps ==
  ASSUME IInv, NEW r \in Requests, FilterMethod(r) PROVE IInv'
<1>1. Within(r) /\ todo[r] # <<>> /\ Head(todo[r]) = "post"
  BY DEF FilterMethod, AtMiddleware, Open, PassOn, Answer, Within, Arrived, IInv, StateInv
<1>2. CASE PassOn(r)
  BY <1>1, <1>2, PassKeeps
<1>3. CASE Answer(r, "405")
  <2>1. "405" \in Statuses \ {"none"} /\ "405" \notin Successes
    BY DEF Statuses, Successes
  <2> QED BY <1>1, <1>3, <2>1, AnswerKeeps
<1> QED BY <1>2, <1>3 DEF FilterMethod

LEMMA HandleKeeps ==
  ASSUME IInv, NEW r \in Requests, Handle(r) PROVE IInv'
<1>1. Within(r) /\ todo[r] = <<>> /\ Answer(r, Handled(input[r]))
  BY DEF Handle, Open, Answer, Within, Arrived, IInv, StateInv
<1>2. input[r] \in Request
  BY <1>1, GatewayAssumption DEF Within, IInv, StateInv
<1>3. ~input[r].token => input[r].route \notin JwtRoutes
  BY <1>1 DEF Within, IInv, TokenInv
<1> QED BY <1>1, <1>2, <1>3, Answers, AnswerKeeps

(* The decision that Limit(r, l) takes.                                    *)
Verdict(r, l) ==
  [req |-> r, key |-> ClientKey(input[r]), at |-> clock, limiter |-> l,
   ok  |-> Cardinality(Limiter(l)!Admitted(ClientKey(input[r]), clock)) < LimitOf(l)]

(* A limiter charges a request once, to the budget of its client.          *)
LEMMA LimitKeeps ==
  ASSUME IInv, NEW r \in Requests, NEW l \in Limiters, Limit(r, l) PROVE IInv'
<1> USE DEF IInv
<1> DEFINE d == Verdict(r, l)
<1>1. /\ r \in Arrived /\ status[r] = "none" /\ todo[r] # <<>> /\ Head(todo[r]) = l
      /\ decisions' = decisions \cup {d}
      /\ UNCHANGED <<clock, input, Arrived>>
  BY DEF Limit, AtMiddleware, Open, Verdict, Arrived
<1>2. d.req = r /\ d.key = Client(input[r]) /\ d.at = clock /\ d.limiter = l
      /\ d.ok \in BOOLEAN
  BY <1>1, KeyOfArrived DEF Verdict
<1>3. \/ d.ok /\ todo' = [todo EXCEPT ![r] = Tail(todo[r])] /\ status' = status
      \/ ~d.ok /\ todo' = todo /\ status' = [status EXCEPT ![r] = "429"]
  <2>1. d.ok <=> Cardinality(Limiter(l)!Admitted(ClientKey(input[r]), clock))
                   < LimitOf(l)
    BY DEF Verdict
  <2>2. IF d.ok THEN PassOn(r) ELSE Answer(r, "429")
    BY <2>1, Zenon DEF Limit
  <2> QED BY <2>2 DEF PassOn, Answer
<1>4. todo[r] \in Limited /\ Tail(todo[r]) \in Unlimited \ Uncharged
  <2>1. Unlimited \cap Limited = {}
    BY DEF Unlimited, Limited
  <2> QED BY <1>1, <2>1, Tails DEF StateInv, Uncharged
<1>5. ~Charged(r)
  BY <1>1, <1>4 DEF ChargeInv, Uncharged
<1>6. \/ d.ok /\ status'[r] = "none" /\ todo'[r] \in Unlimited \ Uncharged
      \/ ~d.ok /\ status'[r] = "429"
  BY <1>1, <1>3, <1>4 DEF StateInv
<1>7. \A q \in Requests \ {r} : todo'[q] = todo[q] /\ status'[q] = status[q]
  BY <1>3 DEF StateInv
<1>8. StateInv'
  BY <1>1, <1>3, <1>4 DEF StateInv, Statuses
<1>9. input[r].route \in AuthRoutes => l = "auth"
  BY <1>1 DEF RouteInv, Limiters
<1>10. DecisionInv'
  <2>1. IsFiniteSet(decisions')
    BY <1>1, FS_AddElement DEF DecisionInv
  <2>2. \A e \in decisions : e.req # r
    BY <1>5 DEF Charged
  <2>3. ASSUME NEW e \in decisions'
        PROVE  /\ e.req \in Arrived' /\ e.limiter \in Limiters
               /\ e.key = Client(input'[e.req]) /\ e.at \in 0..clock' /\ e.ok \in BOOLEAN
               /\ input'[e.req].method # "OPTIONS"
               /\ e.ok \/ status'[e.req] = "429"
               /\ input'[e.req].route \in AuthRoutes => e.limiter = "auth"
    <3>1. CASE e = d
      <4>1. clock \in 0..clock
        BY DEF StateInv
      <4> QED BY <1>1, <1>2, <1>6, <1>9, <3>1, <4>1 DEF StateInv
    <3>2. CASE e \in decisions
      BY <1>1, <1>7, <2>2, <3>2 DEF DecisionInv, StateInv
    <3> QED BY <1>1, <3>1, <3>2
  <2>4. \A e, f \in decisions' : e.req = f.req => e = f
    BY <1>1, <1>2, <2>2 DEF DecisionInv
  <2> QED BY <2>1, <2>3, <2>4 DEF DecisionInv
<1>11. \A q \in Arrived \ {r} : Charged(q)' <=> Charged(q)
  BY <1>1, <1>2 DEF Charged
<1>12. ChargeInv'
  BY <1>1, <1>6, <1>7, <1>11 DEF ChargeInv, StateInv
<1>13. TokenInv'
  BY <1>1, <1>7 DEF TokenInv, StateInv, Limiters
<1>14. RouteInv'
  <2>1. input[r].route \in AuthRoutes => Tail(todo[r]) = <<"post">>
    BY <1>1, <1>9, Tails DEF StateInv
  <2> QED BY <1>1, <1>3, <1>7, <2>1 DEF RouteInv, StateInv
<1>15. RefusedTokenIsFree' /\ SuccessNeedsToken'
  BY <1>1, <1>6, <1>7, <1>11
  DEF RefusedTokenIsFree, SuccessNeedsToken, StateInv, Successes
<1> QED BY <1>8, <1>10, <1>12, <1>13, <1>14, <1>15

LEMMA StepIInv == IInv /\ [Next]_vars => IInv'
<1> SUFFICES ASSUME IInv, [Next]_vars PROVE IInv'
  OBVIOUS
<1>1. CASE UNCHANGED vars
  BY <1>1 DEF vars, IInv, StateInv, DecisionInv, ChargeInv, TokenInv, RouteInv,
     RefusedTokenIsFree, SuccessNeedsToken, Charged, Arrived
<1> QED
  BY <1>1, TickKeeps, ArriveKeeps, AuthenticateKeeps, FilterMethodKeeps,
     LimitKeeps, HandleKeeps DEF Next

----------------------------------------------------------------------------
(* The admissions of a client by a limiter in the window that ends at t.   *)
Admissions(l, a, t) ==
  {d \in decisions : /\ d.limiter = l
                     /\ d.ok /\ d.key = a /\ t - Window < d.at /\ d.at <= t}

(* In no window has a limiter admitted more of a client than its limit.    *)
WindowInv ==
  \A l \in Limiters, a \in Addrs, t \in 0..clock :
    Cardinality(Admissions(l, a, t)) <= LimitOf(l)

LEMMA Limits ==
  /\ \A l \in Limiters : LimitOf(l) \in Nat
  /\ Window \in Nat /\ MaxTime \in Nat
BY GatewayAssumption DEF Limiters, LimitOf

LEMMA AdmissionsFinite ==
  ASSUME DecisionInv, NEW l, NEW a, NEW t
  PROVE  /\ IsFiniteSet(Admissions(l, a, t))
         /\ Cardinality(Admissions(l, a, t)) \in Nat
<1>1. Admissions(l, a, t) \subseteq decisions
  BY DEF Admissions
<1> QED BY <1>1, FS_Subset, FS_CardinalityType DEF DecisionInv

(* A limiter counts in its ledger what is in the history.                  *)
Recorded(d) == [req |-> d.req, key |-> d.key, at |-> d.at, ok |-> d.ok]

LEMMA Ledgers ==
  ASSUME NEW l
  PROVE  Ledger(l) = {Recorded(d) : d \in {e \in decisions : e.limiter = l}}
BY DEF Ledger, Recorded

LEMMA LimiterCounts ==
  ASSUME DecisionInv, NEW l \in Limiters, NEW a, NEW t
  PROVE  Cardinality(Limiter(l)!Admitted(a, t)) = Cardinality(Admissions(l, a, t))
<1> DEFINE A == Admissions(l, a, t)
           B == Limiter(l)!Admitted(a, t)
           f == [d \in A |-> Recorded(d)]
<1>1. \A d : /\ Recorded(d).req = d.req /\ Recorded(d).key = d.key
             /\ Recorded(d).at = d.at /\ Recorded(d).ok = d.ok
  BY DEF Recorded
<1>2. B = {Recorded(d) : d \in A}
  <2>1. B = {x \in Ledger(l) : x.ok /\ x.key = a /\ t - Window < x.at /\ x.at <= t}
    BY DEF Limiter!Admitted
  <2> HIDE DEF B
  <2>2. \A x \in B : \E d \in A : x = Recorded(d)
    BY <1>1, <2>1, Ledgers DEF Admissions
  <2>3. \A d \in A : Recorded(d) \in B
    BY <1>1, <2>1, Ledgers DEF Admissions
  <2> QED BY <2>2, <2>3
<1>3. \A d, e \in A : Recorded(d) = Recorded(e) => d = e
  BY <1>1 DEF Admissions, DecisionInv
<1> HIDE DEF A, B
<1>4. f \in Bijection(A, B)
  BY <1>2, <1>3 DEF Bijection, Injection, Surjection, IsInjective
<1>5. ExistsBijection(A, B)
  BY <1>4 DEF ExistsBijection
<1>6. IsFiniteSet(A)
  BY AdmissionsFinite DEF A
<1>7. Cardinality(B) = Cardinality(A)
  BY <1>5, <1>6, FS_Bijection
<1> QED BY <1>7 DEF A, B

(* No step but a decision adds to the history.                             *)
LEMMA OnlyLimitDecides ==
  ASSUME Next, \A r \in Requests, l \in Limiters : ~Limit(r, l)
  PROVE  decisions' = decisions /\ (clock' = clock \/ Tick)
<1>1. CASE Tick
  BY <1>1 DEF Tick
<1>2. ASSUME NEW r \in Requests, NEW in \in Inputs, Arrive(r, in)
      PROVE  UNCHANGED <<decisions, clock>>
  BY <1>2 DEF Arrive
<1>3. ASSUME NEW r \in Requests, Authenticate(r) \/ FilterMethod(r) \/ Handle(r)
      PROVE  UNCHANGED <<decisions, clock>>
  BY <1>3 DEF Authenticate, FilterMethod, Handle
<1> QED BY <1>1, <1>2, <1>3 DEF Next

LEMMA AddOne ==
  ASSUME NEW S, IsFiniteSet(S), NEW x
  PROVE  /\ Cardinality(S \cup {x}) \in Nat
         /\ Cardinality(S \cup {x}) <= Cardinality(S) + 1
<1>1. Cardinality(S) \in Nat /\ IsFiniteSet(S \cup {x})
  BY FS_CardinalityType, FS_AddElement
<1>2. Cardinality(S \cup {x}) \in {Cardinality(S), Cardinality(S) + 1}
  BY FS_AddElement
<1> QED BY <1>1, <1>2

LEMMA StepWindow == ASSUME IInv, WindowInv, [Next]_vars PROVE WindowInv'
<1>1. CASE decisions' = decisions /\ clock' = clock
  BY <1>1 DEF WindowInv, Admissions
<1>2. CASE decisions' = decisions /\ Tick
  <2>1. clock \in Nat /\ clock' = clock + 1
    BY <1>2, Limits DEF Tick, IInv, StateInv
  <2>2. ASSUME NEW l \in Limiters, NEW a \in Addrs, NEW t \in 0..clock'
        PROVE  Cardinality(Admissions(l, a, t)') <= LimitOf(l)
    <3>1. Admissions(l, a, t)' = Admissions(l, a, t)
      BY <1>2 DEF Admissions
    <3>2. CASE t \in 0..clock
      BY <3>1, <3>2 DEF WindowInv
    <3>3. CASE t = clock + 1
      <4>1. Admissions(l, a, t) \subseteq Admissions(l, a, clock)
        BY <2>1, <3>3, Limits DEF Admissions, IInv, DecisionInv
      <4>2. Cardinality(Admissions(l, a, t)) <= Cardinality(Admissions(l, a, clock))
        BY <4>1, AdmissionsFinite, FS_Subset DEF IInv
      <4>3. Cardinality(Admissions(l, a, clock)) <= LimitOf(l)
        BY <2>1 DEF WindowInv
      <4> QED BY <3>1, <4>2, <4>3, AdmissionsFinite, Limits DEF IInv
    <3> QED BY <2>1, <3>2, <3>3
  <2> QED BY <2>2 DEF WindowInv
<1>3. ASSUME NEW r \in Requests, NEW k \in Limiters, Limit(r, k)
      PROVE  WindowInv'
  <2> DEFINE d == Verdict(r, k)
  <2>1. decisions' = decisions \cup {d} /\ clock' = clock
    BY <1>3 DEF Limit, Verdict
  <2>2. d.at = clock /\ d.limiter = k /\ d.key = ClientKey(input[r])
    BY DEF Verdict
  <2>3. d.ok => Cardinality(Admissions(k, d.key, clock)) < LimitOf(k)
    <3>1. d.ok => Cardinality(Limiter(k)!Admitted(ClientKey(input[r]), clock)) < LimitOf(k)
      BY DEF Verdict
    <3> QED BY <3>1, <2>2, LimiterCounts DEF IInv
  <2>4. ASSUME NEW l \in Limiters, NEW a \in Addrs, NEW t \in 0..clock
        PROVE  Cardinality(Admissions(l, a, t)') <= LimitOf(l)
    <3>1. Cardinality(Admissions(l, a, t)) <= LimitOf(l)
      BY <2>4 DEF WindowInv
    <3>2. CASE Admissions(l, a, t)' = Admissions(l, a, t)
      BY <3>1, <3>2
    <3>3. CASE Admissions(l, a, t)' # Admissions(l, a, t)
      <4>1. d.ok /\ l = k /\ a = d.key /\ clock <= t
            /\ Admissions(l, a, t)' = Admissions(l, a, t) \cup {d}
        BY <2>1, <2>2, <3>3 DEF Admissions
      <4>2. t = clock
        BY <4>1 DEF IInv, StateInv
      <4>3. Cardinality(Admissions(l, a, t)) < LimitOf(l)
        BY <2>3, <4>1, <4>2
      <4>4. Cardinality(Admissions(l, a, t) \cup {d})
              <= Cardinality(Admissions(l, a, t)) + 1
        BY AdmissionsFinite, AddOne DEF IInv
      <4>5. Cardinality(Admissions(l, a, t)') \in Nat
        BY <4>1, AdmissionsFinite, AddOne DEF IInv
      <4> QED BY <4>1, <4>3, <4>4, <4>5, AdmissionsFinite, Limits DEF IInv
    <3> QED BY <3>2, <3>3
  <2> QED BY <2>1, <2>4 DEF WindowInv
<1>4. CASE UNCHANGED vars
  BY <1>1, <1>4 DEF vars
<1> QED BY <1>1, <1>2, <1>3, <1>4, OnlyLimitDecides

(* What has been refused so far was refused for good reason, and history   *)
(* only grows.                                                             *)
LEMMA StepRefusal ==
  ASSUME IInv, RefusalIsEarned, [Next]_vars PROVE RefusalIsEarned'
<1> DEFINE Earned(d) ==
      {e \in decisions : /\ e.ok /\ e.limiter = d.limiter
                         /\ d.at - Window < e.at /\ e.at <= d.at
                         /\ Client(input[e.req]) = Client(input[d.req])
                         /\ input[e.req].method # "OPTIONS"}
<1>0. IInv'
  BY StepIInv
<1>1. decisions \subseteq decisions' /\ \A q \in Arrived : input'[q] = input[q]
  BY DEF Next, vars, Tick, Arrive, Authenticate, FilterMethod, Limit, Handle, Arrived
<1>2. ASSUME NEW d \in decisions, ~d.ok
      PROVE  Cardinality(Earned(d)') >= LimitOf(d.limiter)
  <2>1. Earned(d) \subseteq Earned(d)'
    BY <1>1 DEF IInv, DecisionInv
  <2>2. IsFiniteSet(Earned(d)') /\ IsFiniteSet(Earned(d))
    BY <1>0, FS_Subset DEF IInv, DecisionInv
  <2>3. Cardinality(Earned(d)) <= Cardinality(Earned(d)')
        /\ Cardinality(Earned(d)) \in Nat /\ Cardinality(Earned(d)') \in Nat
    BY <2>1, <2>2, FS_Subset, FS_CardinalityType
  <2>4. Cardinality(Earned(d)) >= LimitOf(d.limiter)
    BY <1>2 DEF RefusalIsEarned
  <2> QED BY <2>3, <2>4, Limits DEF IInv, DecisionInv
<1>3. ASSUME NEW r \in Requests, NEW l \in Limiters, Limit(r, l),
             NEW d, d = Verdict(r, l), ~d.ok
      PROVE  Cardinality(Earned(d)') >= LimitOf(l)
  <2>0. r \in Arrived
    BY <1>3 DEF Limit, AtMiddleware, Open
  <2>1. /\ d.req = r /\ d.key = Client(input[r]) /\ d.at = clock /\ d.limiter = l
        /\ d.ok = (Cardinality(Limiter(l)!Admitted(Client(input[r]), clock)) < LimitOf(l))
    BY <1>3, <2>0, KeyOfArrived DEF Verdict, IInv
  <2>2. ~(Cardinality(Admissions(l, Client(input[r]), clock)) < LimitOf(l))
    BY <1>3, <2>1, LimiterCounts DEF IInv
  <2>3. UNCHANGED <<input, clock>>
    BY <1>3 DEF Limit
  <2>4. Admissions(l, Client(input[r]), clock) \subseteq Earned(d)'
    <3>1. ASSUME NEW e \in Admissions(l, Client(input[r]), clock)
          PROVE  e \in Earned(d)'
      <4>1. e \in decisions /\ e.limiter = l /\ e.ok /\ e.key = Client(input[r])
            /\ clock - Window < e.at /\ e.at <= clock
        BY DEF Admissions
      <4>2. Client(input[e.req]) = Client(input[r]) /\ input[e.req].method # "OPTIONS"
        BY <4>1 DEF IInv, DecisionInv
      <4> QED BY <1>1, <2>1, <2>3, <4>1, <4>2
    <3> QED BY <3>1
  <2>5. IsFiniteSet(Earned(d)')
    BY <1>0, FS_Subset DEF IInv, DecisionInv
  <2>6. Cardinality(Admissions(l, Client(input[r]), clock)) <= Cardinality(Earned(d)')
    BY <2>4, <2>5, FS_Subset
  <2>7. Cardinality(Earned(d)') \in Nat
    BY <2>5, FS_CardinalityType
  <2> QED BY <2>2, <2>6, <2>7, AdmissionsFinite, Limits DEF IInv
<1>4. ASSUME NEW d \in decisions', ~d.ok
      PROVE  Cardinality(Earned(d)') >= LimitOf(d.limiter)
  <2>1. CASE d \in decisions
    BY <1>2, <1>4, <2>1
  <2>2. CASE d \notin decisions
    <3>1. PICK r \in Requests, l \in Limiters : Limit(r, l)
      BY <2>2, OnlyLimitDecides DEF vars
    <3>2. d = Verdict(r, l)
      BY <2>2, <3>1, <1>4 DEF Limit, Verdict
    <3>3. d.limiter = l
      BY <3>2 DEF Verdict
    <3> QED BY <1>3, <1>4, <3>1, <3>2, <3>3
  <2> QED BY <2>1, <2>2
<1> QED BY <1>4 DEF RefusalIsEarned

----------------------------------------------------------------------------
FullInv == IInv /\ WindowInv /\ RefusalIsEarned

LEMMA InitFullInv == Init => FullInv
<1> SUFFICES ASSUME Init PROVE FullInv
  OBVIOUS
<1>1. decisions = {}
  BY DEF Init
<1>2. \A l, a, t : Admissions(l, a, t) = {}
  BY <1>1 DEF Admissions
<1>3. WindowInv
  BY <1>2, FS_EmptySet, Limits DEF WindowInv
<1> QED BY <1>1, <1>3, InitIInv DEF FullInv, RefusalIsEarned

(* However the requests interleave, the inductive invariant holds.         *)
THEOREM Invariance == Spec => []FullInv
<1>1. FullInv /\ [Next]_vars => FullInv'
  BY StepIInv, StepWindow, StepRefusal DEF FullInv
<1> QED BY InitFullInv, <1>1, PTL DEF Spec

(* Every reachable state is well typed; a request is charged once.         *)
THEOREM TypeCorrect == Spec => []TypeOK
<1>1. ASSUME IInv PROVE TypeOK
  <2>1. Unlimited \cup Limited \subseteq Seq(Limiters \cup {"jwt", "post"})
    BY DEF Unlimited, Limited, Limiters
  <2> QED
    BY <1>1, <2>1 DEF IInv, StateInv, DecisionInv, TypeOK, Statuses
<1> QED BY Invariance, <1>1, PTL DEF FullInv

(* The account endpoints share one budget per client.                      *)
THEOREM AccountBudgetHolds == Spec => []AccountBudget
<1>1. ASSUME FullInv, NEW a \in Addrs, NEW t \in 0..clock
      PROVE  Cardinality({d \in decisions :
               /\ Client(input[d.req]) = a /\ t - Window < d.at /\ d.at <= t
               /\ input[d.req].route \in AuthRoutes /\ Examined(d.req)}) <= AuthLimit
  <2> DEFINE B == {d \in decisions :
               /\ Client(input[d.req]) = a /\ t - Window < d.at /\ d.at <= t
               /\ input[d.req].route \in AuthRoutes /\ Examined(d.req)}
  <2>1. ASSUME NEW d \in B PROVE d \in Admissions("auth", a, t)
    <3>1. status[d.req] # "429"
      BY <2>1 DEF Examined, Successes
    <3> QED
      BY <1>1, <2>1, <3>1 DEF FullInv, IInv, DecisionInv, Admissions
  <2>2. DecisionInv
    BY <1>1 DEF FullInv, IInv
  <2>3. Cardinality(Admissions("auth", a, t)) <= AuthLimit
    BY <1>1 DEF FullInv, WindowInv, Limiters, LimitOf
  <2>4. B \subseteq Admissions("auth", a, t)
    BY <2>1
  <2>5. IsFiniteSet(Admissions("auth", a, t))
        /\ Cardinality(Admissions("auth", a, t)) \in Nat
    BY <2>2, AdmissionsFinite
  <2>6. IsFiniteSet(B) /\ Cardinality(B) <= Cardinality(Admissions("auth", a, t))
    BY <2>4, <2>5, FS_Subset
  <2>7. Cardinality(B) \in Nat /\ AuthLimit \in Nat
    BY <2>6, FS_CardinalityType, GatewayAssumption
  <2> QED BY <2>3, <2>5, <2>6, <2>7
<1>2. FullInv => AccountBudget
  BY <1>1 DEF AccountBudget
<1> QED BY Invariance, <1>2, PTL

(* A request that is refused for its token costs its client nothing.       *)
THEOREM RefusedTokensAreFree == Spec => []RefusedTokenIsFree
BY Invariance, PTL DEF FullInv, IInv

(* Only the public routes answer without a valid token.                    *)
THEOREM SuccessesNeedTokens == Spec => []SuccessNeedsToken
BY Invariance, PTL DEF FullInv, IInv

(* A client is refused only for what has been spent in its name.           *)
THEOREM RefusalsAreEarned == Spec => []RefusalIsEarned
BY Invariance, PTL DEF FullInv

(* What an answered request keeps in a step.                               *)
AnsweredStays ==
  \A r \in Requests : status[r] # "none" =>
    /\ status'[r] = status[r]
    /\ {d \in decisions' : d.req = r} = {d \in decisions : d.req = r}

(* An answer is final: no goroutine writes a second one, and no decision   *)
(* of a limiter is taken for a request that has been answered.             *)
AnswerIsFinal == [][AnsweredStays]_vars

(* A request that has been answered is neither answered nor charged again. *)
THEOREM AnswersAreFinal == Spec => AnswerIsFinal
<1>1. ASSUME IInv, [Next]_vars, NEW q \in Requests, status[q] # "none"
      PROVE  /\ status'[q] = status[q]
             /\ {d \in decisions' : d.req = q} = {d \in decisions : d.req = q}
  <2>1. ASSUME NEW r \in Requests, NEW in \in Inputs, Arrive(r, in)
        PROVE  status'[q] = status[q] /\ decisions' = decisions
    <3>1. q \in Arrived /\ r \notin Arrived
      BY <1>1, <2>1 DEF IInv, StateInv, Arrive
    <3> QED BY <2>1, <3>1, <1>1 DEF Arrive, IInv, StateInv
  <2>2. ASSUME NEW r \in Requests,
               Authenticate(r) \/ FilterMethod(r) \/ Handle(r)
        PROVE  status'[q] = status[q] /\ decisions' = decisions
    <3>1. status[r] = "none"
      BY <2>2 DEF Authenticate, FilterMethod, Handle, AtMiddleware, Open
    <3> QED
      BY <1>1, <2>2, <3>1 DEF Authenticate, FilterMethod, Handle, PassOn, Answer,
         IInv, StateInv
  <2>3. ASSUME NEW r \in Requests, NEW l \in Limiters, Limit(r, l)
        PROVE  /\ status'[q] = status[q]
               /\ {d \in decisions' : d.req = q} = {d \in decisions : d.req = q}
    <3>1. status[r] = "none"
      BY <2>3 DEF Limit, AtMiddleware, Open
    <3>2. decisions' = decisions \cup {Verdict(r, l)} /\ Verdict(r, l).req = r
      BY <2>3 DEF Limit, Verdict
    <3>3. \E code : PassOn(r) \/ Answer(r, code)
      BY <2>3, Zenon DEF Limit
    <3>4. status'[q] = status[q]
      BY <1>1, <3>1, <3>3 DEF PassOn, Answer, IInv, StateInv
    <3> QED BY <1>1, <3>1, <3>2, <3>4
  <2>4. CASE Tick \/ UNCHANGED vars
    BY <2>4 DEF Tick, vars
  <2> QED BY <1>1, <2>1, <2>2, <2>3, <2>4 DEF Next
<1>2. FullInv /\ [Next]_vars => [AnsweredStays]_vars
  BY <1>1 DEF FullInv, AnsweredStays
<1> QED BY Invariance, <1>2, PTL DEF Spec, AnswerIsFinal

----------------------------------------------------------------------------
(* How a request goes through the chain of its route.                      *)
Path(route) ==
  CASE route \in AuthRoutes           -> {<<"auth", "post">>, <<"post">>, <<>>}
    [] route = "logout"               -> {<<"jwt", "post">>, <<"post">>, <<>>}
    [] route \in {"events", "bySlug"} -> {<<"api">>, <<>>}
    [] route \in JwtFirst             -> {<<"jwt", "api">>, <<"api">>, <<>>}
    [] route = "flags"                -> {<<"jwt", "flag", "post">>,
                                          <<"flag", "post">>, <<"post">>, <<>>}
    [] OTHER                          -> {<<>>}

(* Behind the limiter of a route.                                          *)
Behind == {<<"post">>, <<>>}

(* A request has been charged exactly when it is behind the limiter of its *)
(* route, and only a POST gets through to the handlers that ask for one.   *)
PathInv ==
  \A r \in Arrived : status[r] = "none" =>
    /\ todo[r] \in Path(input[r].route)
    /\ PostOnly(input[r]) /\ todo[r] = <<>> => input[r].method = "POST"
    /\ Charged(r) <=> BudgetOf(input[r]) # "none" /\ todo[r] \in Behind

LEMMA Paths ==
  ASSUME NEW in \in Request
  PROVE  /\ Chain(in.route) \in Path(in.route)
         /\ PostOnly(in) => Chain(in.route) # <<>>
         /\ BudgetOf(in) # "none" => Chain(in.route) \notin Behind
         /\ \A c \in Path(in.route) : c # <<>> =>
              /\ Tail(c) \in Path(in.route)
              /\ PostOnly(in) /\ Tail(c) = <<>> => Head(c) = "post"
              /\ Head(c) = "jwt" =>
                   /\ in.route \in JwtRoutes /\ c \notin Behind
                   /\ Tail(c) \in Behind => BudgetOf(in) = "none"
              /\ Head(c) = "post" => PostOnly(in) /\ c \in Behind /\ Tail(c) \in Behind
              /\ Head(c) \in Limiters =>
                   Head(c) = BudgetOf(in) /\ c \notin Behind /\ Tail(c) \in Behind
<1>1. in.route \in Routes
  BY DEF Request
<1>2. /\ Tail(<<"post">>) = <<>> /\ Head(<<"post">>) = "post"
      /\ Tail(<<"auth", "post">>) = <<"post">> /\ Head(<<"auth", "post">>) = "auth"
      /\ Tail(<<"jwt", "post">>) = <<"post">> /\ Head(<<"jwt", "post">>) = "jwt"
      /\ Tail(<<"api">>) = <<>> /\ Head(<<"api">>) = "api"
      /\ Tail(<<"jwt", "api">>) = <<"api">> /\ Head(<<"jwt", "api">>) = "jwt"
      /\ Tail(<<"flag", "post">>) = <<"post">> /\ Head(<<"flag", "post">>) = "flag"
      /\ Tail(<<"jwt", "flag", "post">>) = <<"flag", "post">>
      /\ Head(<<"jwt", "flag", "post">>) = "jwt"
  OBVIOUS
<1>3. CASE in.route \in AuthRoutes
  <2>1. Chain(in.route) = <<"auth", "post">>
    BY <1>3 DEF Chain, Listed, AuthRoutes, JwtFirst
  <2>2. Path(in.route) = {<<"auth", "post">>, <<"post">>, <<>>}
    BY <1>3 DEF Path, AuthRoutes, JwtFirst
  <2>3. BudgetOf(in) = "auth" /\ PostOnly(in)
    BY <1>3 DEF BudgetOf, PostOnly, JwtRoutes, AuthRoutes, JwtFirst
  <2> QED BY <1>2, <2>1, <2>2, <2>3 DEF Behind, Limiters
<1>4. CASE in.route = "logout"
  <2>1. Chain(in.route) = <<"jwt", "post">>
    BY <1>4 DEF Chain, Listed, AuthRoutes, JwtFirst
  <2>2. Path(in.route) = {<<"jwt", "post">>, <<"post">>, <<>>}
    BY <1>4 DEF Path, AuthRoutes, JwtFirst
  <2>3. BudgetOf(in) = "none" /\ PostOnly(in) /\ in.route \in JwtRoutes
    BY <1>4 DEF BudgetOf, PostOnly, JwtRoutes, AuthRoutes, JwtFirst
  <2> QED BY <1>2, <2>1, <2>2, <2>3 DEF Behind, Limiters
<1>5. CASE in.route \in {"events", "bySlug"}
  <2>1. Chain(in.route) = <<"api">>
    BY <1>5 DEF Chain, Listed, AuthRoutes, JwtFirst
  <2>2. Path(in.route) = {<<"api">>, <<>>}
    BY <1>5 DEF Path, AuthRoutes, JwtFirst
  <2>3. BudgetOf(in) = "api" /\ ~PostOnly(in)
    BY <1>5 DEF BudgetOf, PostOnly, JwtRoutes, AuthRoutes, JwtFirst
  <2> QED BY <1>2, <2>1, <2>2, <2>3 DEF Behind, Limiters
<1>6. CASE in.route \in JwtFirst
  <2>1. Chain(in.route) = <<"jwt", "api">>
    BY <1>6 DEF Chain, Listed, AuthRoutes, JwtFirst
  <2>2. Path(in.route) = {<<"jwt", "api">>, <<"api">>, <<>>}
    BY <1>6 DEF Path, AuthRoutes, JwtFirst
  <2>3. BudgetOf(in) = "api" /\ ~PostOnly(in) /\ in.route \in JwtRoutes
    BY <1>6 DEF BudgetOf, PostOnly, JwtRoutes, AuthRoutes, JwtFirst
  <2> QED BY <1>2, <2>1, <2>2, <2>3 DEF Behind, Limiters
<1>7. CASE in.route = "flags"
  <2>1. Chain(in.route) = <<"jwt", "flag", "post">>
    BY <1>7 DEF Chain, Listed, AuthRoutes, JwtFirst
  <2>2. Path(in.route) = {<<"jwt", "flag", "post">>, <<"flag", "post">>, <<"post">>, <<>>}
    BY <1>7 DEF Path, AuthRoutes, JwtFirst
  <2>3. BudgetOf(in) = "flag" /\ PostOnly(in) /\ in.route \in JwtRoutes
    BY <1>7 DEF BudgetOf, PostOnly, JwtRoutes, AuthRoutes, JwtFirst
  <2> QED BY <1>2, <2>1, <2>2, <2>3 DEF Behind, Limiters
<1>8. CASE in.route \in {"health", "unknown"}
  <2>1. Chain(in.route) = <<>>
    BY <1>8 DEF Chain, Listed, AuthRoutes, JwtFirst
  <2>2. Path(in.route) = {<<>>}
    BY <1>8 DEF Path, AuthRoutes, JwtFirst
  <2>3. BudgetOf(in) = "none" /\ ~PostOnly(in)
    BY <1>8 DEF BudgetOf, PostOnly, JwtRoutes, AuthRoutes, JwtFirst
  <2> QED BY <1>2, <2>1, <2>2, <2>3 DEF Behind, Limiters
<1> QED
  BY <1>1, <1>3, <1>4, <1>5, <1>6, <1>7, <1>8 DEF Routes, AuthRoutes, JwtFirst

(* A request that no step is about keeps its place and its charges.        *)
Elsewhere(r) ==
  \A q \in Arrived \ {r} :
    /\ q \in Arrived' /\ input'[q] = input[q] /\ status'[q] = status[q]
    /\ todo'[q] = todo[q] /\ (Charged(q)' <=> Charged(q))

LEMMA PathElsewhere ==
  ASSUME PathInv, NEW r, Elsewhere(r), Arrived' \subseteq Arrived \cup {r},
         r \in Arrived' /\ status'[r] = "none" =>
           /\ todo'[r] \in Path(input'[r].route)
           /\ PostOnly(input'[r]) /\ todo'[r] = <<>> => input'[r].method = "POST"
           /\ Charged(r)' <=> BudgetOf(input'[r]) # "none" /\ todo'[r] \in Behind
  PROVE  PathInv'
<1> SUFFICES ASSUME NEW q \in Arrived', status'[q] = "none"
             PROVE  /\ todo'[q] \in Path(input'[q].route)
                    /\ PostOnly(input'[q]) /\ todo'[q] = <<>> => input'[q].method = "POST"
                    /\ Charged(q)' <=> BudgetOf(input'[q]) # "none" /\ todo'[q] \in Behind
  BY DEF PathInv
<1>1. CASE q = r
  BY <1>1
<1>2. CASE q # r
  <2>1. q \in Arrived /\ status[q] = "none" /\ input'[q] = input[q] /\ todo'[q] = todo[q]
        /\ (Charged(q)' <=> Charged(q))
    BY <1>2 DEF Elsewhere
  <2>2. /\ todo[q] \in Path(input[q].route)
        /\ PostOnly(input[q]) /\ todo[q] = <<>> => input[q].method = "POST"
        /\ Charged(q) <=> BudgetOf(input[q]) # "none" /\ todo[q] \in Behind
    BY <2>1 DEF PathInv
  <2> QED BY <2>1, <2>2
<1> QED BY <1>1, <1>2

(* What an open request has behind and before it.                          *)
LEMMA OpenIs ==
  ASSUME IInv, PathInv, NEW r, Open(r)
  PROVE  /\ r \in Arrived /\ r \in Requests /\ status[r] = "none"
         /\ input[r] \in Request /\ todo[r] \in Path(input[r].route)
         /\ Charged(r) <=> BudgetOf(input[r]) # "none" /\ todo[r] \in Behind
         /\ PostOnly(input[r]) /\ todo[r] = <<>> => input[r].method = "POST"
         /\ input[r].method # "OPTIONS"
         /\ input[r].route \in JwtRoutes /\ ~input[r].token
            => todo[r] # <<>> /\ Head(todo[r]) = "jwt"
<1>1. r \in Arrived /\ r \in Requests /\ status[r] = "none"
  BY DEF Open, IInv, StateInv
<1>2. input[r] \in Request /\ input[r].method # "OPTIONS"
  BY <1>1, GatewayAssumption DEF IInv, StateInv
<1>3. input[r].route \in JwtRoutes /\ ~input[r].token
        => todo[r] # <<>> /\ Head(todo[r]) = "jwt"
  BY <1>1 DEF IInv, TokenInv
<1> QED BY <1>1, <1>2, <1>3 DEF PathInv

(* What each step of a request does, to it and to the others.              *)
LEMMA Steps ==
  ASSUME IInv, NEW r \in Requests
  PROVE  /\ \A in \in Inputs : Arrive(r, in) =>
              /\ r \notin Arrived /\ Arrived' = Arrived \cup {r} /\ input'[r] = in
              /\ decisions' = decisions /\ clock' = clock /\ ~Charged(r)'
              /\ Elsewhere(r) /\ status[r] = "none" /\ ~Charged(r)
              /\ IF in.method = "OPTIONS" THEN status'[r] = "204"
                 ELSE status'[r] = "none" /\ todo'[r] = Chain(in.route)
         /\ Authenticate(r) \/ FilterMethod(r) \/ Handle(r) =>
              /\ Open(r) /\ Elsewhere(r) /\ Arrived' = Arrived
              /\ UNCHANGED <<clock, input, decisions>> /\ (Charged(r)' <=> Charged(r))
         /\ (Authenticate(r) \/ FilterMethod(r)) /\ PassOn(r) =>
              status'[r] = "none" /\ todo'[r] = Tail(todo[r])
<1>1. ASSUME NEW in \in Inputs, Arrive(r, in)
      PROVE  /\ r \notin Arrived /\ Arrived' = Arrived \cup {r} /\ input'[r] = in
             /\ decisions' = decisions /\ clock' = clock /\ ~Charged(r)'
             /\ Elsewhere(r) /\ status[r] = "none" /\ ~Charged(r)
             /\ IF in.method = "OPTIONS" THEN status'[r] = "204"
                ELSE status'[r] = "none" /\ todo'[r] = Chain(in.route)
  <2>1. /\ r \notin Arrived /\ Arrived' = Arrived \cup {r} /\ input'[r] = in
        /\ \A q \in Arrived : input'[q] = input[q] /\ q # r
        /\ UNCHANGED <<clock, decisions>>
    BY <1>1 DEF Arrive, Arrived
  <2>2. status[r] = "none" /\ ~Charged(r)
    BY <2>1 DEF IInv, StateInv, DecisionInv, Charged
  <2>3. \A q : Charged(q)' <=> Charged(q)
    BY <2>1 DEF Charged
  <2>4. \/ /\ todo' = [todo EXCEPT ![r] = Chain(in.route)] /\ status' = status
           /\ in.method # "OPTIONS"
        \/ /\ todo' = todo /\ status' = [status EXCEPT ![r] = "204"]
           /\ in.method = "OPTIONS"
    BY <1>1 DEF Arrive
  <2>5. \A q \in Arrived : q \in Requests
    BY DEF IInv, StateInv
  <2>6. Elsewhere(r)
    BY <2>1, <2>3, <2>4, <2>5 DEF Elsewhere, IInv, StateInv
  <2>7. IF in.method = "OPTIONS" THEN status'[r] = "204"
        ELSE status'[r] = "none" /\ todo'[r] = Chain(in.route)
    BY <2>2, <2>4 DEF IInv, StateInv
  <2> QED BY <2>1, <2>2, <2>3, <2>6, <2>7
<1>2. ASSUME Authenticate(r) \/ FilterMethod(r) \/ Handle(r)
      PROVE  /\ Open(r) /\ Elsewhere(r) /\ Arrived' = Arrived
             /\ UNCHANGED <<clock, input, decisions>> /\ (Charged(r)' <=> Charged(r))
  <2>1. /\ Open(r) /\ UNCHANGED <<clock, input, decisions>>
        /\ PassOn(r) \/ \E code : Answer(r, code)
    BY <1>2 DEF Authenticate, FilterMethod, Handle, AtMiddleware
  <2>2. Arrived' = Arrived /\ \A q : Charged(q)' <=> Charged(q)
    BY <2>1 DEF Arrived, Charged
  <2>3. \A q \in Arrived : q \in Requests
    BY DEF IInv, StateInv
  <2>4. \A q \in Requests \ {r} : todo'[q] = todo[q] /\ status'[q] = status[q]
    BY <2>1 DEF PassOn, Answer, IInv, StateInv
  <2>5. Elsewhere(r)
    BY <2>1, <2>2, <2>3, <2>4 DEF Elsewhere
  <2> QED BY <2>1, <2>2, <2>5
<1>3. ASSUME Authenticate(r) \/ FilterMethod(r), PassOn(r)
      PROVE  status'[r] = "none" /\ todo'[r] = Tail(todo[r])
  BY <1>3 DEF Authenticate, FilterMethod, AtMiddleware, Open, PassOn, IInv, StateInv
<1> QED BY <1>1, <1>2, <1>3

LEMMA LimitIs ==
  ASSUME IInv, PathInv, NEW r \in Requests, NEW l \in Limiters, Limit(r, l)
  PROVE  /\ Open(r) /\ Elsewhere(r) /\ Arrived' = Arrived
         /\ todo[r] # <<>> /\ Head(todo[r]) = l
         /\ l = BudgetOf(input[r]) /\ ~Charged(r) /\ Charged(r)'
         /\ UNCHANGED <<clock, input>> /\ decisions' = decisions \cup {Verdict(r, l)}
         /\ IF Verdict(r, l).ok THEN status'[r] = "none" /\ todo'[r] = Tail(todo[r])
            ELSE status'[r] = "429"
<1>1. /\ Open(r) /\ todo[r] # <<>> /\ Head(todo[r]) = l
      /\ UNCHANGED <<clock, input>> /\ decisions' = decisions \cup {Verdict(r, l)}
  BY DEF Limit, AtMiddleware, Verdict
<1>2. /\ r \in Arrived /\ status[r] = "none" /\ input[r] \in Request
      /\ todo[r] \in Path(input[r].route)
      /\ Charged(r) <=> BudgetOf(input[r]) # "none" /\ todo[r] \in Behind
  BY <1>1, OpenIs
<1>3. l = BudgetOf(input[r]) /\ ~Charged(r)
  BY <1>1, <1>2, Paths
<1>4. Verdict(r, l).req = r
  BY DEF Verdict
<1>5. Arrived' = Arrived /\ Charged(r)' /\ \A q : q # r => (Charged(q)' <=> Charged(q))
  BY <1>1, <1>4 DEF Arrived, Charged
<1>6. IF Verdict(r, l).ok THEN PassOn(r) ELSE Answer(r, "429")
  <2>1. Verdict(r, l).ok <=>
          Cardinality(Limiter(l)!Admitted(ClientKey(input[r]), clock)) < LimitOf(l)
    BY DEF Verdict
  <2> QED BY <2>1, Zenon DEF Limit
<1>7. \A q \in Requests \ {r} : todo'[q] = todo[q] /\ status'[q] = status[q]
  BY <1>6 DEF PassOn, Answer, IInv, StateInv
<1>8. Elsewhere(r)
  BY <1>1, <1>5, <1>7 DEF Elsewhere, IInv, StateInv
<1>9. IF Verdict(r, l).ok THEN status'[r] = "none" /\ todo'[r] = Tail(todo[r])
      ELSE status'[r] = "429"
  BY <1>2, <1>6 DEF PassOn, Answer, IInv, StateInv
<1> QED BY <1>1, <1>3, <1>5, <1>8, <1>9

LEMMA StepPath == IInv /\ PathInv /\ [Next]_vars => PathInv'
<1> SUFFICES ASSUME IInv, PathInv, [Next]_vars PROVE PathInv'
  OBVIOUS
<1>1. CASE Tick \/ UNCHANGED vars
  <2>1. UNCHANGED <<input, todo, decisions, status, Arrived>>
    BY <1>1 DEF Tick, vars, Arrived
  <2> QED BY <2>1 DEF PathInv, Charged
<1>2. ASSUME NEW r \in Requests, NEW in \in Inputs, Arrive(r, in) PROVE PathInv'
  <2>1. in \in Request
    BY GatewayAssumption
  <2>2. /\ Arrived' = Arrived \cup {r} /\ input'[r] = in /\ Elsewhere(r) /\ ~Charged(r)'
        /\ IF in.method = "OPTIONS" THEN status'[r] = "204"
           ELSE status'[r] = "none" /\ todo'[r] = Chain(in.route)
    BY <1>2, Steps
  <2>3. status'[r] = "none" => todo'[r] = Chain(in.route)
    BY <2>2
  <2> QED BY <2>1, <2>2, <2>3, Paths, PathElsewhere
<1>3. ASSUME NEW r \in Requests, Authenticate(r) \/ FilterMethod(r) \/ Handle(r)
      PROVE  PathInv'
  <2>1. /\ Open(r) /\ Elsewhere(r) /\ Arrived' = Arrived
        /\ input' = input /\ (Charged(r)' <=> Charged(r))
    BY <1>3, Steps
  <2>2. /\ input[r] \in Request /\ todo[r] \in Path(input[r].route)
        /\ Charged(r) <=> BudgetOf(input[r]) # "none" /\ todo[r] \in Behind
        /\ PostOnly(input[r]) /\ todo[r] = <<>> => input[r].method = "POST"
        /\ input[r].method # "OPTIONS"
    BY <2>1, OpenIs
  <2>3. CASE PassOn(r) /\ (Authenticate(r) \/ FilterMethod(r))
    <3>1. status'[r] = "none" /\ todo'[r] = Tail(todo[r])
      BY <2>3, Steps
    <3>2. /\ todo[r] # <<>>
          /\ \/ Head(todo[r]) = "jwt"
             \/ Head(todo[r]) = "post" /\ input[r].method \in {"POST", "OPTIONS"}
      <4>1. CASE Authenticate(r)
        BY <4>1 DEF Authenticate, AtMiddleware
      <4>2. CASE FilterMethod(r)
        <5>1. ~Answer(r, "405")
          BY <2>1, <2>3, <3>1, <2>2 DEF Answer, Open, IInv, StateInv
        <5> QED BY <4>2, <5>1 DEF FilterMethod, AtMiddleware
      <4> QED BY <2>3, <4>1, <4>2
    <3>3. /\ todo'[r] \in Path(input[r].route)
          /\ PostOnly(input[r]) /\ todo'[r] = <<>> => input[r].method = "POST"
          /\ Charged(r) <=> BudgetOf(input[r]) # "none" /\ todo'[r] \in Behind
      BY <2>2, <3>1, <3>2, Paths
    <3> QED BY <2>1, <3>3, PathElsewhere
  <2>4. CASE \E code \in Statuses \ {"none"} : Answer(r, code)
    <3>1. status'[r] # "none"
      BY <2>4 DEF Answer, IInv, StateInv
    <3> QED BY <2>1, <3>1, PathElsewhere
  <2>5. \/ PassOn(r) /\ (Authenticate(r) \/ FilterMethod(r))
        \/ \E code \in Statuses \ {"none"} : Answer(r, code)
    <3>1. {"401", "405", Handled(input[r])} \subseteq Statuses \ {"none"}
      BY <2>2, Answers DEF Statuses
    <3> QED BY <1>3, <3>1 DEF Authenticate, FilterMethod, Handle
  <2> QED BY <2>3, <2>4, <2>5
<1>4. ASSUME NEW r \in Requests, NEW l \in Limiters, Limit(r, l) PROVE PathInv'
  <2>1. /\ Open(r) /\ Elsewhere(r) /\ Arrived' = Arrived /\ input' = input
        /\ todo[r] # <<>> /\ Head(todo[r]) = l /\ l = BudgetOf(input[r]) /\ Charged(r)'
        /\ status'[r] = "none" => todo'[r] = Tail(todo[r])
    BY <1>4, LimitIs
  <2>2. input[r] \in Request /\ todo[r] \in Path(input[r].route)
    BY <2>1, OpenIs
  <2>3. l # "none" /\ l # "post"
    BY DEF Limiters
  <2>4. /\ Tail(todo[r]) \in Path(input[r].route) /\ Tail(todo[r]) \in Behind
        /\ ~(PostOnly(input[r]) /\ Tail(todo[r]) = <<>>)
    BY <2>1, <2>2, <2>3, Paths
  <2> QED BY <2>1, <2>3, <2>4, PathElsewhere
<1> QED BY <1>1, <1>2, <1>3, <1>4 DEF Next

----------------------------------------------------------------------------
(* The answers of the contract.                                            *)
Answered == [r \in Requests |-> Settled(r)]

LEMMA AnswersElsewhere ==
  ASSUME IInv, IInv', NEW r \in Requests, Elsewhere(r), Arrived' \subseteq Arrived \cup {r}
  PROVE  Answered' = [Answered EXCEPT ![r] = Settled(r)']
<1>1. ASSUME NEW q \in Requests \ {r} PROVE Settled(q)' = Settled(q)
  <2>1. CASE q \in Arrived
    BY <2>1, <1>1 DEF Elsewhere, Settled
  <2>2. CASE q \notin Arrived
    <3>1. ~Charged(q) /\ status[q] = "none" /\ ~Charged(q)' /\ status'[q] = "none"
      BY <1>1, <2>2 DEF IInv, StateInv, DecisionInv, Charged
    <3> QED BY <3>1 DEF Settled
  <2> QED BY <2>1, <2>2
<1> QED BY <1>1 DEF Answered

(* What is written to a request that a step answers, in the contract: the  *)
(* answer it settles, or nothing new.                                      *)
LEMMA ContractReply ==
  ASSUME IInv, IInv', PathInv, NEW r \in Requests,
         Authenticate(r) \/ FilterMethod(r) \/ Handle(r)
  PROVE  [Contract!Reply(r)]_Contract!vars
<1>1. /\ Open(r) /\ Elsewhere(r) /\ Arrived' = Arrived
      /\ UNCHANGED <<clock, input, decisions>> /\ (Charged(r)' <=> Charged(r))
  BY Steps
<1>2. /\ r \in Arrived /\ status[r] = "none" /\ input[r] \in Request
      /\ todo[r] \in Path(input[r].route)
      /\ Charged(r) <=> BudgetOf(input[r]) # "none" /\ todo[r] \in Behind
      /\ PostOnly(input[r]) /\ todo[r] = <<>> => input[r].method = "POST"
      /\ input[r].method # "OPTIONS"
      /\ input[r].route \in JwtRoutes /\ ~input[r].token
         => todo[r] # <<>> /\ Head(todo[r]) = "jwt"
  BY <1>1, OpenIs
<1>3. Answered' = [Answered EXCEPT ![r] = Settled(r)']
  BY <1>1, AnswersElsewhere
<1>4. Settled(r) = IF Charged(r) THEN Promised(input[r]) ELSE "none"
  BY <1>2 DEF Settled
<1>5. LacksToken(input[r]) <=> input[r].route \in JwtRoutes /\ ~input[r].token
  BY DEF LacksToken, JwtRoutes
<1>6. CASE Settled(r)' = Settled(r)
  <2>1. Answered' = Answered
    BY <1>3, <1>6 DEF Answered
  <2> QED BY <1>1, <2>1 DEF Contract!vars, Answered
<1>7. CASE /\ ~Charged(r)
           /\ \/ LacksToken(input[r]) /\ Settled(r)' = "401"
              \/ /\ ~LacksToken(input[r]) /\ BudgetOf(input[r]) = "none"
                 /\ Settled(r)' = Promised(input[r])
  <2>1. Answered[r] = "none"
    BY <1>4, <1>7 DEF Answered
  <2>2. Contract!Reply(r)
    BY <1>1, <1>2, <1>3, <1>7, <2>1
    DEF Contract!Reply, Contract!Waiting, Answered, Arrived
  <2> QED BY <2>2
<1>8. CASE Authenticate(r)
  <2>1. todo[r] # <<>> /\ Head(todo[r]) = "jwt"
    BY <1>8 DEF Authenticate, AtMiddleware
  <2>2. input[r].route \in JwtRoutes /\ ~Charged(r)
    BY <1>2, <2>1, Paths
  <2>3. CASE input[r].token
    <3>1. status'[r] = "none"
      BY <1>8, <2>3, Steps DEF Authenticate
    <3>2. Settled(r)' = Settled(r)
      BY <1>1, <1>2, <2>2, <3>1 DEF Settled
    <3> QED BY <1>6, <3>2
  <2>4. CASE ~input[r].token
    <3>1. status'[r] = "401"
      BY <1>8, <2>4 DEF Authenticate, Answer, IInv, StateInv
    <3>2. LacksToken(input[r]) /\ Settled(r)' = "401"
      BY <1>5, <2>2, <2>4, <3>1 DEF Settled
    <3> QED BY <1>7, <2>2, <3>2
  <2> QED BY <2>3, <2>4
<1>9. CASE FilterMethod(r)
  <2>1. todo[r] # <<>> /\ Head(todo[r]) = "post"
    BY <1>9 DEF FilterMethod, AtMiddleware
  <2>2. PostOnly(input[r]) /\ todo[r] \in Behind /\ ~LacksToken(input[r])
    BY <1>2, <1>5, <2>1, Paths
  <2>3. CASE input[r].method = "POST"
    <3>1. status'[r] = "none"
      BY <1>9, <2>3, Steps DEF FilterMethod
    <3>2. Settled(r)' = Settled(r)
      BY <1>1, <1>2, <3>1 DEF Settled
    <3> QED BY <1>6, <3>2
  <2>4. CASE input[r].method # "POST"
    <3>1. status'[r] = "405"
      BY <1>2, <1>9, <2>4 DEF FilterMethod, Answer, IInv, StateInv
    <3>2. Settled(r)' = "405" /\ Promised(input[r]) = "405"
      BY <2>2, <2>4, <3>1 DEF Settled, Promised
    <3> QED BY <1>2, <1>4, <1>6, <1>7, <2>2, <3>2
  <2> QED BY <2>3, <2>4
<1>10. CASE Handle(r)
  <2>1. todo[r] = <<>> /\ ~LacksToken(input[r]) /\ todo[r] \in Behind
    BY <1>2, <1>5, <1>10 DEF Handle, Behind
  <2>2. Promised(input[r]) = Handled(input[r])
    BY <1>2, <2>1 DEF Promised
  <2>3. Settled(r)' = Promised(input[r])
    <3>1. status'[r] = Handled(input[r]) /\ Handled(input[r]) # "none"
      BY <1>2, <1>10, Answers DEF Handle, Answer, IInv, StateInv
    <3> QED BY <2>2, <3>1 DEF Settled
  <2> QED BY <1>2, <1>4, <1>6, <1>7, <2>1, <2>3
<1> QED BY <1>8, <1>9, <1>10

(* The contract counts as this module does.                                *)
LEMMA SameCardinality == \A S : Contract!Cardinality(S) = Cardinality(S)
BY DEF Contract!Cardinality, Cardinality

(* A limiter charges what the contract charges.                            *)
LEMMA ContractCharge ==
  ASSUME IInv, IInv', PathInv, NEW r \in Requests, NEW l \in Limiters, Limit(r, l)
  PROVE  Contract!Charge(r)
<1> DEFINE d == Verdict(r, l)
<1>1. /\ Open(r) /\ Elsewhere(r) /\ Arrived' = Arrived
      /\ todo[r] # <<>> /\ Head(todo[r]) = l
      /\ l = BudgetOf(input[r]) /\ ~Charged(r) /\ Charged(r)'
      /\ UNCHANGED <<clock, input>> /\ decisions' = decisions \cup {d}
      /\ IF d.ok THEN status'[r] = "none" ELSE status'[r] = "429"
  BY LimitIs
<1>2. r \in Arrived /\ status[r] = "none"
      /\ (input[r].route \in JwtRoutes /\ ~input[r].token
            => todo[r] # <<>> /\ Head(todo[r]) = "jwt")
  BY <1>1, OpenIs
<1>3. ~LacksToken(input[r]) /\ l # "none"
  BY <1>1, <1>2 DEF LacksToken, JwtRoutes, Limiters
<1>4. Contract!Spent(Client(input[r]), l) = Admissions(l, Client(input[r]), clock)
  BY DEF Contract!Spent, Admissions
<1>5. d = [req |-> r, key |-> Client(input[r]), at |-> clock,
           ok |-> Cardinality(Contract!Spent(Client(input[r]), l)) < LimitOf(l),
           limiter |-> l]
  BY <1>2, <1>4, KeyOfArrived, LimiterCounts DEF Verdict, IInv
<1>6. d.ok = (Cardinality(Contract!Spent(Client(input[r]), l)) < LimitOf(l))
  BY <1>5
<1> HIDE DEF d
<1>7. Settled(r) = "none"
      /\ Settled(r)' = IF d.ok THEN Promised(input[r]) ELSE "429"
  BY <1>1, <1>2 DEF Settled
<1>8. Answered' = [Answered EXCEPT ![r] = IF d.ok THEN Promised(input[r]) ELSE "429"]
  BY <1>1, <1>7, AnswersElsewhere
<1>9. Contract!Waiting(r)
  BY <1>2, <1>7 DEF Contract!Waiting, Arrived, Answered
<1> DEFINE ok == Contract!Cardinality(Contract!Spent(Client(input[r]), BudgetOf(input[r])))
                   < LimitOf(BudgetOf(input[r]))
<1>11. ok = (Cardinality(Contract!Spent(Client(input[r]), l)) < LimitOf(l))
  BY <1>1, SameCardinality, Zenon
<1>12. decisions' = decisions \cup
         {[req |-> r, key |-> Client(input[r]), at |-> clock, ok |-> ok,
           limiter |-> BudgetOf(input[r])]}
  BY <1>1, <1>5, <1>11, Zenon
<1>13. Answered' = [Answered EXCEPT ![r] = IF ok THEN Promised(input[r]) ELSE "429"]
  BY <1>6, <1>8, <1>11, Zenon
<1>14. BudgetOf(input[r]) # "none" /\ UNCHANGED <<clock, input>>
  BY <1>1, <1>3
<1> QED
  BY <1>3, <1>9, <1>12, <1>13, <1>14, Zenon DEF Contract!Charge, Answered

(* Arrivals are receptions.                                                *)
LEMMA ContractReceive ==
  ASSUME IInv, IInv', NEW r \in Requests, NEW in \in Inputs, Arrive(r, in)
  PROVE  Contract!Receive(r)
<1>1. /\ r \notin Arrived /\ Arrived' = Arrived \cup {r} /\ input'[r] = in
      /\ decisions' = decisions /\ clock' = clock /\ ~Charged(r)'
      /\ Elsewhere(r) /\ status[r] = "none" /\ ~Charged(r)
      /\ IF in.method = "OPTIONS" THEN status'[r] = "204" ELSE status'[r] = "none"
  BY Steps
<1>2. Answered' = [Answered EXCEPT ![r] = Settled(r)']
  BY <1>1, AnswersElsewhere
<1>3. Settled(r) = "none"
      /\ Settled(r)' = IF in.method = "OPTIONS" THEN "204" ELSE "none"
  BY <1>1 DEF Settled
<1>4. Answered' = IF Preflight(in) THEN [Answered EXCEPT ![r] = "204"] ELSE Answered
  BY <1>2, <1>3 DEF Preflight, Answered
<1>5. \A q \in Arrived : input'[q] = input[q]
  BY <1>1 DEF Elsewhere
<1> QED BY <1>1, <1>4, <1>5 DEF Contract!Receive, Arrived, Answered

(* The gateway's chains of middlewares implement the contract with its     *)
(* clients: each request is answered once, in effect in one step, by what  *)
(* it asks for alone, unless its client has used up the one budget of its  *)
(* route; it is charged once, after its token and before its method and    *)
(* its body are looked at.                                                 *)
THEOREM Refinement == Spec => ImplementsContract
<1>1. Init => PathInv /\ Contract!Init
  <2> SUFFICES ASSUME Init PROVE PathInv /\ Contract!Init
    OBVIOUS
  <2>1. Arrived = {} /\ decisions = {} /\ \A r \in Requests : status[r] = "none"
    BY DEF Init, Arrived
  <2>2. Answered = [r \in Requests |-> "none"]
    BY <2>1 DEF Answered, Settled, Charged
  <2> QED BY <2>1, <2>2 DEF PathInv, Init, Contract!Init, Answered
<1>2. IInv /\ IInv' /\ PathInv /\ [Next]_vars => [Contract!Next]_(Contract!vars)
  <2> SUFFICES ASSUME IInv, IInv', PathInv, [Next]_vars
               PROVE  [Contract!Next]_(Contract!vars)
    OBVIOUS
  <2>1. CASE UNCHANGED vars
    <3>1. Answered' = Answered
      BY <2>1 DEF vars, Answered, Settled, Charged
    <3> QED BY <2>1, <3>1 DEF vars, Contract!vars, Answered
  <2>2. CASE Tick
    <3>1. Answered' = Answered
      BY <2>2 DEF Tick, Answered, Settled, Charged
    <3> QED BY <2>2, <3>1 DEF Tick, Contract!Next, Contract!Tick, Answered
  <2>3. ASSUME NEW r \in Requests, NEW in \in Inputs, Arrive(r, in)
        PROVE  [Contract!Next]_(Contract!vars)
    BY <2>3, ContractReceive DEF Contract!Next
  <2>4. ASSUME NEW r \in Requests, Authenticate(r) \/ FilterMethod(r) \/ Handle(r)
        PROVE  [Contract!Next]_(Contract!vars)
    BY <2>4, ContractReply DEF Contract!Next
  <2>5. ASSUME NEW r \in Requests, NEW l \in Limiters, Limit(r, l)
        PROVE  [Contract!Next]_(Contract!vars)
    BY <2>5, ContractCharge DEF Contract!Next
  <2> QED BY <2>1, <2>2, <2>3, <2>4, <2>5 DEF Next
<1>3. FullInv => IInv
  BY DEF FullInv
<1> QED
  BY <1>1, <1>2, <1>3, StepPath, Invariance, PTL
  DEF Spec, ImplementsContract, Contract!Spec
----------------------------------------------------------------------------
LEMMA LimiterCardinality ==
  ASSUME NEW l PROVE \A S : Limiter(l)!Cardinality(S) = Cardinality(S)
BY DEF Limiter!Cardinality, Cardinality

LEMMA LimitDecides ==
  ASSUME IInv, NEW l \in Limiters, NEW r \in Requests, Limit(r, l)
  PROVE  Limiter(l)!Decide(r)
<1> DEFINE a == Client(input[r])
           x == Verdict(r, l)
           ok == Cardinality(Limiter(l)!Admitted(a, clock)) < LimitOf(l)
<1> USE DEF IInv
<1>1. /\ r \in Arrived /\ status[r] = "none" /\ todo[r] # <<>> /\ Head(todo[r]) = l
      /\ decisions' = decisions \cup {x} /\ clock' = clock
  BY DEF Limit, AtMiddleware, Open, Verdict
<1>2. a \in Addrs
  BY <1>1, KeyOfArrived
<1>3. \A d \in decisions : d.req # r
  <2>1. todo[r] \in Uncharged
    BY <1>1, Tails DEF StateInv, Uncharged
  <2> QED BY <1>1, <2>1 DEF ChargeInv, Charged
<1>4. x.ok <=> ok
  BY <1>1, KeyOfArrived DEF Verdict
<1>5. Recorded(x) = [req |-> r, key |-> a, at |-> clock, ok |-> ok]
  <2>1. x.req = r /\ x.key = a /\ x.at = clock /\ x.ok \in BOOLEAN
    BY <1>1, KeyOfArrived DEF Verdict
  <2>2. x.ok = ok
    BY <1>4, <2>1
  <2> HIDE DEF x, a, ok
  <2> QED BY <2>1, <2>2 DEF Recorded
<1>6. Ledger(l)' = Ledger(l) \cup {Recorded(x)}
  <2>1. x.limiter = l
    BY DEF Verdict
  <2> HIDE DEF x
  <2>2. {e \in decisions' : e.limiter = l} = {e \in decisions : e.limiter = l} \cup {x}
    BY <1>1, <2>1
  <2>3. Ledger(l)' = {Recorded(d) : d \in {e \in decisions' : e.limiter = l}}
    BY DEF Ledger, Recorded
  <2> QED BY <2>2, <2>3, Ledgers
<1>7. \A d \in Ledger(l) : d.req # r /\ d.at <= clock
  BY <1>3 DEF Ledger, DecisionInv
<1>8. clock \in 0..clock
  BY DEF StateInv
<1>9. \E k \in Addrs, t \in 0..clock :
        /\ \A d \in Ledger(l) : d.at <= t
        /\ Ledger(l)' = Ledger(l) \cup
             {[req |-> r, key |-> k, at |-> t,
               ok  |-> Cardinality(Limiter(l)!Admitted(k, t)) < LimitOf(l)]}
  BY <1>2, <1>5, <1>6, <1>7, <1>8
<1> QED BY <1>1, <1>7, <1>9, LimiterCardinality DEF Limiter!Decide

LEMMA StepDecides ==
  ASSUME IInv, [Next]_vars, NEW l \in Limiters
  PROVE  [Limiter(l)!Next]_(Limiter(l)!vars)
<1>1. ASSUME NEW r \in Requests, Limit(r, l)
      PROVE  Limiter(l)!Next
  BY <1>1, LimitDecides DEF Limiter!Next
<1>2. ASSUME NEW r \in Requests, NEW m \in Limiters \ {l}, Limit(r, m)
      PROVE  UNCHANGED Limiter(l)!vars
  <2>1. decisions' = decisions \cup {Verdict(r, m)} /\ clock' = clock
    BY <1>2 DEF Limit, Verdict
  <2>2. Verdict(r, m).limiter = m
    BY DEF Verdict
  <2>3. {e \in decisions' : e.limiter = l} = {e \in decisions : e.limiter = l}
    BY <2>1, <2>2
  <2> QED BY <2>1, <2>3 DEF Limiter!vars, Ledger
<1>3. CASE Tick
  BY <1>3 DEF Tick, Limiter!Next, Limiter!Tick, Ledger
<1>4. CASE UNCHANGED <<clock, decisions>>
  BY <1>4 DEF Limiter!vars, Ledger
<1>5. CASE \A r \in Requests, m \in Limiters : ~Limit(r, m)
  BY <1>3, <1>4, <1>5, OnlyLimitDecides DEF vars
<1> QED BY <1>1, <1>2, <1>5

(* Each of the three limiters, as the interleaved chains use it, is the    *)
(* atomic sliding-window limiter that RateLimiter implements: it decides   *)
(* on clients, on each request once, and from the whole history of that    *)
(* client and of no other limiter.                                         *)
THEOREM LimitersAreSlidingWindows ==
  ASSUME NEW l \in Limiters
  PROVE  Spec => Limiter(l)!Spec
<1>1. Init => Limiter(l)!Init
  BY DEF Init, Limiter!Init, Ledger
<1>2. FullInv => IInv
  BY DEF FullInv
<1> QED BY <1>1, <1>2, StepDecides, Invariance, PTL DEF Spec, Limiter!Spec
=============================================================================
