------------------------------ MODULE Gateway ------------------------------
(***************************************************************************)
(* One process of the API gateway: the route table of api/router.go, the   *)
(* middleware chains around the handlers, and the rate limiters that the   *)
(* routes share.  net/http serves every request on a goroutine of its own, *)
(* so the middlewares of concurrent requests interleave; the limiters are  *)
(* the only state they share, and each of their decisions is atomic        *)
(* (RateLimiter_proofs!Refinement).                                        *)
(***************************************************************************)
EXTENDS Integers, FiniteSets, Sequences

Sequence == INSTANCE SequencesExt

CONSTANTS
  Requests,   \* identities of requests
  Inputs,     \* what a client may send: a set of Request records
  Addrs,      \* addresses of clients
  Ports,      \* ports of their connections
  Proxy,      \* the address of the ingress in front of the gateway
  AuthLimit,  \* NewRateLimiter(10, time.Minute), scaled down
  ApiLimit,   \* cfg.RateLimitPerMinute, scaled down
  FlagLimit,  \* NewRateLimiter(30, time.Minute), scaled down
  Window,     \* time.Minute, in clock units
  MaxTime     \* bound: the clock stops there

VARIABLES
  clock,
  input,      \* the request each identity stands for, once it has arrived
  todo,       \* the middlewares it has still to pass, outermost first
  decisions,  \* the decisions of every limiter
  status      \* the response: "none", an HTTP status, or what wrote it

vars == <<clock, input, todo, decisions, status>>

Methods == {"GET", "POST", "DELETE", "OPTIONS"}

(* One name per pattern of the mux and per suffix it is split by.  The lab *)
(* and VPN routes under /teams/ answer every method alike, as "team" does. *)
Routes == {"register", "login", "refresh", "logout", "events", "bySlug",
           "event", "challenges", "eventTeams", "scoreboard", "flags", "team",
           "health", "unknown"}

(* addr, port: the client, and its connection.  header: the addresses in   *)
(* the X-Forwarded-For that the client sends, the first at most, as the    *)
(* others are not looked at.  via: the request comes straight to the       *)
(* gateway, or through the ingress: nginx, which overwrites that header,   *)
(* or an ALB, which appends to it.                                         *)
(* token: the Authorization header is one that JWTAuth accepts.            *)
(* wellFormed: the body decodes and passes the handler's checks (for       *)
(* bySlug, the slug is not empty).                                         *)
Request == [route : Routes, method : Methods,
            addr : Addrs, port : Ports,
            header : {<<>>} \cup {<<a>> : a \in Addrs},
            via : {"direct", "nginx", "alb"},
            token : BOOLEAN, wellFormed : BOOLEAN]

ASSUME GatewayAssumption ==
  /\ Proxy \notin Addrs
  /\ Inputs \subseteq Request
  /\ {AuthLimit, ApiLimit, FlagLimit, Window, MaxTime} \subseteq Nat

Limiters == {"auth", "api", "flag"}
LimitOf(l) == CASE l = "auth" -> AuthLimit
                [] l = "api"  -> ApiLimit
                [] l = "flag" -> FlagLimit

(* The decisions of one limiter, as it sees them.                          *)
Ledger(l) ==
  {[req |-> d.req, key |-> d.key, at |-> d.at, ok |-> d.ok] :
     d \in {e \in decisions : e.limiter = l}}

(* Each limiter is the atomic one that its implementation refines.         *)
Limiter(l) == INSTANCE SlidingWindow WITH
  Keys <- Addrs, Limit <- LimitOf(l), time <- clock, decisions <- Ledger(l)

----------------------------------------------------------------------------
(* The route table.                                                        *)

AuthRoutes == {"register", "login", "refresh"}
JwtFirst == {"event", "challenges", "eventTeams", "scoreboard", "team"}

(* The middlewares that the route table lists for a route.                 *)
Listed(route) ==
  CASE route \in AuthRoutes          -> <<"auth", "post">>
    [] route = "logout"              -> <<"jwt", "post">>
    [] route \in {"events", "bySlug"} -> <<"api">>
    [] route \in JwtFirst            -> <<"jwt", "api">>
    [] route = "flags"               -> <<"jwt", "flag", "post">>
    [] OTHER                         -> <<>>

(* Variants: the loop of chain() runs forwards; the team routes lack the   *)
(* token check; flags is limited twice.                                    *)
ReversedChain(route) == Sequence!Reverse(Listed(route))
ChainWithOpenTeams(route) == IF route = "team" THEN <<"api">> ELSE Listed(route)
ChainWithTwoLimits(route) ==
  IF route = "flags" THEN <<"jwt", "api", "flag", "post">> ELSE Listed(route)

(* chain() wraps from the last to the first, so a request meets the        *)
(* middlewares in the order of the list.                                   *)
Chain(route) == Listed(route)

(* A body that does not decode, or lacks a required field, is answered     *)
(* with 400; a method that the route does not dispatch, with 405.          *)
Checked(in, code) == IF in.wellFormed THEN code ELSE "400"
OnGet(in, code) == IF in.method = "GET" THEN code ELSE "405"

(* AuthHandler.                                                            *)
AccountHandled(in) ==
  CASE in.route = "register"            -> Checked(in, "201")
    [] in.route \in {"login", "refresh"} -> Checked(in, "200")
    [] in.route = "logout"              -> "204"

(* /events: listing is public, creation asks for a token on its own.       *)
EventsHandled(in) ==
  CASE in.method # "POST"    -> OnGet(in, "200")
    [] ~in.token             -> "401"
    [] OTHER                 -> Checked(in, "201")

(* /events/: by-slug, and the sub-routes that the suffix of the path       *)
(* selects.                                                                *)
SlugHandled(in) == OnGet(in, Checked(in, "200"))
SubrouteHandled(in) ==
  IF in.route = "eventTeams" /\ in.method = "POST"
    THEN Checked(in, "201") ELSE OnGet(in, "200")

(* VerifyFlag.                                                             *)
FlagHandled(in) == Checked(in, "200")

(* /teams/ answers every method alike, whichever of its suffixes.          *)
TeamHandled(in) == "200"

(* What the innermost handler of a route answers.                          *)
Handled(in) ==
  CASE in.route \in AuthRoutes \cup {"logout"} -> AccountHandled(in)
    [] in.route = "events"  -> EventsHandled(in)
    [] in.route = "bySlug"  -> SlugHandled(in)
    [] in.route \in JwtFirst \ {"team"} -> SubrouteHandled(in)
    [] in.route = "flags"   -> FlagHandled(in)
    [] in.route = "team"    -> TeamHandled(in)
    [] in.route = "health"  -> "200"
    [] in.route = "unknown" -> "404"

Successes == {"200", "201", "204"}

----------------------------------------------------------------------------
Init ==
  /\ clock = 0
  /\ input = [r \in {} |-> {}]
  /\ todo = [r \in Requests |-> <<>>]
  /\ decisions = {}
  /\ status = [r \in Requests |-> "none"]

Arrived == DOMAIN input

(* Variant: a middleware that has written its error does not return.       *)
OpenForever(r) == r \in Arrived

(* Nothing has answered r yet.                                             *)
Open(r) == r \in Arrived /\ status[r] = "none"

Tick ==
  /\ clock < MaxTime
  /\ clock' = clock + 1
  /\ UNCHANGED <<input, todo, decisions, status>>

(* RequestID, SecurityHeaders and CORS wrap the mux: a preflight is        *)
(* answered by CORS and goes no further, any other request is routed.      *)
Arrive(r, in) ==
  /\ r \notin Arrived
  /\ input' = [q \in Arrived \cup {r} |-> IF q = r THEN in ELSE input[q]]
  /\ IF in.method = "OPTIONS"
       THEN /\ status' = [status EXCEPT ![r] = "204"]
            /\ UNCHANGED todo
       ELSE /\ todo' = [todo EXCEPT ![r] = Chain(in.route)]
            /\ UNCHANGED status
  /\ UNCHANGED <<clock, decisions>>

(* The next middleware of r is m; r goes on to the one after it, or is     *)
(* answered with code.                                                     *)
AtMiddleware(r, m) == Open(r) /\ todo[r] # <<>> /\ Head(todo[r]) = m
PassOn(r) == todo' = [todo EXCEPT ![r] = Tail(@)] /\ UNCHANGED status
Answer(r, code) == status' = [status EXCEPT ![r] = code] /\ UNCHANGED todo

Authenticate(r) ==
  /\ AtMiddleware(r, "jwt")
  /\ IF input[r].token THEN PassOn(r) ELSE Answer(r, "401")
  /\ UNCHANGED <<clock, input, decisions>>

(* methodFilter("POST") lets preflights through, and writes its refusal    *)
(* without a body.                                                         *)
FilterMethod(r) ==
  /\ AtMiddleware(r, "post")
  /\ IF input[r].method \in {"POST", "OPTIONS"}
       THEN PassOn(r) ELSE Answer(r, "405")
  /\ UNCHANGED <<clock, input, decisions>>

(* net/http's RemoteAddr, and the addresses in X-Forwarded-For as it       *)
(* reaches the gateway, which takes it from whoever sends it.              *)
RemoteAddr(in) ==
  [host |-> IF in.via = "direct" THEN in.addr ELSE Proxy, port |-> in.port]
Forwarded(in) ==
  CASE in.via = "direct" -> in.header
    [] in.via = "nginx"  -> <<in.addr>>
    [] in.via = "alb"    -> Append(in.header, in.addr)

(* Variants: the address of the connection is the key, with its port; the  *)
(* header is not looked at.                                                *)
KeyOfConnection(in) ==
  IF Forwarded(in) # <<>> THEN Head(Forwarded(in)) ELSE RemoteAddr(in)
KeyOfPeer(in) == RemoteAddr(in).host

(* The key of a request: the first address of X-Forwarded-For, or else the *)
(* remote address, without its port.                                       *)
ClientKey(in) ==
  IF Forwarded(in) # <<>> THEN Head(Forwarded(in)) ELSE RemoteAddr(in).host

(* RateLimit(limiter): Allow decides on the key at this moment.            *)
Limit(r, l) ==
  LET a  == ClientKey(input[r])
      ok == Cardinality(Limiter(l)!Admitted(a, clock)) < LimitOf(l)
  IN
  /\ AtMiddleware(r, l)
  /\ decisions' = decisions \cup
       {[req |-> r, key |-> a, at |-> clock, ok |-> ok, limiter |-> l]}
  /\ IF ok THEN PassOn(r) ELSE Answer(r, "429")
  /\ UNCHANGED <<clock, input>>

(* The chain is passed; the handler answers.                               *)
Handle(r) ==
  /\ Open(r) /\ todo[r] = <<>>
  /\ Answer(r, Handled(input[r]))
  /\ UNCHANGED <<clock, input, decisions>>

Next ==
  \/ Tick
  \/ \E r \in Requests :
       \/ \E in \in Inputs : Arrive(r, in)
       \/ Authenticate(r)
       \/ FilterMethod(r)
       \/ \E l \in Limiters : Limit(r, l)
       \/ Handle(r)

Spec == Init /\ [][Next]_vars

----------------------------------------------------------------------------
(* Properties.                                                             *)

(* The state is well typed; a request is charged to one limiter, once.     *)
TypeOK ==
  /\ clock \in 0..MaxTime
  /\ Arrived \subseteq Requests /\ \A r \in Arrived : input[r] \in Inputs
  /\ \A r \in Requests : todo[r] \in Seq(Limiters \cup {"jwt", "post"})
  /\ \A r \in Requests : status[r] \in
       {"none", "200", "201", "204", "400", "401", "404", "405", "429"}
  /\ \A d \in decisions : d.req \in Arrived /\ d.limiter \in Limiters
  /\ \A d, e \in decisions : d.req = e.req => d = e

Charged(r) == \E d \in decisions : d.req = r

(* Who a request counts as: an ingress that overwrites the header vouches  *)
(* for the client; any other request is believed when it names one, and    *)
(* counts as the client that sent it when it names none.                   *)
Client(in) ==
  IF in.via = "nginx" \/ in.header = <<>> THEN in.addr ELSE in.header[1]

(* The account endpoints share one budget: in no window do more than       *)
(* AuthLimit requests in the name of a client, so none that names another, *)
(* get past the limiter to be looked at, whatever mix of register, login   *)
(* and refresh they are, on however many connections, directly or by an    *)
(* ingress, and however their chains interleave.                           *)
Examined(r) == status[r] \in Successes \cup {"400", "405"}

AccountBudget ==
  \A a \in Addrs, t \in 0..clock :
    Cardinality({d \in decisions :
      /\ Client(input[d.req]) = a /\ t - Window < d.at /\ d.at <= t
      /\ input[d.req].route \in AuthRoutes /\ Examined(d.req)}) <= AuthLimit

(* A request without a valid token costs its address nothing on the routes *)
(* that check the token first, so it cannot use up the budget of a signed  *)
(* in user behind the same address.                                        *)
RefusedTokenIsFree ==
  \A r \in Arrived :
    (status[r] = "401" /\ input[r].route # "events") => ~Charged(r)

(* Without a valid token only what the comments in the route table call    *)
(* public succeeds: the account routes, the health checks, the lookup of   *)
(* an event by slug and the listing of events, but not their creation.     *)
(* (The summary above NewRouter, and the documents, call all events        *)
(* authenticated.)  Preflights are answered before the routes.             *)
PublicRoutes == AuthRoutes \cup {"bySlug", "health"}
SuccessNeedsToken ==
  \A r \in Arrived :
    (status[r] \in Successes /\ ~input[r].token) =>
      \/ input[r].route \in PublicRoutes
      \/ input[r].route = "events" /\ input[r].method = "GET"
      \/ input[r].method = "OPTIONS"

(* Nobody pays for requests in the name of others, nor for preflights,     *)
(* which the browser sends before every request of the frontend: a request *)
(* is refused only when those in the name of its client, whoever sent      *)
(* them, have used up the limiter in that window, preflights not counted.  *)
(* Clients behind the same ingress are told apart.                         *)
RefusalIsEarned ==
  \A d \in decisions : ~d.ok =>
    Cardinality({e \in decisions :
      /\ e.ok /\ e.limiter = d.limiter
      /\ d.at - Window < e.at /\ e.at <= d.at
      /\ Client(input[e.req]) = Client(input[d.req])
      /\ input[e.req].method # "OPTIONS"}) >= LimitOf(d.limiter)

(* The contract: what each request is promised, by its route, method,      *)
(* token and body, and the budget that it draws on.                        *)
Preflight(in) == in.method = "OPTIONS"
LacksToken(in) == in.route \in JwtFirst \cup {"logout", "flags"} /\ ~in.token
BudgetOf(in) ==
  CASE in.route \in AuthRoutes -> "auth"
    [] in.route \in JwtFirst \cup {"events", "bySlug"} -> "api"
    [] in.route = "flags" -> "flag"
    [] OTHER -> "none"
PostOnly(in) == in.route \in AuthRoutes \cup {"logout", "flags"}
Promised(in) ==
  IF PostOnly(in) /\ in.method # "POST" THEN "405" ELSE Handled(in)

(* Once a limiter has let a request pass, its answer is settled.           *)
Settled(r) ==
  IF status[r] = "none" /\ Charged(r) THEN Promised(input[r]) ELSE status[r]

Contract == INSTANCE GatewayContract WITH
  NoBudget <- "none",
  ledger <- decisions,
  answer <- [r \in Requests |-> Settled(r)]

(* The chains of middlewares, interleaved in whatever way, implement the   *)
(* contract: every request is answered once and in effect in one step, by  *)
(* what it asks for, and is charged to the one budget of its route, before *)
(* its method and its body are looked at, but after its token.             *)
ImplementsContract == Contract!Spec
=============================================================================
