------------------------------- MODULE Daemon -------------------------------
(***************************************************************************)
(* The life of a daemon of cmd/: api-gateway, operator, vnc-proxy, amigo   *)
(* and store.  They have one shape: servers in goroutines of their own,    *)
(* main waiting for a signal, and then one deadline for the servers, which *)
(* are shut down one after the other.  What differs is the list of servers *)
(* and, in the store, a plain TCP listener in the place of the first one.  *)
(*                                                                         *)
(* net/http is external: Shutdown closes the listener, waits until the     *)
(* serve loop has returned, and then polls, closing idle connections,      *)
(* until none is left or the context is done.  A signal has its default    *)
(* effect, the death of the process, until signal.Notify has been called.  *)
(*                                                                         *)
(* The clock runs while main waits in Shutdown, and never past the         *)
(* deadline of that call: a goroutine that can go on does so in much less  *)
(* than a clock unit.                                                      *)
(***************************************************************************)
EXTENDS Integers, Sequences, Functions

CONSTANTS
  Conns,     \* connections of clients, reused when closed
  None,      \* no connection
  Timeout,   \* the argument of context.WithTimeout, in clock units
  MaxTime    \* bound: the clock stops there

Servers == {"apiServer", "healthServer", "server", "metricsServer", "ln"}

(* What a connection is: to which server, and with a request or idle.      *)
Connections == [server : Servers, request : BOOLEAN]

ASSUME ConstantsAssumption ==
  /\ Timeout \in Nat
  /\ MaxTime \in Nat
  /\ None \notin Connections

VARIABLES
  daemon,    \* which program this is
  main,      \* where its main goroutine is
  cur,       \* the index of the server being shut down
  srv,       \* the state of each server's goroutine
  shut,      \* servers on which Shutdown, or Close, has been called
  conn,      \* connections: to which server, with or without a request
  stop,      \* a signal is in the channel stop, of capacity one
  now,       \* time since main took the signal
  deadline,  \* of the context
  exit,      \* how the process has ended
  lost       \* connections whose request the end of the process cut off

vars == <<daemon, main, cur, srv, shut, conn, stop, now, deadline, exit, lost>>

(* The programs: their servers in the order in which main shuts them down, *)
(* and those that are plain listeners.                                     *)
ApiGateway == [order |-> <<"apiServer", "metricsServer">>, raw |-> {}]
Operator   == [order |-> <<"healthServer", "metricsServer">>, raw |-> {}]
VncProxy   == [order |-> <<"server", "metricsServer">>, raw |-> {}]
Amigo      == [order |-> <<"server">>, raw |-> {}]
Store      == [order |-> <<"ln", "metricsServer">>, raw |-> {"ln"}]

Daemons == {ApiGateway, Operator, VncProxy, Amigo, Store}

Running == exit = "running"
Own == Range(daemon.order)
Http == Own \ daemon.raw
Current == daemon.order[cur]

Busy(s) == {c \in Conns : conn[c] = [server |-> s, request |-> TRUE]}
Idle(s) == {c \in Conns : conn[c] = [server |-> s, request |-> FALSE]}

----------------------------------------------------------------------------
Init ==
  /\ daemon \in Daemons
  /\ main = "boot"
  /\ cur = 1
  /\ srv = [s \in Servers |-> "absent"]
  /\ shut = {}
  /\ conn = [c \in Conns |-> None]
  /\ stop = FALSE
  /\ now = 0
  /\ deadline = 0
  /\ exit = "running"
  /\ lost = {}

(* The end of the process takes every goroutine and connection with it.    *)
Exit(how) ==
  /\ exit' = how
  /\ main' = "over"
  /\ lost' = UNION {Busy(s) : s \in Servers}
  /\ conn' = [c \in Conns |-> None]

(* main listens (store), and starts a goroutine per server.                *)
Start ==
  /\ Running /\ main = "boot"
  /\ main' = "started"
  /\ srv' = [s \in Servers |-> IF s \in daemon.raw THEN "serving"
                               ELSE IF s \in Own THEN "starting" ELSE "absent"]
  /\ UNCHANGED <<daemon, cur, shut, conn, stop, now, deadline, exit, lost>>

(* net.Listen fails in main.                                               *)
ListenFails ==
  /\ Running /\ main = "boot"
  /\ \E s \in daemon.raw : srv' = [srv EXCEPT ![s] = "failed"]
  /\ Exit("fatal")
  /\ UNCHANGED <<daemon, cur, shut, stop, now, deadline>>

Notify ==
  /\ Running /\ main = "started"
  /\ main' = "await"
  /\ UNCHANGED <<daemon, cur, srv, shut, conn, stop, now, deadline, exit, lost>>

(* SIGTERM or SIGINT arrives.  Before Notify it kills the process; after   *)
(* it, one that finds the channel full is dropped.                         *)
Signal ==
  /\ Running
  /\ IF main \in {"boot", "started"}
     THEN Exit("signal") /\ UNCHANGED stop
     ELSE ~stop /\ stop' = TRUE /\ UNCHANGED <<main, conn, exit, lost>>
  /\ UNCHANGED <<daemon, cur, srv, shut, now, deadline>>

----------------------------------------------------------------------------
(* The goroutines of the servers.                                          *)

(* ListenAndServe looks whether Shutdown was called before it began ...    *)
Check(s) ==
  /\ Running /\ srv[s] = "starting"
  /\ srv' = [srv EXCEPT ![s] = IF s \in shut THEN "returned" ELSE "binding"]
  /\ UNCHANGED <<daemon, main, cur, shut, conn, stop, now, deadline, exit, lost>>

(* ... binds its address, and looks again before it serves.                *)
Bind(s) ==
  /\ Running /\ srv[s] = "binding"
  /\ srv' = [srv EXCEPT ![s] = IF s \in shut THEN "returned" ELSE "serving"]
  /\ UNCHANGED <<daemon, main, cur, shut, conn, stop, now, deadline, exit, lost>>

(* Variant: log.Printf in the place of log.Fatalf.                         *)
ServeFailsLogged(s) ==
  /\ Running /\ s \in Http
  /\ srv[s] = "binding" \/ (srv[s] = "serving" /\ s \notin shut)
  /\ srv' = [srv EXCEPT ![s] = "failed"]
  /\ UNCHANGED <<daemon, main, cur, shut, conn, stop, now, deadline, exit, lost>>

(* The address is taken, or Accept fails for good: log.Fatalf.             *)
ServeFails(s) ==
  /\ Running /\ s \in Http
  /\ srv[s] = "binding" \/ (srv[s] = "serving" /\ s \notin shut)
  /\ srv' = [srv EXCEPT ![s] = "failed"]
  /\ Exit("fatal")
  /\ UNCHANGED <<daemon, cur, shut, stop, now, deadline>>

(* Variant: the goroutine tests err != nil, not err != ErrServerClosed.    *)
ServeReturnsFatally(s) ==
  /\ Running /\ s \in Http /\ s \in shut /\ srv[s] = "serving"
  /\ srv' = [srv EXCEPT ![s] = "returned"]
  /\ Exit("fatal")
  /\ UNCHANGED <<daemon, cur, shut, stop, now, deadline>>

(* The serve loop finds its listener closed by Shutdown: ErrServerClosed.  *)
ServeReturns(s) ==
  /\ Running /\ s \in Http /\ s \in shut /\ srv[s] = "serving"
  /\ srv' = [srv EXCEPT ![s] = "returned"]
  /\ UNCHANGED <<daemon, main, cur, shut, conn, stop, now, deadline, exit, lost>>

(* The accept loop of the store returns on any error of Accept, whether    *)
(* main has closed the listener or not; nobody is told.                    *)
AcceptLoopReturns(s) ==
  /\ Running /\ s \in daemon.raw /\ srv[s] = "serving"
  /\ srv' = [srv EXCEPT ![s] = "returned"]
  /\ UNCHANGED <<daemon, main, cur, shut, conn, stop, now, deadline, exit, lost>>

(* A connection with a request.  A serve loop that took one from the       *)
(* listener just before it was closed still hands it to a handler.  The    *)
(* store closes each connection of its listener at once.                   *)
Accept(s, c) ==
  /\ Running /\ s \in Http /\ srv[s] = "serving" /\ conn[c] = None
  /\ conn' = [conn EXCEPT ![c] = [server |-> s, request |-> TRUE]]
  /\ UNCHANGED <<daemon, main, cur, srv, shut, stop, now, deadline, exit, lost>>

(* The next request on a connection that was kept alive.                   *)
NextRequest(s, c) ==
  /\ Running /\ c \in Idle(s)
  /\ conn' = [conn EXCEPT ![c] = [server |-> s, request |-> TRUE]]
  /\ UNCHANGED <<daemon, main, cur, srv, shut, stop, now, deadline, exit, lost>>

(* A handler is done.  Its connection may stay open, though not once the   *)
(* server is being shut down.                                              *)
Answer(s, c) ==
  /\ Running /\ c \in Busy(s)
  /\ \/ conn' = [conn EXCEPT ![c] = None]
     \/ /\ s \notin shut
        /\ conn' = [conn EXCEPT ![c] = [server |-> s, request |-> FALSE]]
  /\ UNCHANGED <<daemon, main, cur, srv, shut, stop, now, deadline, exit, lost>>

----------------------------------------------------------------------------
(* main, from the signal on.                                               *)

(* Variant: context.WithTimeout is forgotten.                              *)
TakeSignalNoDeadline ==
  /\ Running /\ main = "await" /\ stop
  /\ stop' = FALSE
  /\ main' = "call"
  /\ deadline' = MaxTime + 1
  /\ UNCHANGED <<daemon, cur, srv, shut, conn, now, exit, lost>>

(* <-stop, and the context.  (The store closes ln before it makes the      *)
(* context; that takes no time.)                                           *)
TakeSignal ==
  /\ Running /\ main = "await" /\ stop
  /\ stop' = FALSE
  /\ main' = "call"
  /\ deadline' = now + Timeout
  /\ UNCHANGED <<daemon, cur, srv, shut, conn, now, exit, lost>>

(* Variant: the loop over the servers is off by one.                       *)
ContinueOffByOne(left) ==
  IF cur <= Len(daemon.order)
  THEN main' = "call" /\ cur' = cur + 1 /\ conn' = left /\ UNCHANGED <<exit, lost>>
  ELSE Exit("returned") /\ UNCHANGED cur

(* main goes on to its next server, or returns, and the process with it.   *)
(* left is what the connections are by then.                               *)
Continue(left) ==
  IF cur < Len(daemon.order)
  THEN main' = "call" /\ cur' = cur + 1 /\ conn' = left /\ UNCHANGED <<exit, lost>>
  ELSE Exit("returned") /\ UNCHANGED cur

(* ln.Close().                                                             *)
CloseListener ==
  /\ Running /\ main = "call" /\ Current \in daemon.raw
  /\ shut' = shut \cup {Current}
  /\ Continue(conn)
  /\ UNCHANGED <<daemon, srv, stop, now, deadline>>

(* Variant: each Shutdown gets a context of its own.                       *)
CallShutdownFreshContext ==
  /\ Running /\ main = "call" /\ Current \in Http
  /\ shut' = shut \cup {Current}
  /\ main' = "drain"
  /\ deadline' = now + Timeout
  /\ UNCHANGED <<daemon, cur, srv, conn, stop, now, exit, lost>>

(* Shutdown(ctx) begins: the listener is closed.                           *)
CallShutdown ==
  /\ Running /\ main = "call" /\ Current \in Http
  /\ shut' = shut \cup {Current}
  /\ main' = "drain"
  /\ UNCHANGED <<daemon, cur, srv, conn, stop, now, deadline, exit, lost>>

Draining == Running /\ main = "drain" /\ srv[Current] # "serving"

WithoutIdle == [c \in Conns |-> IF c \in Idle(Current) THEN None ELSE conn[c]]

(* Shutdown polls: idle connections are closed.                            *)
CloseIdle ==
  /\ Draining /\ Busy(Current) # {} /\ Idle(Current) # {}
  /\ conn' = WithoutIdle
  /\ UNCHANGED <<daemon, main, cur, srv, shut, stop, now, deadline, exit, lost>>

(* Shutdown returns nil: no request is left on this server.                *)
Drained ==
  /\ Draining /\ Busy(Current) = {}
  /\ Continue(WithoutIdle)
  /\ UNCHANGED <<daemon, srv, shut, stop, now, deadline>>

(* Shutdown returns ctx.Err(), which main ignores.                         *)
DeadlinePassed ==
  /\ Draining /\ Busy(Current) # {} /\ now >= deadline
  /\ Continue(WithoutIdle)
  /\ UNCHANGED <<daemon, srv, shut, stop, now, deadline>>

(* Time passes while Shutdown waits for requests.                          *)
Tick ==
  /\ Draining /\ Busy(Current) # {} /\ Idle(Current) = {}
  /\ now < deadline /\ now < MaxTime
  /\ now' = now + 1
  /\ UNCHANGED <<daemon, main, cur, srv, shut, conn, stop, deadline, exit, lost>>

Next ==
  \/ Start \/ ListenFails \/ Notify \/ Signal
  \/ \E s \in Servers : \/ Check(s) \/ Bind(s) \/ ServeFails(s)
                        \/ ServeReturns(s) \/ AcceptLoopReturns(s)
  \/ \E s \in Servers, c \in Conns : Accept(s, c) \/ NextRequest(s, c) \/ Answer(s, c)
  \/ TakeSignal \/ CloseListener \/ CallShutdown
  \/ CloseIdle \/ Drained \/ DeadlinePassed \/ Tick

Spec == Init /\ [][Next]_vars

(* The scheduler runs main and the serve loops, and time passes.  Handlers *)
(* and clients may take for ever.                                          *)
Fairness ==
  /\ WF_vars(TakeSignal) /\ WF_vars(CloseListener) /\ WF_vars(CallShutdown)
  /\ WF_vars(CloseIdle) /\ WF_vars(Drained) /\ WF_vars(DeadlinePassed)
  /\ WF_vars(Tick)
  /\ \A s \in Servers : WF_vars(ServeReturns(s))

FairSpec == Spec /\ Fairness

----------------------------------------------------------------------------
(* Properties.                                                             *)

TypeOK ==
  /\ daemon \in Daemons
  /\ main \in {"boot", "started", "await", "call", "drain", "over"}
  /\ cur \in 1..Len(daemon.order)
  /\ srv \in [Servers ->
       {"absent", "starting", "binding", "serving", "returned", "failed"}]
  /\ shut \in SUBSET Own
  /\ conn \in [Conns -> {k \in Connections : k.server \in Http} \cup {None}]
  /\ stop \in BOOLEAN
  /\ now \in Nat /\ deadline \in Nat
  /\ exit \in {"running", "signal", "fatal", "returned"}
  /\ lost \in SUBSET Conns

(* However many servers there are and however their requests hang, the     *)
(* process is gone one Timeout after main took the signal, well within the *)
(* grace period after which the kubelet kills it: the servers share one    *)
(* deadline.                                                               *)
ExitByDeadline == Running => now <= Timeout

(* The end of the process cuts off a request only when the deadline has    *)
(* passed, a server has failed, or the signal came before main asked to be *)
(* notified.  This includes requests that came while another server was    *)
(* being drained, those whose connection was taken from the listener just  *)
(* before it was closed, and a signal that meets servers that are starting.*)
LossExplained ==
  lost # {} => \/ exit = "returned" /\ now >= Timeout
               \/ \E s \in Http : srv[s] = "failed"
               \/ exit = "signal"

(* No half-alive process: as long as it runs, every HTTP server serves or  *)
(* is about to, except those that main has asked to stop; so probes and    *)
(* metrics are answered while requests of the first server are drained.    *)
(* The store's listener is exempt: its loop may end unnoticed.             *)
AllOrNothing ==
  Running /\ main # "boot" =>
    \A s \in Http \ shut : srv[s] \in {"starting", "binding", "serving"}

(* A signal that has been received ends the process, whatever handlers and *)
(* clients do and however many more signals come.                          *)
SignalEnds == stop ~> ~Running
=============================================================================
