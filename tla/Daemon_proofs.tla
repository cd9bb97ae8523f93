--------------------------- MODULE Daemon_proofs ---------------------------
(***************************************************************************)
(* Proofs about Daemon, for any set of connections and any timeout.        *)
(***************************************************************************)
EXTENDS Daemon, TLAPS

(* The clock stands still until main has taken the signal, and then is     *)
(* never past the one deadline of all servers.                             *)
ClockInv ==
  Running => /\ main \in {"boot", "started", "await"} => now = 0
             /\ main \in {"call", "drain"} => deadline = Timeout /\ now <= Timeout
             /\ main # "over"

(* Before the servers are started there is none, and nobody is connected.  *)
BootInv ==
  Running /\ main = "boot" =>
    /\ \A s \in Servers : srv[s] = "absent"
    /\ \A c \in Conns : conn[c] = None

(* The servers that main has dealt with take no connection any more, have  *)
(* none that could bring another request, and have no request left unless  *)
(* the deadline has passed.                                                *)
Finished(s) ==
  /\ s \in shut /\ srv[s] # "serving"
  /\ Idle(s) = {}
  /\ Busy(s) = {} \/ now >= Timeout

PastInv ==
  Running => \A i \in 1..Len(daemon.order) :
               i < cur /\ daemon.order[i] \in Http => Finished(daemon.order[i])

(* The server that Shutdown was called on has its listener closed.         *)
DrainInv == Running /\ main = "drain" => Current \in Http \cap shut

LossInv == (Running => lost = {}) /\ LossExplained

IInv == TypeOK /\ ClockInv /\ BootInv /\ PastInv /\ DrainInv /\ LossInv /\ AllOrNothing

----------------------------------------------------------------------------
(* What the programs have in common: main ends with an HTTP server.        *)
LEMMA Programs ==
  ASSUME daemon \in Daemons
  PROVE  /\ Len(daemon.order) \in Nat \ {0}
         /\ Own = {daemon.order[i] : i \in 1..Len(daemon.order)}
         /\ Own \subseteq Servers
         /\ daemon.raw \subseteq Own
         /\ daemon.order[Len(daemon.order)] \in Http
<1>1. Own = {daemon.order[i] : i \in 1..Len(daemon.order)}
  BY DEF Own, Range, Daemons, ApiGateway, Operator, VncProxy, Amigo, Store
<1>2. Len(daemon.order) \in Nat \ {0}
  BY DEF Daemons, ApiGateway, Operator, VncProxy, Amigo, Store
<1>3. Own \subseteq Servers /\ daemon.raw \subseteq Own
  BY <1>1 DEF Servers, Daemons, ApiGateway, Operator, VncProxy, Amigo, Store
<1>4. daemon.order[Len(daemon.order)] \notin daemon.raw
  BY DEF Daemons, ApiGateway, Operator, VncProxy, Amigo, Store
<1> QED BY <1>1, <1>2, <1>3, <1>4 DEF Http

LEMMA InitIInv == Init => IInv
<1> SUFFICES ASSUME Init PROVE IInv
  OBVIOUS
<1>1. TypeOK
  <2>1. cur \in 1..Len(daemon.order)
    <3>1. Len(daemon.order) \in Nat \ {0}
      BY Programs DEF Init
    <3> QED BY <3>1 DEF Init
  <2>2. srv \in [Servers -> {"absent", "starting", "binding", "serving",
                             "returned", "failed"}]
    BY DEF Init
  <2>3. conn \in [Conns -> {k \in Connections : k.server \in Http} \cup {None}]
    BY DEF Init
  <2> QED BY <2>1, <2>2, <2>3 DEF Init, TypeOK
<1>2. ClockInv /\ BootInv /\ DrainInv /\ LossInv /\ AllOrNothing
  BY DEF Init, ClockInv, BootInv, DrainInv, LossInv, LossExplained, AllOrNothing
<1>3. PastInv
  BY <1>1 DEF Init, PastInv, TypeOK
<1> QED BY <1>1, <1>2, <1>3 DEF IInv

----------------------------------------------------------------------------
(* The end of the process, and main going on to the next server.           *)
LEMMA ExitTypes ==
  ASSUME TypeOK, NEW how \in {"signal", "fatal", "returned"}, Exit(how)
  PROVE  /\ main' = "over" /\ exit' \in {"signal", "fatal", "returned"}
         /\ conn' \in [Conns -> {k \in Connections : k.server \in Http} \cup {None}]
         /\ lost' \in SUBSET Conns
BY DEF TypeOK, Exit, Busy

LEMMA ContinueTypes ==
  ASSUME TypeOK,
         NEW after \in [Conns -> {k \in Connections : k.server \in Http} \cup {None}],
         Continue(after)
  PROVE  /\ main' \in {"call", "over"} /\ exit' \in {exit, "returned"}
         /\ cur' \in 1..Len(daemon.order)
         /\ conn' \in [Conns -> {k \in Connections : k.server \in Http} \cup {None}]
         /\ lost' \in SUBSET Conns
<1>1. CASE cur < Len(daemon.order)
  <2>1. Len(daemon.order) \in Nat
    BY Programs DEF TypeOK
  <2>2. cur' \in 1..Len(daemon.order)
    BY <1>1, <2>1 DEF TypeOK, Continue
  <2> QED BY <1>1, <2>2 DEF TypeOK, Continue
<1>2. CASE ~(cur < Len(daemon.order))
  <2>1. Exit("returned") /\ cur' = cur
    BY <1>2 DEF Continue
  <2>2. exit' = "returned"
    BY <2>1 DEF Exit
  <2> QED BY <2>1, <2>2, ExitTypes DEF TypeOK
<1> QED BY <1>1, <1>2

LEMMA NotNone ==
  \A s \in Servers, x \in BOOLEAN : [server |-> s, request |-> x] # None
BY ConstantsAssumption DEF Connections

(* Only HTTP servers have connections.                                     *)
LEMMA ConnectedServer ==
  ASSUME TypeOK, NEW s \in Servers, NEW c \in Idle(s) \cup Busy(s), NEW b \in BOOLEAN
  PROVE  [server |-> s, request |-> b] \in {k \in Connections : k.server \in Http}
<1>0. \A x \in BOOLEAN : [server |-> s, request |-> x] \in Connections
  BY DEF Connections
<1>1. [server |-> s, request |-> b] \in Connections /\ conn[c] \in Connections
  BY <1>0 DEF Idle, Busy
<1>2. conn[c].server = s
  BY DEF Idle, Busy
<1>3. s \in Http
  BY <1>1, <1>2, ConstantsAssumption DEF TypeOK, Idle, Busy
<1>4. [server |-> s, request |-> b].server = s
  OBVIOUS
<1> QED BY <1>1, <1>3, <1>4

LEMMA StepTypeOK == ASSUME TypeOK, [Next]_vars PROVE TypeOK'
<1> DEFINE Conn == [Conns -> {k \in Connections : k.server \in Http} \cup {None}]
<1>0. daemon' = daemon
  BY DEF Next, vars, Start, ListenFails, Notify, Signal, Check, Bind, ServeFails,
     ServeReturns, AcceptLoopReturns, Accept, NextRequest, Answer, TakeSignal,
     CloseListener, CallShutdown, CloseIdle, Drained, DeadlinePassed, Tick
<1>a. Own' = Own /\ Http' = Http /\ Len(daemon'.order) = Len(daemon.order)
  BY <1>0 DEF Own, Http
<1>b. Own \subseteq Servers /\ Len(daemon.order) \in Nat
  BY Programs DEF TypeOK
<1>c. WithoutIdle \in Conn
  BY DEF WithoutIdle, TypeOK
<1>1. CASE Start
  BY <1>1, <1>0, <1>a DEF Start, TypeOK
<1>2. CASE ListenFails
  <2>1. conn' \in Conn /\ main' = "over" /\ lost' \in SUBSET Conns /\ exit' = "fatal"
    BY <1>2, ExitTypes DEF ListenFails, Exit
  <2> QED BY <1>2, <2>1, <1>0, <1>a DEF ListenFails, TypeOK
<1>3. CASE Notify
  BY <1>3, <1>0, <1>a DEF Notify, TypeOK
<1>4. CASE Signal
  <2>1. conn' \in Conn /\ main' \in {main, "over"} /\ lost' \in SUBSET Conns
        /\ exit' \in {exit, "signal"} /\ stop' \in BOOLEAN
    BY <1>4, ExitTypes DEF Signal, Exit, TypeOK
  <2> QED BY <1>4, <2>1, <1>0, <1>a DEF Signal, TypeOK
<1>5. ASSUME NEW s \in Servers,
             Check(s) \/ Bind(s) \/ ServeReturns(s) \/ AcceptLoopReturns(s)
      PROVE  TypeOK'
  BY <1>5, <1>0, <1>a DEF Check, Bind, ServeReturns, AcceptLoopReturns, TypeOK
<1>6. ASSUME NEW s \in Servers, ServeFails(s) PROVE TypeOK'
  <2>1. conn' \in Conn /\ main' = "over" /\ lost' \in SUBSET Conns /\ exit' = "fatal"
    BY <1>6, ExitTypes DEF ServeFails, Exit
  <2> QED BY <1>6, <2>1, <1>0, <1>a DEF ServeFails, TypeOK
<1>7. ASSUME NEW s \in Servers, NEW c \in Conns,
             Accept(s, c) \/ NextRequest(s, c) \/ Answer(s, c)
      PROVE  TypeOK'
  <2>1. CASE Accept(s, c)
    <3>1. [server |-> s, request |-> TRUE] \in {k \in Connections : k.server \in Http}
      BY <2>1 DEF Accept, Connections
    <3> QED BY <2>1, <3>1, <1>0, <1>a DEF Accept, TypeOK
  <2>2. CASE NextRequest(s, c)
    <3>1. [server |-> s, request |-> TRUE] \in {k \in Connections : k.server \in Http}
      BY <2>2, ConnectedServer DEF NextRequest
    <3> QED BY <2>2, <3>1, <1>0, <1>a DEF NextRequest, TypeOK
  <2>3. CASE Answer(s, c)
    <3>1. [server |-> s, request |-> FALSE] \in {k \in Connections : k.server \in Http}
      BY <2>3, ConnectedServer DEF Answer
    <3> QED BY <2>3, <3>1, <1>0, <1>a DEF Answer, TypeOK
  <2> QED BY <1>7, <2>1, <2>2, <2>3
<1>8. CASE TakeSignal
  <2>1. deadline' \in Nat
    BY <1>8, ConstantsAssumption DEF TakeSignal, TypeOK
  <2> QED BY <1>8, <2>1, <1>0, <1>a DEF TakeSignal, TypeOK
<1>9. CASE CloseListener
  <2>1. conn \in Conn
    BY DEF TypeOK
  <2>2. /\ main' \in {"call", "over"} /\ exit' \in {exit, "returned"}
        /\ cur' \in 1..Len(daemon.order) /\ conn' \in Conn /\ lost' \in SUBSET Conns
    BY <1>9, <2>1, ContinueTypes DEF CloseListener
  <2>3. shut' \in SUBSET Own
    BY <1>9, Programs DEF CloseListener, TypeOK
  <2> QED BY <1>9, <2>2, <2>3, <1>0, <1>a DEF CloseListener, TypeOK
<1>10. CASE CallShutdown
  <2>1. shut' \in SUBSET Own
    BY <1>10 DEF CallShutdown, TypeOK, Http
  <2> QED BY <1>10, <2>1, <1>0, <1>a DEF CallShutdown, TypeOK
<1>11. CASE CloseIdle
  BY <1>11, <1>c, <1>0, <1>a DEF CloseIdle, TypeOK
<1>12. CASE Drained \/ DeadlinePassed
  <2>1. /\ main' \in {"call", "over"} /\ exit' \in {exit, "returned"}
        /\ cur' \in 1..Len(daemon.order) /\ conn' \in Conn /\ lost' \in SUBSET Conns
    BY <1>12, <1>c, ContinueTypes DEF Drained, DeadlinePassed
  <2> QED BY <1>12, <2>1, <1>0, <1>a DEF Drained, DeadlinePassed, TypeOK
<1>13. CASE Tick
  BY <1>13, <1>0, <1>a DEF Tick, TypeOK
<1>14. CASE UNCHANGED vars
  BY <1>14, <1>a DEF vars, TypeOK
<1> QED
  BY <1>1, <1>2, <1>3, <1>4, <1>5, <1>6, <1>7, <1>8, <1>9, <1>10, <1>11, <1>12,
     <1>13, <1>14 DEF Next

----------------------------------------------------------------------------
LEMMA StepClock == ASSUME TypeOK, ClockInv, [Next]_vars PROVE ClockInv'
<1> USE ConstantsAssumption DEF TypeOK, ClockInv, Running
<1>1. CASE Start \/ ListenFails \/ Notify \/ Signal
  BY <1>1 DEF Start, ListenFails, Notify, Signal, Exit
<1>2. ASSUME NEW s \in Servers,
             Check(s) \/ Bind(s) \/ ServeFails(s) \/ ServeReturns(s)
             \/ AcceptLoopReturns(s)
      PROVE  ClockInv'
  BY <1>2 DEF Check, Bind, ServeFails, ServeReturns, AcceptLoopReturns, Exit
<1>3. ASSUME NEW s \in Servers, NEW c \in Conns,
             Accept(s, c) \/ NextRequest(s, c) \/ Answer(s, c)
      PROVE  ClockInv'
  BY <1>3 DEF Accept, NextRequest, Answer
<1>4. CASE TakeSignal
  BY <1>4 DEF TakeSignal
<1>5. CASE CloseListener \/ Drained \/ DeadlinePassed
  <2>1. /\ main' \in {"call", "over"}
        /\ main' = "over" => exit' = "returned"
        /\ main \in {"call", "drain"} /\ Running
        /\ UNCHANGED <<now, deadline>>
    BY <1>5 DEF CloseListener, Drained, DeadlinePassed, Draining, Continue, Exit
  <2> QED BY <2>1
<1>6. CASE CallShutdown \/ CloseIdle \/ Tick
  BY <1>6 DEF CallShutdown, CloseIdle, Tick, Draining
<1>7. CASE UNCHANGED vars
  BY <1>7 DEF vars
<1> QED BY <1>1, <1>2, <1>3, <1>4, <1>5, <1>6, <1>7 DEF Next

(* Before Start there is no server to accept a connection.                 *)
LEMMA StepBoot == ASSUME TypeOK, BootInv, [Next]_vars PROVE BootInv'
<1> USE DEF TypeOK, BootInv, Running
<1>1. CASE Start \/ ListenFails \/ Notify \/ Signal
  BY <1>1 DEF Start, ListenFails, Notify, Signal, Exit
<1>2. ASSUME NEW s \in Servers,
             Check(s) \/ Bind(s) \/ ServeFails(s) \/ ServeReturns(s)
             \/ AcceptLoopReturns(s)
      PROVE  BootInv'
  BY <1>2 DEF Check, Bind, ServeFails, ServeReturns, AcceptLoopReturns, Exit
<1>3. ASSUME NEW s \in Servers, NEW c \in Conns,
             Accept(s, c) \/ NextRequest(s, c) \/ Answer(s, c)
      PROVE  BootInv'
  <2>1. main # "boot"
    <3>1. CASE Accept(s, c)
      BY <3>1 DEF Accept
    <3>2. CASE NextRequest(s, c) \/ Answer(s, c)
      <4>1. \A x \in BOOLEAN : [server |-> s, request |-> x] # None
        BY ConstantsAssumption DEF Connections
      <4> QED BY <3>2, <4>1 DEF NextRequest, Answer, Busy, Idle
    <3> QED BY <1>3, <3>1, <3>2
  <2> QED BY <1>3, <2>1 DEF Accept, NextRequest, Answer
<1>4. CASE TakeSignal \/ CallShutdown \/ CloseIdle \/ Tick
  BY <1>4 DEF TakeSignal, CallShutdown, CloseIdle, Tick, Draining
<1>5. CASE CloseListener \/ Drained \/ DeadlinePassed
  <2>1. main' \in {"call", "over"}
    BY <1>5 DEF CloseListener, Drained, DeadlinePassed, Continue, Exit
  <2> QED BY <2>1
<1>6. CASE UNCHANGED vars
  BY <1>6 DEF vars
<1> QED BY <1>1, <1>2, <1>3, <1>4, <1>5, <1>6 DEF Next

LEMMA StepDrain == ASSUME TypeOK, DrainInv, [Next]_vars PROVE DrainInv'
<1> USE DEF TypeOK, DrainInv, Running, Current, Http, Own
<1>1. CASE Start \/ ListenFails \/ Notify \/ Signal
  BY <1>1 DEF Start, ListenFails, Notify, Signal, Exit
<1>2. ASSUME NEW s \in Servers,
             Check(s) \/ Bind(s) \/ ServeFails(s) \/ ServeReturns(s)
             \/ AcceptLoopReturns(s)
      PROVE  DrainInv'
  BY <1>2 DEF Check, Bind, ServeFails, ServeReturns, AcceptLoopReturns, Exit
<1>3. ASSUME NEW s \in Servers, NEW c \in Conns,
             Accept(s, c) \/ NextRequest(s, c) \/ Answer(s, c)
      PROVE  DrainInv'
  BY <1>3 DEF Accept, NextRequest, Answer
<1>4. CASE TakeSignal \/ CallShutdown \/ CloseIdle \/ Tick
  BY <1>4 DEF TakeSignal, CallShutdown, CloseIdle, Tick, Draining
<1>5. CASE CloseListener \/ Drained \/ DeadlinePassed
  <2>1. main' \in {"call", "over"}
    BY <1>5 DEF CloseListener, Drained, DeadlinePassed, Continue, Exit
  <2> QED BY <2>1
<1>6. CASE UNCHANGED vars
  BY <1>6 DEF vars
<1> QED BY <1>1, <1>2, <1>3, <1>4, <1>5, <1>6 DEF Next

----------------------------------------------------------------------------
(* Every server that main has not asked to stop goes on.                   *)
LEMMA StepServing ==
  ASSUME TypeOK, AllOrNothing, [Next]_vars PROVE AllOrNothing'
<1> USE DEF TypeOK, AllOrNothing, Running, Http, Own
<1>1. CASE Start
  BY <1>1, Programs DEF Start
<1>2. CASE ListenFails \/ Notify \/ Signal
  BY <1>2 DEF ListenFails, Notify, Signal, Exit
<1>3. ASSUME NEW s \in Servers,
             Check(s) \/ Bind(s) \/ ServeFails(s) \/ ServeReturns(s)
             \/ AcceptLoopReturns(s)
      PROVE  AllOrNothing'
  <2>1. CASE ServeFails(s)
    BY <2>1 DEF ServeFails, Exit
  <2>2. CASE AcceptLoopReturns(s)
    BY <2>2 DEF AcceptLoopReturns
  <2>3. CASE ServeReturns(s)
    BY <2>3 DEF ServeReturns
  <2>4. CASE Check(s) \/ Bind(s)
    <3>1. Http \subseteq Servers
      BY Programs
    <3> QED BY <2>4, <3>1 DEF Check, Bind
  <2> QED BY <1>3, <2>1, <2>2, <2>3, <2>4
<1>4. ASSUME NEW s \in Servers, NEW c \in Conns,
             Accept(s, c) \/ NextRequest(s, c) \/ Answer(s, c)
      PROVE  AllOrNothing'
  BY <1>4 DEF Accept, NextRequest, Answer
<1>5. CASE TakeSignal \/ CallShutdown \/ CloseIdle \/ Tick
  BY <1>5 DEF TakeSignal, CallShutdown, CloseIdle, Tick, Draining
<1>6. CASE CloseListener \/ Drained \/ DeadlinePassed
  <2>1. /\ main # "boot" /\ UNCHANGED <<daemon, srv>> /\ shut \subseteq shut'
        /\ exit' \in {exit, "returned"}
    BY <1>6 DEF CloseListener, Drained, DeadlinePassed, Draining, Continue, Exit
  <2> QED BY <1>6, <2>1 DEF CloseListener, Drained, DeadlinePassed
<1>7. CASE UNCHANGED vars
  BY <1>7 DEF vars
<1> QED BY <1>1, <1>2, <1>3, <1>4, <1>5, <1>6, <1>7 DEF Next

----------------------------------------------------------------------------
(* A server that is finished stays so: it is not served again, and what is *)
(* left of its requests can only become less.                              *)
LEMMA FinishedStays ==
  ASSUME TypeOK, NEW s \in Servers, Finished(s), s \in shut',
         srv'[s] # "serving" \/ UNCHANGED srv,
         \A c \in Conns : conn'[c] \in {conn[c], None} \/ conn'[c].server # s,
         now' >= now, now' \in Nat
  PROVE  Finished(s)'
<1>0. \A x \in BOOLEAN : [server |-> s, request |-> x] # None
  BY NotNone
<1>1. Idle(s)' \subseteq Idle(s) /\ Busy(s)' \subseteq Busy(s)
  <2>1. ASSUME NEW c \in Conns, NEW x \in BOOLEAN,
               conn'[c] = [server |-> s, request |-> x]
        PROVE  conn[c] = [server |-> s, request |-> x]
    <3>1. conn'[c].server = s
      BY <2>1
    <3> QED BY <1>0, <2>1, <3>1
  <2> QED BY <2>1 DEF Idle, Busy
<1>2. now >= Timeout => now' >= Timeout
  BY ConstantsAssumption DEF TypeOK
<1> QED BY <1>1, <1>2 DEF Finished

LEMMA StepPast ==
  ASSUME TypeOK, ClockInv, DrainInv, PastInv, [Next]_vars PROVE PastInv'
<1> SUFFICES ASSUME Running', NEW i \in 1..Len(daemon.order), daemon' = daemon,
                    i < cur', daemon.order[i] \in Http
             PROVE  Finished(daemon.order[i])'
  <2>1. daemon' = daemon
    BY DEF Next, vars, Start, ListenFails, Notify, Signal, Check, Bind, ServeFails,
       ServeReturns, AcceptLoopReturns, Accept, NextRequest, Answer, TakeSignal,
       CloseListener, CallShutdown, CloseIdle, Drained, DeadlinePassed, Tick
  <2>2. Http' = Http
    BY <2>1 DEF Http, Own
  <2> QED BY <2>1, <2>2 DEF PastInv
<1> DEFINE p == daemon.order[i]
<1>a. p \in Servers /\ p \in Http
  BY Programs DEF TypeOK, Http
<1>b. TypeOK' /\ ClockInv'
  BY StepTypeOK, StepClock
<1>c. ASSUME i < cur PROVE Running => Finished(p)
  BY <1>c DEF PastInv
<1>1. CASE Start \/ ListenFails \/ Notify \/ Signal
  <2>1. CASE Start
    <3>1. now = 0 /\ main = "boot"
      BY <2>1 DEF Start, ClockInv, Running
    <3>2. i < cur /\ Running /\ srv'[p] # "serving"
      BY <2>1, <1>a DEF Start, TypeOK, Http
    <3> QED BY <2>1, <3>1, <3>2, <1>a, <1>b, <1>c, FinishedStays DEF Start, TypeOK, Finished
  <2>2. CASE ListenFails \/ Notify \/ Signal
    <3>1. UNCHANGED <<srv, conn, shut, now, cur>> /\ Running
      BY <2>2 DEF ListenFails, Notify, Signal, Exit, Running
    <3> QED BY <3>1, <1>c DEF Finished, Idle, Busy
  <2> QED BY <1>1, <2>1, <2>2
<1>2. ASSUME NEW s \in Servers,
             Check(s) \/ Bind(s) \/ ServeFails(s) \/ ServeReturns(s)
             \/ AcceptLoopReturns(s)
      PROVE  Finished(p)'
  <2>1. UNCHANGED <<conn, shut, now, cur>> /\ Running
    BY <1>2 DEF Check, Bind, ServeFails, ServeReturns, AcceptLoopReturns, Exit, Running
  <2>2. Finished(p)
    BY <2>1, <1>c
  <2>3. srv'[p] # "serving"
    BY <1>2, <2>2, <1>a
    DEF Check, Bind, ServeFails, ServeReturns, AcceptLoopReturns, TypeOK, Finished
  <2> QED BY <2>1, <2>2, <2>3 DEF Finished, Idle, Busy
<1>3. ASSUME NEW s \in Servers, NEW c \in Conns,
             Accept(s, c) \/ NextRequest(s, c) \/ Answer(s, c)
      PROVE  Finished(p)'
  <2>1. UNCHANGED <<srv, shut, now, cur>> /\ Running
    BY <1>3 DEF Accept, NextRequest, Answer
  <2>2. Finished(p)
    BY <2>1, <1>c
  <2>3. CASE Accept(s, c) \/ NextRequest(s, c)
    <3>1. s # p
      BY <2>2, <2>3 DEF Accept, NextRequest, Finished
    <3>2. [server |-> s, request |-> TRUE].server = s
      OBVIOUS
    <3>3. \A d \in Conns : conn'[d] \in {conn[d], None} \/ conn'[d].server # p
      BY <2>3, <3>1, <3>2 DEF Accept, NextRequest, TypeOK
    <3> QED BY <2>1, <2>2, <3>3, <1>a, <1>b, FinishedStays DEF TypeOK, Finished
  <2>4. CASE Answer(s, c)
    <3>1. s # p \/ s \in shut
      BY <2>2 DEF Finished
    <3>2. [server |-> s, request |-> FALSE].server = s
      OBVIOUS
    <3>3. \A d \in Conns : conn'[d] \in {conn[d], None} \/ conn'[d].server # p
      BY <2>4, <3>1, <3>2 DEF Answer, TypeOK
    <3> QED BY <2>1, <2>2, <3>3, <1>a, <1>b, FinishedStays DEF TypeOK, Finished
  <2> QED BY <1>3, <2>3, <2>4
<1>4. CASE TakeSignal \/ CallShutdown \/ Tick
  <2>1. UNCHANGED <<srv, conn, cur>> /\ Running /\ shut \subseteq shut'
        /\ now' >= now
    BY <1>4 DEF TakeSignal, CallShutdown, Tick, Draining, TypeOK
  <2>2. Finished(p)
    BY <2>1, <1>c
  <2> QED BY <2>1, <2>2, <1>a, <1>b, FinishedStays DEF TypeOK, Finished
<1>5. CASE CloseIdle
  <2>1. UNCHANGED <<srv, shut, now, cur>> /\ Running
        /\ \A d \in Conns : conn'[d] \in {conn[d], None}
    BY <1>5 DEF CloseIdle, Draining, WithoutIdle
  <2>2. Finished(p)
    BY <2>1, <1>c
  <2> QED BY <2>1, <2>2, <1>a, <1>b, FinishedStays DEF TypeOK, Finished
(* main goes on: what was current joins the servers that are finished.     *)
<1>6. CASE CloseListener
  <2>1. UNCHANGED <<srv, conn, now>> /\ Running /\ shut \subseteq shut'
        /\ cur' = cur + 1 /\ Current \notin Http
    BY <1>6 DEF CloseListener, Continue, Exit, Running, Http
  <2>2. Finished(p)
    BY <2>1, <1>a, <1>c DEF Current, TypeOK
  <2> QED BY <2>1, <2>2, <1>a, <1>b, FinishedStays DEF TypeOK, Finished
<1>7. CASE Drained \/ DeadlinePassed
  <2>1. /\ UNCHANGED <<srv, shut, now>> /\ Running /\ cur' = cur + 1
        /\ conn' = WithoutIdle /\ main = "drain" /\ srv[Current] # "serving"
    BY <1>7 DEF Drained, DeadlinePassed, Draining, Continue, Exit, Running
  <2>2. \A d \in Conns : conn'[d] \in {conn[d], None}
    BY <2>1 DEF WithoutIdle
  <2>3. CASE p = Current
    <3>1. Idle(p)' = {}
      <4>1. ASSUME NEW d \in Conns, conn'[d] = [server |-> p, request |-> FALSE]
            PROVE  FALSE
        <5>1. [server |-> p, request |-> FALSE] # None
          BY <1>a, NotNone
        <5>2. d \notin Idle(Current)
          BY <4>1, <5>1, <2>1 DEF WithoutIdle
        <5>3. conn'[d] = conn[d]
          BY <5>2, <2>1 DEF WithoutIdle
        <5> QED BY <4>1, <5>2, <5>3, <2>3 DEF Idle
      <4> QED BY <4>1 DEF Idle
    <3>2. Busy(p)' \subseteq Busy(p)
      <4>1. [server |-> p, request |-> TRUE] # None
        BY <1>a, NotNone
      <4> QED BY <2>2, <4>1 DEF Busy
    <3>3. Busy(p) = {} \/ now >= Timeout
      BY <1>7, <2>1, <2>3 DEF Drained, DeadlinePassed, ClockInv
    <3>4. p \in shut
      BY <2>1, <2>3 DEF DrainInv
    <3> QED BY <2>1, <2>3, <3>1, <3>2, <3>3, <3>4 DEF Finished
  <2>4. CASE p # Current
    <3>1. Finished(p)
      BY <2>1, <2>4, <1>c DEF Current, TypeOK
    <3> QED BY <2>1, <2>2, <3>1, <1>a, <1>b, FinishedStays DEF TypeOK, Finished
  <2> QED BY <2>3, <2>4
<1>8. CASE UNCHANGED vars
  BY <1>8, <1>c DEF vars, Running, Finished, Idle, Busy
<1> QED
  BY <1>1, <1>2, <1>3, <1>4, <1>5, <1>6, <1>7, <1>8 DEF Next

----------------------------------------------------------------------------
(* When main returns, all of its servers are finished, the last one by the *)
(* step that returns.                                                      *)
LEMMA ReturnLosesNothing ==
  ASSUME TypeOK, ClockInv, PastInv, Drained \/ DeadlinePassed, exit' # exit
  PROVE  exit' = "returned" /\ now' = now
         /\ (lost' = {} \/ now >= Timeout)
<1>1. /\ Running /\ main = "drain" /\ now' = now
      /\ Exit("returned") /\ ~(cur < Len(daemon.order))
  BY DEF Drained, DeadlinePassed, Draining, Continue
<1>2. lost' = UNION {Busy(s) : s \in Servers} /\ exit' = "returned"
  BY <1>1 DEF Exit
<1>3. ASSUME NEW s \in Servers, ~(now >= Timeout) PROVE Busy(s) = {}
  <2>1. CASE s \notin Http
    BY <2>1, ConnectedServer DEF Busy
  <2>2. CASE s \in Http
    <3>1. PICK i \in 1..Len(daemon.order) : daemon.order[i] = s
      BY <2>2, Programs DEF Http, TypeOK
    <3>2. CASE i < cur
      BY <3>1, <3>2, <2>2, <1>1, <1>3 DEF PastInv, Finished
    <3>3. CASE i = cur
      BY <3>1, <3>3, <1>1, <1>3 DEF Drained, DeadlinePassed, ClockInv, Current
    <3>4. i < cur \/ i = cur
      <4>1. Len(daemon.order) \in Nat
        BY Programs DEF TypeOK
      <4> QED BY <4>1, <1>1 DEF TypeOK
    <3> QED BY <3>2, <3>3, <3>4
  <2> QED BY <2>1, <2>2
<1> QED BY <1>1, <1>2, <1>3

LEMMA StepLoss ==
  ASSUME TypeOK, ClockInv, BootInv, PastInv, LossInv, [Next]_vars PROVE LossInv'
<1>1. ASSUME UNCHANGED <<exit, lost>>, Running PROVE LossInv'
  BY <1>1 DEF LossInv, LossExplained, Running
<1>2. CASE Signal
  <2>1. CASE UNCHANGED <<exit, lost>>
    BY <1>1, <1>2, <2>1 DEF Signal
  <2>2. CASE Exit("signal")
    BY <2>2 DEF Exit, LossInv, LossExplained, Running
  <2> QED BY <1>2, <2>1, <2>2 DEF Signal
<1>3. CASE ListenFails
  <2>1. exit' = "fatal" /\ lost' = UNION {Busy(s) : s \in Servers}
    BY <1>3 DEF ListenFails, Exit
  <2>2. \A s \in Servers : Busy(s) = {}
    BY <1>3, NotNone DEF ListenFails, BootInv, Busy
  <2> QED BY <2>1, <2>2 DEF LossInv, LossExplained, Running
<1>4. ASSUME NEW s \in Servers, ServeFails(s) PROVE LossInv'
  <2>1. s \in Http' /\ srv'[s] = "failed" /\ exit' = "fatal"
    BY <1>4 DEF ServeFails, Exit, TypeOK, Http, Own
  <2> QED BY <2>1 DEF LossInv, LossExplained, Running
<1>5. CASE CloseListener
  <2>1. cur < Len(daemon.order)
    <3>1. cur # Len(daemon.order)
      BY <1>5, Programs DEF CloseListener, Current, Http, TypeOK
    <3>2. Len(daemon.order) \in Nat
      BY Programs DEF TypeOK
    <3> QED BY <3>1, <3>2 DEF TypeOK
  <2> QED BY <1>1, <1>5, <2>1 DEF CloseListener, Continue
<1>6. CASE Drained \/ DeadlinePassed
  <2>1. CASE exit' # exit
    <3>1. exit' = "returned" /\ now' = now /\ (lost' = {} \/ now >= Timeout)
      BY <1>6, <2>1, ReturnLosesNothing
    <3> QED BY <3>1 DEF LossInv, LossExplained, Running
  <2>2. CASE exit' = exit
    <3>1. UNCHANGED <<exit, lost>> /\ Running
      BY <1>6, <2>2 DEF Drained, DeadlinePassed, Draining, Continue, Exit, Running
    <3> QED BY <1>1, <3>1
  <2> QED BY <2>1, <2>2
<1>7. ASSUME NEW s \in Servers,
             Check(s) \/ Bind(s) \/ ServeReturns(s) \/ AcceptLoopReturns(s)
      PROVE  LossInv'
  BY <1>1, <1>7 DEF Check, Bind, ServeReturns, AcceptLoopReturns
<1>8. ASSUME NEW s \in Servers, NEW c \in Conns,
             Accept(s, c) \/ NextRequest(s, c) \/ Answer(s, c)
      PROVE  LossInv'
  BY <1>1, <1>8 DEF Accept, NextRequest, Answer
<1>9. CASE Start \/ Notify \/ TakeSignal \/ CallShutdown \/ CloseIdle \/ Tick
  BY <1>1, <1>9 DEF Start, Notify, TakeSignal, CallShutdown, CloseIdle, Tick, Draining
<1>10. CASE UNCHANGED vars
  BY <1>10 DEF vars, LossInv, LossExplained, Running, Http, Own
<1> QED
  BY <1>2, <1>3, <1>4, <1>5, <1>6, <1>7, <1>8, <1>9, <1>10 DEF Next

LEMMA StepIInv == IInv /\ [Next]_vars => IInv'
BY StepTypeOK, StepClock, StepBoot, StepPast, StepDrain, StepLoss, StepServing DEF IInv

----------------------------------------------------------------------------
(* Whatever servers, clients and signals do, the inductive invariant holds.*)
THEOREM Invariance == Spec => []IInv
BY InitIInv, StepIInv, PTL DEF Spec

(* Every reachable state of a daemon is well typed.                        *)
THEOREM TypeCorrect == Spec => []TypeOK
BY Invariance, PTL DEF IInv

(* The process is gone one Timeout after the signal was taken.             *)
THEOREM ExitsByDeadline == Spec => []ExitByDeadline
<1>1. IInv => ExitByDeadline
  BY ConstantsAssumption DEF IInv, TypeOK, ClockInv, ExitByDeadline
<1> QED BY Invariance, <1>1, PTL

(* A request is cut off for one of the three reasons only.                 *)
THEOREM LossesExplained == Spec => []LossExplained
BY Invariance, PTL DEF IInv, LossInv

(* A running process has all of its HTTP servers.                          *)
THEOREM NeverHalfAlive == Spec => []AllOrNothing
BY Invariance, PTL DEF IInv
----------------------------------------------------------------------------
(* What main has still to do once it has taken the signal: the servers     *)
(* after this one, the call of this one, and the time to the deadline.     *)
Remaining ==
  2 * (Len(daemon.order) - cur) + (IF main = "call" THEN 1 ELSE 0) + (Timeout - now)

CountsDown ==
  [][(main \in {"call", "drain"} /\ <<main, cur, now>>' # <<main, cur, now>>)
       => \/ main' = "over"
          \/ Remaining > 0 /\ Remaining' < Remaining]_vars
LEMMA StepRemaining ==
  ASSUME IInv, Next, main \in {"call", "drain"},
         <<main, cur, now>>' # <<main, cur, now>>, main' # "over"
  PROVE  Remaining > 0 /\ Remaining' < Remaining
<1> DEFINE n == Len(daemon.order)
<1> USE ConstantsAssumption DEF IInv, TypeOK
<1>1. /\ n \in Nat /\ cur \in 1..n /\ now \in Nat /\ Timeout \in Nat
      /\ Running => now <= Timeout /\ deadline = Timeout
  BY Programs DEF ClockInv
<1>2. ASSUME NEW left, Running, Continue(left), now' = now, daemon' = daemon
      PROVE  Remaining > 0 /\ Remaining' < Remaining
  <2>1. cur < n /\ cur' = cur + 1 /\ main' = "call"
    BY <1>2 DEF Continue, Exit
  <2>2. n' = n /\ n >= cur + 1
    BY <1>1, <1>2, <2>1
  <2>3. Remaining = 2 * (n - cur) + (IF main = "call" THEN 1 ELSE 0) + (Timeout - now)
    BY DEF Remaining
  <2>4. Remaining' = 2 * (n - (cur + 1)) + 1 + (Timeout - now)
    BY <1>2, <2>1 DEF Remaining
  <2> HIDE DEF n
  <2> QED BY <1>1, <1>2, <2>2, <2>3, <2>4
<1>3. CASE CloseListener \/ Drained \/ DeadlinePassed
  BY <1>2, <1>3 DEF CloseListener, Drained, DeadlinePassed, Draining
<1>4. CASE CallShutdown
  BY <1>1, <1>4 DEF CallShutdown, Remaining
<1>5. CASE Tick
  <2>1. now < Timeout /\ now' = now + 1 /\ UNCHANGED <<main, cur, daemon>>
    BY <1>1, <1>5 DEF Tick, Draining
  <2>2. Remaining = 2 * (n - cur) + (IF main = "call" THEN 1 ELSE 0) + (Timeout - now)
    BY DEF Remaining
  <2>3. Remaining' = 2 * (n - cur) + (IF main = "call" THEN 1 ELSE 0) + (Timeout - (now + 1))
    BY <2>1 DEF Remaining
  <2> HIDE DEF n
  <2> QED BY <1>1, <2>1, <2>2, <2>3
<1>6. CASE Start \/ ListenFails \/ Notify \/ TakeSignal
  BY <1>6 DEF Start, ListenFails, Notify, TakeSignal
<1>7. CASE Signal \/ CloseIdle
  BY <1>7 DEF Signal, CloseIdle
<1>8. ASSUME NEW s \in Servers,
             Check(s) \/ Bind(s) \/ ServeFails(s) \/ ServeReturns(s) \/ AcceptLoopReturns(s)
      PROVE  FALSE
  BY <1>8 DEF Check, Bind, ServeFails, ServeReturns, AcceptLoopReturns, Exit
<1>9. ASSUME NEW s \in Servers, NEW c \in Conns,
             Accept(s, c) \/ NextRequest(s, c) \/ Answer(s, c)
      PROVE  FALSE
  BY <1>9 DEF Accept, NextRequest, Answer
<1> QED BY <1>3, <1>4, <1>5, <1>6, <1>7, <1>8, <1>9 DEF Next

(* The safety half of SignalEnds: once main has taken the signal, every    *)
(* step of it, and every unit of time, brings the end of the process       *)
(* nearer; no client, handler or further signal sets it back or moves the  *)
(* deadline.                                                               *)
THEOREM ShutdownCountsDown == Spec => CountsDown
<1>1. IInv /\ [Next]_vars =>
        [(main \in {"call", "drain"} /\ <<main, cur, now>>' # <<main, cur, now>>)
           => \/ main' = "over"
              \/ Remaining > 0 /\ Remaining' < Remaining]_vars
  BY StepRemaining
<1> QED BY Invariance, <1>1, PTL DEF Spec, CountsDown
=============================================================================
