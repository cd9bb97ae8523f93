-------------------------- MODULE ScoreboardClient --------------------------
(***************************************************************************)
(* The live scoreboard's WebSocket hook, frontend/src/hooks/useScoreboard. *)
(* One mount of a component that uses the hook is a member of Mounts: it   *)
(* has its own refs and state.  The browser runs one task at a time; an    *)
(* action is such a task (an effect, a timer, a socket event), so the      *)
(* interleavings are those of the event loop.                              *)
(*                                                                         *)
(* Closing a socket is asynchronous: close() only moves it to CLOSING, and *)
(* onclose runs in a later task, after whatever came in between.  The      *)
(* closures of a socket and of a timer keep the event id they were made    *)
(* with.  Sockets are numbered and their numbers reused once nothing       *)
(* refers to them; so are timers.                                          *)
(***************************************************************************)
EXTENDS Integers, FiniteSets

CONSTANTS
  Mounts,      \* mounts of the component, one after the other
  Events,      \* event ids the page may pass to the hook
  None,        \* a ref that holds nothing
  Sockets,     \* bound: names of sockets in use at once
  Timers,      \* bound: names of timers in use at once
  MaxCleanups, \* bound: reruns of the effect of one mount
  Saturated    \* the attempt from which the delay no longer grows

ASSUME ScoreboardAssumption ==
  /\ None \notin Sockets \cup Timers \cup Events
  /\ {MaxCleanups, Saturated} \subseteq Nat
  /\ IsFiniteSet(Sockets) /\ IsFiniteSet(Timers)

VARIABLES
  token,       \* localStorage has an orchi_token
  crashed,     \* React has removed the page after an effect threw
  event,       \* per mount: the event id shown, None when not on screen
  cleanups,    \* per mount: how often its effect was cleaned up
  threw,       \* per mount: a connect() has thrown
  isConnected, \* per mount: the React state
  wsRef,       \* per mount: wsRef.current
  timerRef,    \* per mount: reconnectTimeoutRef.current
  attempts,    \* per mount: reconnectAttempts.current
  socket,      \* per socket: owner, event id and readyState
  timer        \* per timer: owner and event id of its connect, when pending

vars == <<token, crashed, event, cleanups, threw, isConnected, wsRef, timerRef, attempts,
          socket, timer>>

Unused == [owner |-> None, event |-> None, state |-> "closed"]
Idle == [owner |-> None, event |-> None]

Live(s) == socket[s].state \in {"connecting", "open"}
SocketsOf(m) == {s \in Sockets : socket[s].owner = m}
Pending == {t \in Timers : timer[t] # Idle}

(* Names that nothing refers to.  The id of a timer that has fired is      *)
(* forgotten in timerRef: clearing it does nothing.                        *)
FreeSockets ==
  {s \in Sockets : socket[s] = Unused /\ \A m \in Mounts : wsRef[m] # s}
FreeTimers == Timers \ Pending
Forgotten(ref, t) == [m \in Mounts |-> IF ref[m] = t THEN None ELSE ref[m]]

(* The delay is min(1000 * 2^n, 30000) ms for attempt n: it stops growing  *)
(* at Saturated (the fifth), and so does what is worth remembering of n.   *)
(* Variant: the delay is not capped.                                       *)
NextAttemptUncapped(n) == n + 1
NextAttempt(n) == IF n < Saturated THEN n + 1 ELSE n

----------------------------------------------------------------------------
(* Variant: connect() keeps whatever socket the ref holds, open or not.    *)
ConnectUnlessHeld(m, e, ss, ref) ==
  IF ref # None \/ ~token
    THEN /\ threw' = [threw EXCEPT ![m] = @ \/ ref = None]
         /\ socket' = ss
         /\ wsRef' = [wsRef EXCEPT ![m] = ref]
    ELSE \E s \in FreeSockets :
           /\ socket' = [ss EXCEPT ![s] =
                [owner |-> m, event |-> e, state |-> "connecting"]]
           /\ wsRef' = [wsRef EXCEPT ![m] = s]
           /\ UNCHANGED threw

(* connect() of mount m made for event e, on sockets ss with wsRef.current *)
(* = ref.  It keeps an OPEN socket; it throws without a token, because an  *)
(* empty subprotocol is a SyntaxError; otherwise it opens a socket.        *)
Connect(m, e, ss, ref) ==
  IF ref # None /\ ss[ref].state = "open"
    THEN /\ socket' = ss
         /\ wsRef' = [wsRef EXCEPT ![m] = ref]
         /\ UNCHANGED threw
    ELSE IF ~token
      THEN /\ threw' = [threw EXCEPT ![m] = TRUE]
           /\ socket' = ss
           /\ wsRef' = [wsRef EXCEPT ![m] = ref]
      ELSE \E s \in FreeSockets \ {ref} :
             /\ socket' = [ss EXCEPT ![s] =
                  [owner |-> m, event |-> e, state |-> "connecting"]]
             /\ wsRef' = [wsRef EXCEPT ![m] = s]
             /\ UNCHANGED threw

(* disconnect(): clears the timer it remembers and closes the socket it    *)
(* remembers; onclose stays attached.                                      *)
ClosedBy(m) ==
  IF wsRef[m] # None /\ Live(wsRef[m])
    THEN [socket EXCEPT ![wsRef[m]].state = "closing"]
    ELSE socket
ClearedBy(m) ==
  IF timerRef[m] # None THEN [timer EXCEPT ![timerRef[m]] = Idle] ELSE timer

----------------------------------------------------------------------------
Init ==
  /\ token = TRUE
  /\ crashed = FALSE
  /\ event = [m \in Mounts |-> None]
  /\ cleanups = [m \in Mounts |-> 0]
  /\ threw = [m \in Mounts |-> FALSE]
  /\ isConnected = [m \in Mounts |-> FALSE]
  /\ wsRef = [m \in Mounts |-> None]
  /\ timerRef = [m \in Mounts |-> None]
  /\ attempts = [m \in Mounts |-> 0]
  /\ socket = [s \in Sockets |-> Unused]
  /\ timer = [t \in Timers |-> Idle]

(* The effect of m has run connect() with an empty wsRef: it throws without *)
(* a token, and as no error boundary catches that, the page is removed.    *)
AfterEffect(m, e) ==
  /\ event' = [event EXCEPT ![m] = IF token THEN e ELSE None]
  /\ crashed' = ~token

(* The page is shown: the effect connects.                                 *)
Mount(m, e) ==
  /\ ~crashed
  /\ \A n \in Mounts : event[n] = None
  /\ cleanups[m] = 0
  /\ AfterEffect(m, e)
  /\ Connect(m, e, socket, wsRef[m])
  /\ UNCHANGED <<token, cleanups, isConnected, timerRef, attempts, timer>>

(* The effect runs again, for another event id or because StrictMode       *)
(* remounts: the cleanup disconnects, then the effect connects.            *)
RunEffectAgain(m, e) ==
  /\ event[m] # None
  /\ cleanups[m] < MaxCleanups
  /\ cleanups' = [cleanups EXCEPT ![m] = @ + 1]
  /\ AfterEffect(m, e)
  /\ isConnected' = [isConnected EXCEPT ![m] = FALSE]
  /\ timer' = ClearedBy(m)
  /\ timerRef' = [timerRef EXCEPT ![m] = None]
  /\ Connect(m, e, ClosedBy(m), None)
  /\ UNCHANGED <<token, attempts>>

(* The page is left: the cleanup disconnects.                              *)
Unmount(m) ==
  /\ event[m] # None
  /\ event' = [event EXCEPT ![m] = None]
  /\ cleanups' = [cleanups EXCEPT ![m] = @ + 1]
  /\ isConnected' = [isConnected EXCEPT ![m] = FALSE]
  /\ timer' = ClearedBy(m)
  /\ timerRef' = [timerRef EXCEPT ![m] = None]
  /\ socket' = ClosedBy(m)
  /\ wsRef' = [wsRef EXCEPT ![m] = None]
  /\ UNCHANGED <<token, crashed, threw, attempts>>

(* The handshake succeeds: onopen.                                         *)
OnOpen(s) ==
  LET m == socket[s].owner IN
  /\ socket[s].state = "connecting"
  /\ socket' = [socket EXCEPT ![s].state = "open"]
  /\ isConnected' = [isConnected EXCEPT ![m] = TRUE]
  /\ attempts' = [attempts EXCEPT ![m] = 0]
  /\ UNCHANGED <<token, crashed, event, cleanups, threw, wsRef, timerRef, timer>>

(* Variant: onclose does not reset the indicator.                          *)
OnCloseKeepingState(s) ==
  LET m == socket[s].owner IN
  /\ socket[s].state \in {"connecting", "open", "closing"}
  /\ socket' = [socket EXCEPT ![s] = Unused]
  /\ attempts' = [attempts EXCEPT ![m] = NextAttempt(@)]
  /\ \E t \in FreeTimers :
       /\ timer' = [timer EXCEPT ![t] = [owner |-> m, event |-> socket[s].event]]
       /\ timerRef' = [timerRef EXCEPT ![m] = t]
  /\ UNCHANGED <<token, crashed, event, cleanups, threw, isConnected, wsRef>>

(* The socket has closed: refused, dropped, or after close().  The error   *)
(* event that precedes a failure only calls close() again.                 *)
OnClose(s) ==
  LET m == socket[s].owner IN
  /\ socket[s].state \in {"connecting", "open", "closing"}
  /\ socket' = [socket EXCEPT ![s] = Unused]
  /\ isConnected' = [isConnected EXCEPT ![m] = FALSE]
  /\ attempts' = [attempts EXCEPT ![m] = NextAttempt(@)]
  /\ \E t \in FreeTimers :
       /\ timer' = [timer EXCEPT ![t] = [owner |-> m, event |-> socket[s].event]]
       /\ timerRef' = [timerRef EXCEPT ![m] = t]
  /\ UNCHANGED <<token, crashed, event, cleanups, threw, wsRef>>

(* Variant: setInterval instead of setTimeout.                             *)
OnTimerRepeated(t) ==
  LET m == timer[t].owner IN
  /\ timer[t] # Idle
  /\ Connect(m, timer[t].event, socket, wsRef[m])
  /\ UNCHANGED <<token, crashed, event, cleanups, isConnected, attempts, timer,
                 timerRef>>

(* The reconnect timer fires.                                              *)
OnTimer(t) ==
  LET m == timer[t].owner IN
  /\ timer[t] # Idle
  /\ timer' = [timer EXCEPT ![t] = Idle]
  /\ timerRef' = Forgotten(timerRef, t)
  /\ Connect(m, timer[t].event, socket, wsRef[m])
  /\ UNCHANGED <<token, crashed, event, cleanups, isConnected, attempts>>

(* Another tab signs out or in again: the token goes or comes back.        *)
ToggleToken ==
  /\ token' = ~token
  /\ UNCHANGED <<crashed, event, cleanups, threw, isConnected, wsRef, timerRef,
                 attempts, socket, timer>>

Next ==
  \/ \E m \in Mounts, e \in Events : Mount(m, e) \/ RunEffectAgain(m, e)
  \/ \E m \in Mounts : Unmount(m)
  \/ \E s \in Sockets : OnOpen(s) \/ OnClose(s)
  \/ \E t \in Timers : OnTimer(t)
  \/ ToggleToken

Spec == Init /\ [][Next]_vars

----------------------------------------------------------------------------
(* Properties.                                                             *)

(* The state is well typed, and the backoff stays within its cap.          *)
TypeOK ==
  /\ token \in BOOLEAN /\ crashed \in BOOLEAN
  /\ event \in [Mounts -> Events \cup {None}]
  /\ wsRef \in [Mounts -> Sockets \cup {None}]
  /\ timerRef \in [Mounts -> Timers \cup {None}]
  /\ attempts \in [Mounts -> 0..Saturated]
  /\ isConnected \in [Mounts -> BOOLEAN]

(* A chain of m is a socket whose onclose is still to come, or a timer     *)
(* that will connect.                                                      *)
Chains(m) ==
  Cardinality({s \in SocketsOf(m) : socket[s].state # "closed"}) +
  Cardinality({t \in Pending : timer[t].owner = m})

(* While the page is shown, reconnecting never stops for good: a socket is *)
(* alive or closing, or a timer is pending, unless connect() has thrown.   *)
KeepsTrying ==
  \A m \in Mounts : event[m] # None /\ ~threw[m] => Chains(m) > 0

(* Each run of the effect starts at most one chain, and a chain never      *)
(* forks: the reconnects of a mount do not multiply by themselves.         *)
ChainsBounded ==
  \A m \in Mounts :
    Chains(m) <= cleanups[m] + (IF event[m] # None THEN 1 ELSE 0)

(* The indicator says Live only while some socket of the page is open; on  *)
(* a page whose effect ran once it says so exactly then.                   *)
LiveMeansOpen ==
  \A m \in Mounts :
    LET anOpen == \E s \in SocketsOf(m) : socket[s].state = "open" IN
    /\ isConnected[m] => anOpen
    /\ (event[m] # None /\ cleanups[m] = 0) => (anOpen => isConnected[m])

(* Comment, useScoreboard.ts:21: automatic reconnection.  A page shown to  *)
(* a signed in user would have a connection or an attempt under way.       *)
AlwaysReconnects ==
  \A m \in Mounts : event[m] # None /\ token => Chains(m) > 0
=============================================================================
