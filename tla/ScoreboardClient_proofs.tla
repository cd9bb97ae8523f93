---------------------- MODULE ScoreboardClient_proofs ----------------------
(***************************************************************************)
(* Proofs about ScoreboardClient, for any mounts and events, any number of *)
(* reruns of an effect, and any finite number of sockets and timers.       *)
(***************************************************************************)
EXTENDS ScoreboardClient, FiniteSetTheorems, TLAPS

States == {"connecting", "open", "closing"}
InUse == [owner : Mounts, event : Events, state : States]
Armed == [owner : Mounts, event : Events]

StateInv ==
  /\ TypeOK
  /\ cleanups \in [Mounts -> Nat]
  /\ threw \in [Mounts -> BOOLEAN]
  /\ socket \in [Sockets -> InUse \cup {Unused}]
  /\ timer \in [Timers -> Armed \cup {Idle}]

(* A socket that is held by a mount is its own, unless it is closed: names *)
(* are reused only when nobody holds them.                                 *)
RefInv ==
  \A m \in Mounts : wsRef[m] # None /\ socket[wsRef[m]].state # "closed"
                    => socket[wsRef[m]].owner = m

(* The timer that a mount remembers is pending and its own: what fires is  *)
(* forgotten, and what is cleared too.                                     *)
TimerInv ==
  \A m \in Mounts : timerRef[m] # None
                    => timer[timerRef[m]] # Idle /\ timer[timerRef[m]].owner = m

IInv == StateInv /\ RefInv /\ TimerInv

----------------------------------------------------------------------------
(* The sockets and the timers that count as chains of m.                   *)
Sockets_(m) == {s \in SocketsOf(m) : socket[s].state # "closed"}
Timers_(m) == {t \in Pending : timer[t].owner = m}

LEMMA UnusedIsClosed ==
  /\ Unused.state = "closed" /\ Unused \notin InUse
  /\ \A x \in InUse : x.state # "closed"
BY DEF Unused, InUse, States

LEMMA IdleIsNotArmed == Idle \notin Armed
<1>1. Idle.event = None
  BY DEF Idle
<1> QED BY <1>1, ScoreboardAssumption DEF Armed

(* A change of readyState leaves owner and event alone.                    *)
LEMMA StateSet ==
  ASSUME StateInv, NEW s \in Sockets, socket[s] \in InUse, NEW st \in States
  PROVE  LET after == [socket EXCEPT ![s].state = st] IN
         /\ after \in [Sockets -> InUse \cup {Unused}]
         /\ after[s] = [owner |-> socket[s].owner, event |-> socket[s].event,
                        state |-> st]
         /\ \A q \in Sockets \ {s} : after[q] = socket[q]
<1> DEFINE new == [owner |-> socket[s].owner, event |-> socket[s].event, state |-> st]
           after == [socket EXCEPT ![s].state = st]
<1>1. new \in InUse
  BY DEF InUse
<1>2. [socket[s] EXCEPT !.state = st] = new
  BY DEF InUse
<1>3. after = [socket EXCEPT ![s] = new]
  BY <1>2, Zenon
<1> HIDE DEF after
<1>4. after \in [Sockets -> InUse \cup {Unused}] /\ after[s] = new
      /\ \A q \in Sockets \ {s} : after[q] = socket[q]
  BY <1>1, <1>3 DEF StateInv
<1> QED BY <1>4 DEF after

LEMMA InitIInv == Init => IInv
<1> SUFFICES ASSUME Init PROVE IInv
  OBVIOUS
<1>0. Saturated \in Nat
  BY ScoreboardAssumption
<1>1. TypeOK
  <2>1. attempts \in [Mounts -> 0..Saturated] /\ isConnected \in [Mounts -> BOOLEAN]
    BY <1>0 DEF Init
  <2>2. /\ token \in BOOLEAN /\ crashed \in BOOLEAN
        /\ event \in [Mounts -> Events \cup {None}]
        /\ wsRef \in [Mounts -> Sockets \cup {None}]
        /\ timerRef \in [Mounts -> Timers \cup {None}]
    BY DEF Init
  <2> QED BY <2>1, <2>2 DEF TypeOK
<1>2. StateInv
  BY <1>1 DEF Init, StateInv
<1> QED BY <1>2 DEF IInv, Init, RefInv, TimerInv

(* What disconnect() does to the sockets: at most the one of m that it     *)
(* holds goes from live to closing.                                        *)
SameSockets(ss) ==
  /\ ss \in [Sockets -> InUse \cup {Unused}]
  /\ \A q \in Sockets : /\ ss[q].owner = socket[q].owner
                        /\ ss[q].state = "closed" <=> socket[q].state = "closed"
                        /\ socket[q] = Unused => ss[q] = Unused

LEMMA Unchanged == ASSUME StateInv PROVE SameSockets(socket)
BY DEF SameSockets, StateInv

LEMMA ClosedBySame ==
  ASSUME IInv, NEW m \in Mounts
  PROVE  /\ SameSockets(ClosedBy(m))
         /\ \A q \in Sockets : socket[q].owner # m => ClosedBy(m)[q] = socket[q]
<1>1. CASE wsRef[m] # None /\ Live(wsRef[m])
  <2> DEFINE s == wsRef[m]
  <2>1. s \in Sockets /\ socket[s] \in InUse /\ socket[s].owner = m
    BY <1>1, UnusedIsClosed DEF IInv, StateInv, TypeOK, RefInv, Live
  <2>2. ClosedBy(m) = [socket EXCEPT ![s].state = "closing"]
    BY <1>1 DEF ClosedBy
  <2>3. StateInv /\ "closing" \in States
    BY DEF IInv, States
  <2>4. /\ ClosedBy(m) \in [Sockets -> InUse \cup {Unused}]
        /\ ClosedBy(m)[s] = [owner |-> socket[s].owner, event |-> socket[s].event,
                             state |-> "closing"]
        /\ \A q \in Sockets \ {s} : ClosedBy(m)[q] = socket[q]
    BY <2>1, <2>2, <2>3, StateSet
  <2>5. ClosedBy(m)[s].owner = socket[s].owner /\ ClosedBy(m)[s].state = "closing"
        /\ socket[s].state # "closed" /\ socket[s] # Unused
    BY <2>1, <2>4, UnusedIsClosed
  <2> QED BY <2>1, <2>4, <2>5 DEF SameSockets
<1>2. CASE ~(wsRef[m] # None /\ Live(wsRef[m]))
  <2>1. ClosedBy(m) = socket
    BY <1>2 DEF ClosedBy
  <2> QED BY <2>1, Unchanged DEF IInv
<1> QED BY <1>1, <1>2

(* The same for the timers: at most the one that m remembers is cleared.   *)
LEMMA ClearedByOwn ==
  ASSUME IInv, NEW m \in Mounts
  PROVE  /\ ClearedBy(m) \in [Timers -> Armed \cup {Idle}]
         /\ \A t \in Timers : \/ ClearedBy(m)[t] = timer[t]
                              \/ ClearedBy(m)[t] = Idle /\ timer[t].owner = m
         /\ \A n \in Mounts \ {m} : timerRef[n] # None
              => ClearedBy(m)[timerRef[n]] = timer[timerRef[n]]
BY DEF ClearedBy, IInv, StateInv, TypeOK, TimerInv

(* What connect() does for m, from sockets that are like the current ones. *)
LEMMA ConnectEffect ==
  ASSUME IInv, NEW m \in Mounts, NEW e \in Events, NEW ss, SameSockets(ss),
         NEW ref \in {wsRef[m], None}, Connect(m, e, ss, ref)
  PROVE  /\ socket' \in [Sockets -> InUse \cup {Unused}]
         /\ wsRef' \in [Mounts -> Sockets \cup {None}]
         /\ threw' \in [Mounts -> BOOLEAN]
         /\ \A n \in Mounts : threw[n] => threw'[n]
         /\ RefInv'
         /\ \A q \in Sockets : \/ socket'[q] = ss[q]
                               \/ /\ socket[q] = Unused /\ socket'[q] \in InUse
                                  /\ socket'[q].owner = m
                                  /\ socket'[q].state = "connecting"
         /\ \A q, r \in Sockets : socket'[q] # ss[q] /\ socket'[r] # ss[r] => q = r
         /\ ~token => socket' = ss
         /\ \/ threw'[m]
            \/ \E q \in Sockets : /\ socket'[q].owner = m
                                  /\ socket'[q].state # "closed"
<1> USE DEF IInv, StateInv, SameSockets
<1>0. wsRef \in [Mounts -> Sockets \cup {None}] /\ ref \in Sockets \cup {None}
      /\ None \notin Sockets
  BY ScoreboardAssumption DEF TypeOK
<1>1. ASSUME socket' = ss /\ wsRef' = [wsRef EXCEPT ![m] = ref]
      PROVE  RefInv' /\ wsRef' \in [Mounts -> Sockets \cup {None}]
  BY <1>0, <1>1 DEF RefInv
<1>3. CASE /\ socket' = ss /\ wsRef' = [wsRef EXCEPT ![m] = ref]
           /\ ref # None /\ ss[ref].state = "open" /\ UNCHANGED threw
  <2>1. ref = wsRef[m] /\ ref \in Sockets
    BY <1>0, <1>3
  <2>2. ss[ref].owner = m
    BY <1>3, <2>1 DEF RefInv
  <2> QED BY <1>1, <1>3, <2>1, <2>2
<1>4. CASE /\ socket' = ss /\ wsRef' = [wsRef EXCEPT ![m] = ref]
           /\ threw' = [threw EXCEPT ![m] = TRUE]
  <2>1. threw' \in [Mounts -> BOOLEAN] /\ threw'[m]
        /\ \A n \in Mounts : threw[n] => threw'[n]
    BY <1>4
  <2> QED BY <1>1, <1>4, <2>1
<1>2. CASE /\ token /\ UNCHANGED threw
           /\ \E s \in FreeSockets \ {ref} :
                /\ socket' = [ss EXCEPT ![s] =
                     [owner |-> m, event |-> e, state |-> "connecting"]]
                /\ wsRef' = [wsRef EXCEPT ![m] = s]
  <2> DEFINE new == [owner |-> m, event |-> e, state |-> "connecting"]
  <2>1. PICK s \in FreeSockets : socket' = [ss EXCEPT ![s] = new]
                                 /\ wsRef' = [wsRef EXCEPT ![m] = s]
    BY <1>2
  <2>2. /\ s \in Sockets /\ socket[s] = Unused /\ ss[s] = Unused
        /\ \A n \in Mounts : wsRef[n] # s
    BY <2>1 DEF FreeSockets
  <2>3. new \in InUse /\ new.owner = m /\ new.state = "connecting"
    BY DEF InUse, States
  <2> HIDE DEF new
  <2>4. socket' \in [Sockets -> InUse \cup {Unused}] /\ socket'[s] = new
        /\ \A q \in Sockets \ {s} : socket'[q] = ss[q]
    BY <2>1, <2>2, <2>3
  <2>5. wsRef' \in [Mounts -> Sockets \cup {None}] /\ wsRef'[m] = s
        /\ \A n \in Mounts \ {m} : wsRef'[n] = wsRef[n]
    BY <1>0, <2>1, <2>2
  <2>6. RefInv'
    <3> SUFFICES ASSUME NEW n \in Mounts, wsRef'[n] # None,
                        socket'[wsRef'[n]].state # "closed"
                 PROVE  socket'[wsRef'[n]].owner = n
      BY DEF RefInv
    <3>1. CASE n = m
      BY <2>3, <2>4, <2>5, <3>1
    <3>2. CASE n # m
      <4>1. wsRef'[n] = wsRef[n] /\ wsRef[n] \in Sockets \ {s}
        BY <1>0, <2>2, <2>5, <3>2
      <4> QED BY <2>4, <4>1 DEF RefInv
    <3> QED BY <3>1, <3>2
  <2> QED BY <1>2, <2>2, <2>3, <2>4, <2>5, <2>6
<1> QED BY <1>2, <1>3, <1>4 DEF Connect

(* A pending timer and a socket in use name a mount and an event.          *)
LEMMA Typed ==
  ASSUME StateInv
  PROVE  /\ \A s \in Sockets : socket[s].state # "closed" => socket[s] \in InUse
         /\ \A s \in Sockets : socket[s] \in InUse =>
              /\ socket[s].owner \in Mounts /\ socket[s].event \in Events
              /\ socket[s].state \in States
         /\ \A t \in Timers : timer[t] # Idle =>
              /\ timer[t] \in Armed
              /\ timer[t].owner \in Mounts /\ timer[t].event \in Events
BY UnusedIsClosed DEF StateInv, InUse, Armed

LEMMA MountKeeps ==
  ASSUME IInv, NEW m \in Mounts, NEW e \in Events, Mount(m, e) PROVE IInv'
<1> USE DEF IInv
<1>1. /\ Connect(m, e, socket, wsRef[m]) /\ AfterEffect(m, e)
      /\ UNCHANGED <<token, cleanups, isConnected, timerRef, attempts, timer>>
  BY DEF Mount
<1>2. /\ socket' \in [Sockets -> InUse \cup {Unused}]
      /\ wsRef' \in [Mounts -> Sockets \cup {None}]
      /\ threw' \in [Mounts -> BOOLEAN] /\ RefInv'
  BY <1>1, Unchanged, ConnectEffect
<1>3. event' \in [Mounts -> Events \cup {None}] /\ crashed' \in BOOLEAN
  BY <1>1 DEF AfterEffect, StateInv, TypeOK
<1>4. StateInv'
  BY <1>1, <1>2, <1>3 DEF StateInv, TypeOK
<1>5. TimerInv'
  BY <1>1 DEF TimerInv
<1> QED BY <1>2, <1>4, <1>5

LEMMA RunEffectAgainKeeps ==
  ASSUME IInv, NEW m \in Mounts, NEW e \in Events, RunEffectAgain(m, e) PROVE IInv'
<1> USE DEF IInv
<1>1. /\ Connect(m, e, ClosedBy(m), None) /\ AfterEffect(m, e)
      /\ cleanups' = [cleanups EXCEPT ![m] = @ + 1]
      /\ isConnected' = [isConnected EXCEPT ![m] = FALSE]
      /\ timer' = ClearedBy(m) /\ timerRef' = [timerRef EXCEPT ![m] = None]
      /\ UNCHANGED <<token, attempts>>
  BY DEF RunEffectAgain
<1>2. /\ socket' \in [Sockets -> InUse \cup {Unused}]
      /\ wsRef' \in [Mounts -> Sockets \cup {None}]
      /\ threw' \in [Mounts -> BOOLEAN] /\ RefInv'
  BY <1>1, ClosedBySame, ConnectEffect
<1>3. event' \in [Mounts -> Events \cup {None}] /\ crashed' \in BOOLEAN
  BY <1>1 DEF AfterEffect, StateInv, TypeOK
<1>4. timer' \in [Timers -> Armed \cup {Idle}]
      /\ timerRef' \in [Mounts -> Timers \cup {None}]
  BY <1>1, ClearedByOwn DEF StateInv, TypeOK
<1>5. cleanups' \in [Mounts -> Nat]
  BY <1>1 DEF StateInv
<1>6. isConnected' \in [Mounts -> BOOLEAN]
  BY <1>1 DEF StateInv, TypeOK
<1>7. StateInv'
  BY <1>1, <1>2, <1>3, <1>4, <1>5, <1>6 DEF StateInv, TypeOK
<1>8. TimerInv'
  BY <1>1, ClearedByOwn DEF TimerInv, StateInv, TypeOK
<1> QED BY <1>2, <1>7, <1>8

LEMMA UnmountKeeps == ASSUME IInv, NEW m \in Mounts, Unmount(m) PROVE IInv'
<1> USE DEF IInv
<1>1. /\ event' = [event EXCEPT ![m] = None]
      /\ cleanups' = [cleanups EXCEPT ![m] = @ + 1]
      /\ isConnected' = [isConnected EXCEPT ![m] = FALSE]
      /\ timer' = ClearedBy(m) /\ timerRef' = [timerRef EXCEPT ![m] = None]
      /\ socket' = ClosedBy(m) /\ wsRef' = [wsRef EXCEPT ![m] = None]
      /\ UNCHANGED <<token, crashed, threw, attempts>>
  BY DEF Unmount
<1>2. SameSockets(ClosedBy(m))
  BY ClosedBySame
<1>3. /\ event' \in [Mounts -> Events \cup {None}]
      /\ wsRef' \in [Mounts -> Sockets \cup {None}]
      /\ isConnected' \in [Mounts -> BOOLEAN]
  BY <1>1 DEF StateInv, TypeOK
<1>4. timer' \in [Timers -> Armed \cup {Idle}]
      /\ timerRef' \in [Mounts -> Timers \cup {None}]
  BY <1>1, ClearedByOwn DEF StateInv, TypeOK
<1>5. cleanups' \in [Mounts -> Nat]
  BY <1>1 DEF StateInv
<1>6. StateInv'
  BY <1>1, <1>2, <1>3, <1>4, <1>5 DEF StateInv, TypeOK, SameSockets
<1>7. TimerInv'
  BY <1>1, ClearedByOwn DEF TimerInv, StateInv, TypeOK
<1>8. RefInv'
  BY <1>1, <1>2 DEF RefInv, SameSockets, StateInv, TypeOK
<1> QED BY <1>6, <1>7, <1>8

LEMMA OnOpenKeeps == ASSUME IInv, NEW s \in Sockets, OnOpen(s) PROVE IInv'
<1> USE DEF IInv
<1> DEFINE m == socket[s].owner
<1>1. /\ socket[s].state = "connecting"
      /\ socket' = [socket EXCEPT ![s].state = "open"]
      /\ isConnected' = [isConnected EXCEPT ![m] = TRUE]
      /\ attempts' = [attempts EXCEPT ![m] = 0]
      /\ UNCHANGED <<token, crashed, event, cleanups, threw, wsRef, timerRef, timer>>
  BY DEF OnOpen
<1>2. socket[s] \in InUse /\ m \in Mounts /\ "open" \in States
  BY <1>1, Typed DEF States
<1>3. /\ socket' \in [Sockets -> InUse \cup {Unused}]
      /\ socket'[s] = [owner |-> m, event |-> socket[s].event, state |-> "open"]
      /\ \A q \in Sockets \ {s} : socket'[q] = socket[q]
  BY <1>1, <1>2, StateSet
<1>4. Saturated \in Nat
  BY ScoreboardAssumption
<1>5. attempts' \in [Mounts -> 0..Saturated] /\ isConnected' \in [Mounts -> BOOLEAN]
  BY <1>1, <1>2, <1>4 DEF StateInv, TypeOK
<1>6. StateInv'
  BY <1>1, <1>3, <1>5 DEF StateInv, TypeOK
<1>7. \A q \in Sockets : socket'[q].owner = socket[q].owner
        /\ (socket'[q].state = "closed" <=> socket[q].state = "closed")
  BY <1>1, <1>3
<1>8. RefInv' /\ TimerInv'
  BY <1>1, <1>7 DEF RefInv, TimerInv, StateInv, TypeOK
<1> QED BY <1>6, <1>8

LEMMA OnCloseKeeps == ASSUME IInv, NEW s \in Sockets, OnClose(s) PROVE IInv'
<1> USE DEF IInv
<1> DEFINE m == socket[s].owner
           armed == [owner |-> m, event |-> socket[s].event]
<1>1. /\ socket[s].state # "closed"
      /\ socket' = [socket EXCEPT ![s] = Unused]
      /\ isConnected' = [isConnected EXCEPT ![m] = FALSE]
      /\ attempts' = [attempts EXCEPT ![m] = NextAttempt(@)]
      /\ UNCHANGED <<token, crashed, event, cleanups, threw, wsRef>>
  BY DEF OnClose
<1>2. PICK t \in FreeTimers : timer' = [timer EXCEPT ![t] = armed]
                              /\ timerRef' = [timerRef EXCEPT ![m] = t]
  BY DEF OnClose
<1>3. t \in Timers /\ timer[t] = Idle
  BY <1>2 DEF FreeTimers, Pending
<1>4. socket[s] \in InUse /\ m \in Mounts /\ socket[s].event \in Events
  BY <1>1, Typed
<1>5. armed \in Armed /\ armed.owner = m
  BY <1>4 DEF Armed
<1> HIDE DEF armed
<1>6. Saturated \in Nat
  BY ScoreboardAssumption
<1>7. attempts' \in [Mounts -> 0..Saturated] /\ isConnected' \in [Mounts -> BOOLEAN]
  BY <1>1, <1>4, <1>6 DEF StateInv, TypeOK, NextAttempt
<1>8. socket' \in [Sockets -> InUse \cup {Unused}] /\ socket'[s] = Unused
      /\ \A q \in Sockets \ {s} : socket'[q] = socket[q]
  BY <1>1 DEF StateInv
<1>9. /\ timer' \in [Timers -> Armed \cup {Idle}]
      /\ timer'[t] = armed /\ \A q \in Timers \ {t} : timer'[q] = timer[q]
      /\ timerRef' \in [Mounts -> Timers \cup {None}]
      /\ timerRef'[m] = t /\ \A n \in Mounts \ {m} : timerRef'[n] = timerRef[n]
  BY <1>2, <1>3, <1>4, <1>5 DEF StateInv, TypeOK
<1>10. StateInv'
  BY <1>1, <1>7, <1>8, <1>9 DEF StateInv, TypeOK
<1>11. RefInv'
  BY <1>1, <1>8, UnusedIsClosed DEF RefInv, StateInv, TypeOK
<1>12. TimerInv'
  BY <1>3, <1>5, <1>9, IdleIsNotArmed DEF TimerInv, StateInv, TypeOK
<1> QED BY <1>10, <1>11, <1>12

LEMMA OnTimerKeeps == ASSUME IInv, NEW t \in Timers, OnTimer(t) PROVE IInv'
<1> USE DEF IInv
<1> DEFINE m == timer[t].owner
<1>1. /\ timer[t] # Idle
      /\ timer' = [timer EXCEPT ![t] = Idle]
      /\ timerRef' = Forgotten(timerRef, t)
      /\ Connect(m, timer[t].event, socket, wsRef[m])
      /\ UNCHANGED <<token, crashed, event, cleanups, isConnected, attempts>>
  BY DEF OnTimer
<1>2. m \in Mounts /\ timer[t].event \in Events
  BY <1>1, Typed
<1>3. /\ socket' \in [Sockets -> InUse \cup {Unused}]
      /\ wsRef' \in [Mounts -> Sockets \cup {None}]
      /\ threw' \in [Mounts -> BOOLEAN] /\ RefInv'
  BY <1>1, <1>2, Unchanged, ConnectEffect
<1>4. /\ timer' \in [Timers -> Armed \cup {Idle}]
      /\ timerRef' \in [Mounts -> Timers \cup {None}]
  BY <1>1 DEF StateInv, TypeOK, Forgotten
<1>5. StateInv'
  BY <1>1, <1>3, <1>4 DEF StateInv, TypeOK
<1>6. TimerInv'
  BY <1>1, ScoreboardAssumption DEF TimerInv, StateInv, TypeOK, Forgotten
<1> QED BY <1>3, <1>5, <1>6

LEMMA StepIInv == IInv /\ [Next]_vars => IInv'
<1> SUFFICES ASSUME IInv, [Next]_vars PROVE IInv'
  OBVIOUS
<1>1. CASE UNCHANGED vars
  BY <1>1 DEF vars, IInv, StateInv, TypeOK, RefInv, TimerInv
<1>2. CASE ToggleToken
  BY <1>2 DEF ToggleToken, IInv, StateInv, TypeOK, RefInv, TimerInv
<1> QED BY <1>1, <1>2, MountKeeps, RunEffectAgainKeeps, UnmountKeeps, OnOpenKeeps,
           OnCloseKeeps, OnTimerKeeps DEF Next

----------------------------------------------------------------------------
(* Chains, as sets.                                                        *)

Counted ==
  \A m \in Mounts :
    /\ IsFiniteSet(Sockets_(m)) /\ IsFiniteSet(Timers_(m))
    /\ Cardinality(Sockets_(m)) \in Nat /\ Cardinality(Timers_(m)) \in Nat
    /\ Chains(m) = Cardinality(Sockets_(m)) + Cardinality(Timers_(m))
    /\ Chains(m) > 0 <=> Sockets_(m) # {} \/ Timers_(m) # {}

LEMMA Counting == Counted
<1> SUFFICES ASSUME NEW m \in Mounts
             PROVE  /\ IsFiniteSet(Sockets_(m)) /\ IsFiniteSet(Timers_(m))
                    /\ Cardinality(Sockets_(m)) \in Nat
                    /\ Cardinality(Timers_(m)) \in Nat
                    /\ Chains(m) = Cardinality(Sockets_(m)) + Cardinality(Timers_(m))
                    /\ Chains(m) > 0 <=> Sockets_(m) # {} \/ Timers_(m) # {}
  BY DEF Counted
<1>1. Sockets_(m) \subseteq Sockets /\ Timers_(m) \subseteq Timers
  BY DEF Sockets_, SocketsOf, Timers_, Pending
<1>2. IsFiniteSet(Sockets_(m)) /\ IsFiniteSet(Timers_(m))
  BY <1>1, ScoreboardAssumption, FS_Subset
<1>3. Chains(m) = Cardinality(Sockets_(m)) + Cardinality(Timers_(m))
  BY DEF Chains, Sockets_, Timers_
<1>4. /\ Cardinality(Sockets_(m)) \in Nat /\ Cardinality(Timers_(m)) \in Nat
      /\ Cardinality(Sockets_(m)) = 0 <=> Sockets_(m) = {}
      /\ Cardinality(Timers_(m)) = 0 <=> Timers_(m) = {}
  BY <1>2, FS_CardinalityType, FS_EmptySet
<1> HIDE DEF Sockets_, Timers_
<1> QED BY <1>2, <1>3, <1>4

LEMMA CountingNext == Counted'
BY Counting, PTL

(* A set grows or shrinks by at most one.                                  *)
LEMMA OneMore ==
  ASSUME NEW S, IsFiniteSet(S), NEW x
  PROVE  /\ Cardinality(S \cup {x}) <= Cardinality(S) + 1
         /\ x \notin S => Cardinality(S \cup {x}) = Cardinality(S) + 1
         /\ x \in S => Cardinality(S \ {x}) = Cardinality(S) - 1
<1>1. CASE x \in S
  <2>1. S \cup {x} = S /\ Cardinality(S) \in Nat
    BY <1>1, FS_CardinalityType
  <2> QED BY <1>1, <2>1, FS_RemoveElement
<1>2. CASE x \notin S
  <2>1. Cardinality(S \cup {x}) = Cardinality(S) + 1 /\ Cardinality(S) \in Nat
    BY <1>2, FS_AddElement, FS_CardinalityType
  <2> QED BY <1>2, <2>1
<1> QED BY <1>1, <1>2

LEMMA ConnectChains ==
  ASSUME IInv, NEW m \in Mounts, NEW e \in Events, NEW ss, SameSockets(ss),
         NEW ref \in {wsRef[m], None}, Connect(m, e, ss, ref)
  PROVE  /\ \A n \in Mounts \ {m} : Sockets_(n)' = Sockets_(n)
         /\ \/ Sockets_(m)' = Sockets_(m)
            \/ token /\ \E s \in Sockets : Sockets_(m)' = Sockets_(m) \cup {s}
         /\ threw'[m] \/ Sockets_(m)' # {}
<1> USE DEF Sockets_, SocketsOf
<1>1. /\ \A q \in Sockets : \/ socket'[q] = ss[q]
                            \/ /\ socket[q] = Unused /\ socket'[q] \in InUse
                               /\ socket'[q].owner = m
                               /\ socket'[q].state = "connecting"
      /\ \A q, r \in Sockets : socket'[q] # ss[q] /\ socket'[r] # ss[r] => q = r
      /\ ~token => socket' = ss
      /\ \/ threw'[m]
         \/ \E q \in Sockets : socket'[q].owner = m /\ socket'[q].state # "closed"
  BY ConnectEffect
<1>2. \A q \in Sockets : /\ ss[q].owner = socket[q].owner
                         /\ ss[q].state = "closed" <=> socket[q].state = "closed"
  BY DEF SameSockets
<1>3. \A n \in Mounts \ {m} : Sockets_(n)' = Sockets_(n)
  BY <1>1, <1>2, UnusedIsClosed
<1>4. CASE \A q \in Sockets : socket'[q] = ss[q]
  BY <1>1, <1>2, <1>3, <1>4
<1>5. CASE \E s \in Sockets : socket'[s] # ss[s]
  <2>1. PICK s \in Sockets : socket'[s] # ss[s]
    BY <1>5
  <2>2. token /\ socket'[s].owner = m /\ socket'[s].state # "closed"
    BY <1>1, <2>1
  <2>3. \A q \in Sockets \ {s} : socket'[q] = ss[q]
    BY <1>1, <2>1
  <2>4. Sockets_(m)' = Sockets_(m) \cup {s}
    BY <1>2, <2>2, <2>3
  <2> QED BY <1>3, <2>2, <2>4
<1> QED BY <1>4, <1>5

(* disconnect() ends no chain but, perhaps, the one of the timer of m.     *)
LEMMA DisconnectChains ==
  ASSUME IInv, NEW m \in Mounts, timer' = ClearedBy(m)
  PROVE  /\ \A n \in Mounts \ {m} : Timers_(n)' = Timers_(n)
         /\ Timers_(m)' \subseteq Timers_(m)
BY ClearedByOwn DEF Timers_, Pending, IInv, StateInv, Idle

(* The end of the handshake ends and starts none.                          *)
LEMMA OnOpenChains ==
  ASSUME IInv, NEW s \in Sockets, OnOpen(s)
  PROVE  /\ \A n \in Mounts : Sockets_(n)' = Sockets_(n) /\ Timers_(n)' = Timers_(n)
         /\ UNCHANGED <<event, threw, cleanups>>
         /\ socket[s].owner \in Mounts
         /\ \A q \in Sockets : socket'[q].owner = socket[q].owner
         /\ \A q \in Sockets \ {s} : socket'[q] = socket[q]
         /\ socket'[s].state = "open"
<1> DEFINE m == socket[s].owner
<1>1. /\ socket[s].state = "connecting"
      /\ socket' = [socket EXCEPT ![s].state = "open"]
      /\ UNCHANGED <<event, cleanups, threw, timer>>
  BY DEF OnOpen
<1>2. socket[s] \in InUse /\ m \in Mounts /\ "open" \in States
  BY <1>1, Typed DEF States, IInv
<1>3. /\ socket'[s] = [owner |-> m, event |-> socket[s].event, state |-> "open"]
      /\ \A q \in Sockets \ {s} : socket'[q] = socket[q]
  BY <1>1, <1>2, StateSet DEF IInv
<1>4. /\ socket'[s].owner = m /\ socket'[s].state = "open"
      /\ \A q \in Sockets : socket'[q].owner = socket[q].owner
  BY <1>3
<1>5. \A n \in Mounts : Sockets_(n)' = Sockets_(n)
  BY <1>1, <1>3, <1>4 DEF Sockets_, SocketsOf
<1>6. \A n \in Mounts : Timers_(n)' = Timers_(n)
  BY <1>1 DEF Timers_, Pending
<1> QED BY <1>1, <1>2, <1>3, <1>4, <1>5, <1>6

(* Onclose turns the chain of its socket into one of a timer.              *)
LEMMA OnCloseChains ==
  ASSUME IInv, NEW s \in Sockets, OnClose(s), NEW m, m = socket[s].owner
  PROVE  /\ m \in Mounts
         /\ s \in Sockets_(m) /\ Sockets_(m)' = Sockets_(m) \ {s}
         /\ \E t \in Timers : t \notin Timers_(m) /\ Timers_(m)' = Timers_(m) \cup {t}
         /\ \A n \in Mounts \ {m} :
              Sockets_(n)' = Sockets_(n) /\ Timers_(n)' = Timers_(n)
<1> USE DEF Sockets_, SocketsOf, Timers_, Pending
<1> DEFINE armed == [owner |-> m, event |-> socket[s].event]
<1>1. socket[s].state # "closed" /\ socket' = [socket EXCEPT ![s] = Unused]
  BY DEF OnClose
<1>2. PICK t \in FreeTimers : timer' = [timer EXCEPT ![t] = armed]
  BY DEF OnClose
<1>3. t \in Timers /\ timer[t] = Idle
  BY <1>2 DEF FreeTimers
<1>4. socket[s] \in InUse /\ m \in Mounts /\ socket[s].event \in Events
  BY <1>1, Typed DEF IInv
<1>5. armed \in Armed /\ armed.owner = m /\ armed # Idle
  BY <1>4, IdleIsNotArmed DEF Armed
<1> HIDE DEF armed
<1>6. socket'[s] = Unused /\ \A q \in Sockets \ {s} : socket'[q] = socket[q]
  BY <1>1 DEF IInv, StateInv
<1>7. timer'[t] = armed /\ \A q \in Timers \ {t} : timer'[q] = timer[q]
  BY <1>2, <1>3 DEF IInv, StateInv
<1>8. \A n \in Mounts : Sockets_(n)' = Sockets_(n) \ {s}
  BY <1>6, UnusedIsClosed
<1>9. \A n \in Mounts \ {m} : Timers_(n)' = Timers_(n)
  BY <1>3, <1>5, <1>7
<1>10. t \notin Timers_(m) /\ Timers_(m)' = Timers_(m) \cup {t}
  BY <1>3, <1>5, <1>7
<1>11. s \in Sockets_(m) /\ \A n \in Mounts \ {m} : s \notin Sockets_(n)
  BY <1>1
<1> HIDE DEF Sockets_, Timers_
<1>12. \A n \in Mounts \ {m} : Sockets_(n)' = Sockets_(n)
  BY <1>8, <1>11
<1> QED BY <1>3, <1>4, <1>8, <1>9, <1>10, <1>11, <1>12

(* A timer that fires ends its own chain; connect() may start one.         *)
LEMMA OnTimerChains ==
  ASSUME IInv, NEW t \in Timers, OnTimer(t), NEW m, m = timer[t].owner
  PROVE  /\ m \in Mounts
         /\ t \in Timers_(m) /\ Timers_(m)' = Timers_(m) \ {t}
         /\ \/ Sockets_(m)' = Sockets_(m)
            \/ \E s \in Sockets : Sockets_(m)' = Sockets_(m) \cup {s}
         /\ threw'[m] \/ Sockets_(m)' # {}
         /\ \A n \in Mounts : threw[n] => threw'[n]
         /\ \A n \in Mounts \ {m} :
              Sockets_(n)' = Sockets_(n) /\ Timers_(n)' = Timers_(n)
<1>1. /\ timer[t] # Idle /\ timer' = [timer EXCEPT ![t] = Idle]
      /\ Connect(m, timer[t].event, socket, wsRef[m])
  BY DEF OnTimer
<1>2. m \in Mounts /\ timer[t].event \in Events /\ SameSockets(socket)
  BY <1>1, Typed, Unchanged DEF IInv
<1>3. /\ \A n \in Mounts \ {m} : Sockets_(n)' = Sockets_(n)
      /\ \/ Sockets_(m)' = Sockets_(m)
         \/ \E s \in Sockets : Sockets_(m)' = Sockets_(m) \cup {s}
      /\ threw'[m] \/ Sockets_(m)' # {}
  BY <1>1, <1>2, ConnectChains
<1>4. \A n \in Mounts : threw[n] => threw'[n]
  BY <1>1, <1>2, ConnectEffect
<1>5. timer'[t] = Idle /\ \A q \in Timers \ {t} : timer'[q] = timer[q]
  BY <1>1 DEF IInv, StateInv
<1>6. t \in Timers_(m) /\ Timers_(m)' = Timers_(m) \ {t}
  BY <1>1, <1>5 DEF Timers_, Pending
<1>7. \A n \in Mounts \ {m} : Timers_(n)' = Timers_(n)
  BY <1>1, <1>5 DEF Timers_, Pending
<1> QED BY <1>2, <1>3, <1>4, <1>6, <1>7

----------------------------------------------------------------------------
(* Some chain of m is left.                                                *)
Trying(m) == Sockets_(m) # {} \/ Timers_(m) # {}
TryInv == \A m \in Mounts : event[m] # None /\ ~threw[m] => Trying(m)

LEMMA StepTryInv == ASSUME IInv, TryInv, [Next]_vars PROVE TryInv'
<1> USE DEF TryInv, Trying
<1>1. CASE UNCHANGED vars \/ ToggleToken
  BY <1>1 DEF vars, ToggleToken, Sockets_, SocketsOf, Timers_, Pending
<1>2. ASSUME NEW m \in Mounts, NEW e \in Events, Mount(m, e) PROVE TryInv'
  <2>1. /\ Connect(m, e, socket, wsRef[m]) /\ SameSockets(socket)
        /\ \A n \in Mounts \ {m} : event'[n] = None
    BY <1>2, Unchanged DEF Mount, AfterEffect, IInv, StateInv, TypeOK
  <2> QED BY <2>1, ConnectChains
<1>3. ASSUME NEW m \in Mounts, NEW e \in Events, RunEffectAgain(m, e) PROVE TryInv'
  <2>1. /\ Connect(m, e, ClosedBy(m), None) /\ SameSockets(ClosedBy(m))
        /\ timer' = ClearedBy(m)
        /\ \A n \in Mounts \ {m} : event'[n] = event[n]
    BY <1>3, ClosedBySame DEF RunEffectAgain, AfterEffect, IInv, StateInv, TypeOK
  <2>2. \A n \in Mounts : threw[n] => threw'[n]
    BY <2>1, ConnectEffect
  <2> QED BY <2>1, <2>2, ConnectChains, DisconnectChains
<1>4. ASSUME NEW m \in Mounts, Unmount(m) PROVE TryInv'
  <2>1. /\ socket' = ClosedBy(m) /\ SameSockets(ClosedBy(m)) /\ timer' = ClearedBy(m)
        /\ event'[m] = None /\ UNCHANGED threw
        /\ \A n \in Mounts \ {m} : event'[n] = event[n]
    BY <1>4, ClosedBySame DEF Unmount, IInv, StateInv, TypeOK
  <2>2. \A n \in Mounts : Sockets_(n)' = Sockets_(n)
    BY <2>1 DEF SameSockets, Sockets_, SocketsOf
  <2> QED BY <2>1, <2>2, DisconnectChains
<1>5. ASSUME NEW s \in Sockets, OnOpen(s) PROVE TryInv'
  <2>1. UNCHANGED <<event, threw>> /\ \A n \in Mounts : Sockets_(n)' = Sockets_(n)
                                       /\ Timers_(n)' = Timers_(n)
    BY <1>5, OnOpenChains
  <2> QED BY <2>1
<1>6. ASSUME NEW s \in Sockets, OnClose(s) PROVE TryInv'
  <2>1. UNCHANGED <<event, threw>>
    BY <1>6 DEF OnClose
  <2> QED BY <1>6, <2>1, OnCloseChains
<1>7. ASSUME NEW t \in Timers, OnTimer(t) PROVE TryInv'
  <2>1. UNCHANGED event
    BY <1>7 DEF OnTimer
  <2> QED BY <1>7, <2>1, OnTimerChains
<1> QED BY <1>1, <1>2, <1>3, <1>4, <1>5, <1>6, <1>7 DEF Next

(* Each mount has at most one chain per run of its effect.                 *)
LEMMA StepBounded == ASSUME IInv, ChainsBounded, [Next]_vars PROVE ChainsBounded'
<1> DEFINE S(n) == Cardinality(Sockets_(n))
           T(n) == Cardinality(Timers_(n))
           Effects(n) == cleanups[n] + (IF event[n] # None THEN 1 ELSE 0)
<1>1. \A n \in Mounts : /\ S(n) \in Nat /\ T(n) \in Nat /\ Chains(n) = S(n) + T(n)
                        /\ S(n)' \in Nat /\ T(n)' \in Nat
                        /\ Chains(n)' = S(n)' + T(n)'
                        /\ IsFiniteSet(Sockets_(n)) /\ IsFiniteSet(Timers_(n))
                        /\ cleanups[n] \in Nat
  BY Counting, CountingNext DEF Counted, IInv, StateInv
<1>2. \A n \in Mounts : S(n) + T(n) <= Effects(n)
  BY <1>1 DEF ChainsBounded
<1>3. SUFFICES \A n \in Mounts : S(n)' + T(n)' <= Effects(n)'
  BY <1>1 DEF ChainsBounded
<1> DEFINE Kept(n) == S(n)' = S(n) /\ T(n)' = T(n) /\ cleanups'[n] = cleanups[n]
                      /\ event'[n] = event[n]
<1>4. CASE UNCHANGED vars \/ ToggleToken
  <2>1. \A n \in Mounts : Kept(n)
    BY <1>4 DEF vars, ToggleToken, Sockets_, SocketsOf, Timers_, Pending
  <2> QED BY <1>2, <2>1
<1>5. ASSUME NEW m \in Mounts, NEW e \in Events, Mount(m, e)
      PROVE  \A n \in Mounts : S(n)' + T(n)' <= Effects(n)'
  <2>1. /\ Connect(m, e, socket, wsRef[m]) /\ SameSockets(socket) /\ UNCHANGED timer
        /\ UNCHANGED cleanups /\ cleanups[m] = 0 /\ event[m] = None
        /\ event'[m] = IF token THEN e ELSE None
        /\ \A n \in Mounts \ {m} : event'[n] = event[n]
    BY <1>5, Unchanged DEF Mount, AfterEffect, IInv, StateInv, TypeOK
  <2>2. \A n \in Mounts : T(n)' = T(n)
    BY <2>1 DEF Timers_, Pending
  <2>3. /\ \A n \in Mounts \ {m} : Sockets_(n)' = Sockets_(n)
        /\ \/ Sockets_(m)' = Sockets_(m)
           \/ token /\ \E s \in Sockets : Sockets_(m)' = Sockets_(m) \cup {s}
    BY <2>1, ConnectChains
  <2>4. S(m)' = S(m) \/ (token /\ S(m)' <= S(m) + 1)
    BY <1>1, <2>3, OneMore
  <2>5. S(m) = 0 /\ T(m) = 0
    BY <1>1, <1>2, <2>1
  <2>6. S(m)' + T(m)' <= Effects(m)'
    BY <1>1, <2>1, <2>2, <2>4, <2>5, ScoreboardAssumption
  <2>7. \A n \in Mounts \ {m} : Kept(n)
    BY <2>1, <2>2, <2>3
  <2> QED BY <1>2, <2>6, <2>7
<1>6. ASSUME NEW m \in Mounts, NEW e \in Events, RunEffectAgain(m, e)
      PROVE  \A n \in Mounts : S(n)' + T(n)' <= Effects(n)'
  <2>1. /\ Connect(m, e, ClosedBy(m), None) /\ SameSockets(ClosedBy(m))
        /\ timer' = ClearedBy(m)
        /\ event[m] # None /\ event'[m] = IF token THEN e ELSE None
        /\ cleanups'[m] = cleanups[m] + 1
        /\ \A n \in Mounts \ {m} : event'[n] = event[n] /\ cleanups'[n] = cleanups[n]
    BY <1>6, ClosedBySame DEF RunEffectAgain, AfterEffect, IInv, StateInv, TypeOK
  <2>2. /\ \A n \in Mounts \ {m} : Timers_(n)' = Timers_(n)
        /\ T(m)' <= T(m)
    BY <1>1, <2>1, DisconnectChains, FS_Subset
  <2>3. /\ \A n \in Mounts \ {m} : Sockets_(n)' = Sockets_(n)
        /\ \/ Sockets_(m)' = Sockets_(m)
           \/ token /\ \E s \in Sockets : Sockets_(m)' = Sockets_(m) \cup {s}
    BY <2>1, ConnectChains
  <2>4. S(m)' = S(m) \/ (token /\ S(m)' <= S(m) + 1)
    BY <1>1, <2>3, OneMore
  <2>5. S(m) + T(m) <= cleanups[m] + 1
    BY <1>2, <2>1
  <2>6. S(m)' + T(m)' <= Effects(m)'
    BY <1>1, <2>1, <2>2, <2>4, <2>5, ScoreboardAssumption
  <2>7. \A n \in Mounts \ {m} : Kept(n)
    BY <2>1, <2>2, <2>3
  <2> QED BY <1>2, <2>6, <2>7
<1>7. ASSUME NEW m \in Mounts, Unmount(m)
      PROVE  \A n \in Mounts : S(n)' + T(n)' <= Effects(n)'
  <2>1. /\ socket' = ClosedBy(m) /\ SameSockets(ClosedBy(m)) /\ timer' = ClearedBy(m)
        /\ event[m] # None /\ event'[m] = None /\ cleanups'[m] = cleanups[m] + 1
        /\ \A n \in Mounts \ {m} : event'[n] = event[n] /\ cleanups'[n] = cleanups[n]
    BY <1>7, ClosedBySame DEF Unmount, IInv, StateInv, TypeOK
  <2>2. \A n \in Mounts : Sockets_(n)' = Sockets_(n)
    BY <2>1 DEF SameSockets, Sockets_, SocketsOf
  <2>3. /\ \A n \in Mounts \ {m} : Timers_(n)' = Timers_(n)
        /\ T(m)' <= T(m)
    BY <1>1, <2>1, DisconnectChains, FS_Subset
  <2>4. S(m)' + T(m)' <= Effects(m)'
    BY <1>1, <1>2, <2>1, <2>2, <2>3
  <2>5. \A n \in Mounts \ {m} : Kept(n)
    BY <2>1, <2>2, <2>3
  <2> QED BY <1>2, <2>4, <2>5
<1>8. ASSUME NEW s \in Sockets, OnOpen(s)
      PROVE  \A n \in Mounts : S(n)' + T(n)' <= Effects(n)'
  <2>1. \A n \in Mounts : Kept(n)
    BY <1>8, OnOpenChains
  <2> QED BY <1>2, <2>1
<1>9. ASSUME NEW s \in Sockets, OnClose(s)
      PROVE  \A n \in Mounts : S(n)' + T(n)' <= Effects(n)'
  <2>1. PICK m : m = socket[s].owner
    OBVIOUS
  <2>2. UNCHANGED <<event, cleanups>>
    BY <1>9 DEF OnClose
  <2>3. /\ m \in Mounts
        /\ s \in Sockets_(m) /\ Sockets_(m)' = Sockets_(m) \ {s}
        /\ \E t \in Timers : t \notin Timers_(m) /\ Timers_(m)' = Timers_(m) \cup {t}
        /\ \A n \in Mounts \ {m} :
             Sockets_(n)' = Sockets_(n) /\ Timers_(n)' = Timers_(n)
    BY <1>9, <2>1, OnCloseChains
  <2>4. S(m)' = S(m) - 1 /\ T(m)' = T(m) + 1
    BY <1>1, <2>3, OneMore
  <2>5. \A n \in Mounts \ {m} : Kept(n)
    BY <2>2, <2>3
  <2>6. S(m)' + T(m)' <= Effects(m)'
    BY <1>1, <1>2, <2>2, <2>3, <2>4
  <2> QED BY <1>2, <2>5, <2>6
<1>10. ASSUME NEW t \in Timers, OnTimer(t)
       PROVE  \A n \in Mounts : S(n)' + T(n)' <= Effects(n)'
  <2>1. PICK m : m = timer[t].owner
    OBVIOUS
  <2>2. UNCHANGED <<event, cleanups>>
    BY <1>10 DEF OnTimer
  <2>3. /\ m \in Mounts
        /\ t \in Timers_(m) /\ Timers_(m)' = Timers_(m) \ {t}
        /\ \/ Sockets_(m)' = Sockets_(m)
           \/ \E s \in Sockets : Sockets_(m)' = Sockets_(m) \cup {s}
        /\ \A n \in Mounts \ {m} :
             Sockets_(n)' = Sockets_(n) /\ Timers_(n)' = Timers_(n)
    BY <1>10, <2>1, OnTimerChains
  <2>4. S(m)' = S(m) \/ S(m)' <= S(m) + 1
    BY <1>1, <2>3, OneMore
  <2>6. T(m)' = T(m) - 1
    BY <1>1, <2>3, OneMore
  <2>5. \A n \in Mounts \ {m} : Kept(n)
    BY <2>2, <2>3
  <2>7. S(m)' + T(m)' <= Effects(m)'
    BY <1>1, <1>2, <2>2, <2>3, <2>4, <2>6
  <2> QED BY <1>2, <2>5, <2>7
<1> QED BY <1>4, <1>5, <1>6, <1>7, <1>8, <1>9, <1>10 DEF Next

----------------------------------------------------------------------------
(* Some socket of m is open.                                               *)
AnOpen(m) == \E s \in Sockets : socket[s].owner = m /\ socket[s].state = "open"

LEMMA LiveIs ==
  LiveMeansOpen <=>
    \A m \in Mounts : /\ isConnected[m] => AnOpen(m)
                      /\ event[m] # None /\ cleanups[m] = 0 /\ AnOpen(m)
                         => isConnected[m]
BY DEF LiveMeansOpen, AnOpen, SocketsOf

LEMMA LiveIsNext ==
  LiveMeansOpen' <=>
    \A m \in Mounts : /\ isConnected'[m] => AnOpen(m)'
                      /\ event'[m] # None /\ cleanups'[m] = 0 /\ AnOpen(m)'
                         => isConnected'[m]
BY DEF LiveMeansOpen, AnOpen, SocketsOf

(* A socket that connect() opens is not open yet.                          *)
LEMMA ConnectOpens ==
  ASSUME IInv, NEW m \in Mounts, NEW e \in Events, NEW ss, SameSockets(ss),
         NEW ref \in {wsRef[m], None}, Connect(m, e, ss, ref),
         NEW n \in Mounts, \A q \in Sockets : socket[q].owner = n => ss[q] = socket[q]
  PROVE  AnOpen(n)' <=> AnOpen(n)
<1>1. \A q \in Sockets : \/ socket'[q] = ss[q]
                         \/ socket[q] = Unused /\ socket'[q].state = "connecting"
  BY ConnectEffect
<1>2. \A q \in Sockets : ss[q].owner = socket[q].owner
  BY DEF SameSockets
<1> QED BY <1>1, <1>2, UnusedIsClosed DEF AnOpen

(* A page whose effect ran once has one chain at most, so one socket.      *)
LEMMA OneSocket ==
  ASSUME IInv, ChainsBounded, NEW m \in Mounts, cleanups[m] = 0,
         NEW q \in Sockets_(m), NEW s \in Sockets_(m)
  PROVE  q = s /\ event[m] # None
<1>1. /\ IsFiniteSet(Sockets_(m)) /\ Cardinality(Sockets_(m)) \in Nat
      /\ Cardinality(Timers_(m)) \in Nat
      /\ Chains(m) = Cardinality(Sockets_(m)) + Cardinality(Timers_(m))
  BY Counting DEF Counted
<1>2. Cardinality(Sockets_(m)) <= IF event[m] # None THEN 1 ELSE 0
  BY <1>1 DEF ChainsBounded
<1>3. {q, s} \subseteq Sockets_(m)
  OBVIOUS
<1>4. IsFiniteSet({q, s}) /\ Cardinality({q, s}) <= Cardinality(Sockets_(m))
  BY <1>1, <1>3, FS_Subset
<1>5. q # s => Cardinality({q, s}) = 2
  <2>1. IsFiniteSet({q}) /\ Cardinality({q}) = 1 /\ {q, s} = {q} \cup {s}
    BY FS_Singleton
  <2>2. q # s => s \notin {q}
    OBVIOUS
  <2> QED BY <2>1, <2>2, OneMore
<1>6. Cardinality(Sockets_(m)) # 0
  BY <1>1, FS_EmptySet
<1> HIDE DEF Sockets_
<1>7. event[m] # None
  BY <1>1, <1>2, <1>6
<1>8. Cardinality({q, s}) \in Nat
  BY <1>4, FS_CardinalityType
<1> QED BY <1>1, <1>2, <1>4, <1>5, <1>7, <1>8

LEMMA StepLive ==
  ASSUME IInv, ChainsBounded, LiveMeansOpen, [Next]_vars PROVE LiveMeansOpen'
<1> DEFINE Live_(n) == /\ isConnected'[n] => AnOpen(n)'
                       /\ event'[n] # None /\ cleanups'[n] = 0 /\ AnOpen(n)'
                          => isConnected'[n]
           Same(n) == /\ isConnected'[n] = isConnected[n] /\ event'[n] = event[n]
                      /\ cleanups'[n] = cleanups[n] /\ (AnOpen(n)' <=> AnOpen(n))
<1>1. \A n \in Mounts : Same(n) => Live_(n)
  BY LiveIs
<1>2. SUFFICES \A n \in Mounts : Live_(n)
  BY LiveIsNext
<1> HIDE DEF AnOpen
<1>3. CASE UNCHANGED vars \/ ToggleToken
  <2>1. \A n \in Mounts : Same(n)
    BY <1>3 DEF vars, ToggleToken, AnOpen
  <2> QED BY <1>1, <2>1
<1>4. ASSUME NEW m \in Mounts, NEW e \in Events, Mount(m, e)
      PROVE  \A n \in Mounts : Live_(n)
  <2>1. /\ Connect(m, e, socket, wsRef[m]) /\ SameSockets(socket)
        /\ UNCHANGED <<cleanups, isConnected>> /\ cleanups[m] = 0 /\ event[m] = None
        /\ \A n \in Mounts \ {m} : event'[n] = event[n]
    BY <1>4, Unchanged DEF Mount, AfterEffect, IInv, StateInv, TypeOK
  <2>2. \A n \in Mounts : AnOpen(n)' <=> AnOpen(n)
    BY <2>1, ConnectOpens
  <2>3. ~AnOpen(m)
    BY <2>1, OneSocket DEF AnOpen, Sockets_, SocketsOf
  <2>4. Live_(m)
    BY <2>1, <2>2, <2>3, LiveIs
  <2>5. \A n \in Mounts \ {m} : Same(n)
    BY <2>1, <2>2
  <2> QED BY <1>1, <2>4, <2>5
<1>5. ASSUME NEW m \in Mounts, NEW e \in Events, RunEffectAgain(m, e)
      PROVE  \A n \in Mounts : Live_(n)
  <2>1. /\ Connect(m, e, ClosedBy(m), None) /\ SameSockets(ClosedBy(m))
        /\ ~isConnected'[m] /\ cleanups'[m] > 0
        /\ \A q \in Sockets : socket[q].owner # m => ClosedBy(m)[q] = socket[q]
        /\ \A n \in Mounts \ {m} : /\ event'[n] = event[n] /\ cleanups'[n] = cleanups[n]
                                   /\ isConnected'[n] = isConnected[n]
    BY <1>5, ClosedBySame DEF RunEffectAgain, AfterEffect, IInv, StateInv, TypeOK
  <2>2. \A n \in Mounts \ {m} : AnOpen(n)' <=> AnOpen(n)
    BY <2>1, ConnectOpens
  <2>3. \A n \in Mounts \ {m} : Same(n)
    BY <2>1, <2>2
  <2> QED BY <1>1, <2>1, <2>3
<1>6. ASSUME NEW m \in Mounts, Unmount(m) PROVE \A n \in Mounts : Live_(n)
  <2>1. /\ socket' = ClosedBy(m) /\ SameSockets(ClosedBy(m))
        /\ ~isConnected'[m] /\ cleanups'[m] > 0
        /\ \A q \in Sockets : socket[q].owner # m => ClosedBy(m)[q] = socket[q]
        /\ \A n \in Mounts \ {m} : /\ event'[n] = event[n] /\ cleanups'[n] = cleanups[n]
                                   /\ isConnected'[n] = isConnected[n]
    BY <1>6, ClosedBySame DEF Unmount, IInv, StateInv, TypeOK
  <2>2. \A n \in Mounts \ {m} : AnOpen(n)' <=> AnOpen(n)
    BY <2>1 DEF AnOpen, SameSockets
  <2>3. \A n \in Mounts \ {m} : Same(n)
    BY <2>1, <2>2
  <2> QED BY <1>1, <2>1, <2>3
<1>7. ASSUME NEW s \in Sockets, OnOpen(s) PROVE \A n \in Mounts : Live_(n)
  <2> DEFINE m == socket[s].owner
  <2>1. /\ m \in Mounts /\ UNCHANGED <<event, cleanups>>
        /\ \A q \in Sockets : socket'[q].owner = socket[q].owner
        /\ \A q \in Sockets \ {s} : socket'[q] = socket[q]
        /\ socket'[s].state = "open"
    BY <1>7, OnOpenChains
  <2>2. isConnected'[m] /\ \A n \in Mounts \ {m} : isConnected'[n] = isConnected[n]
    BY <1>7, <2>1 DEF OnOpen, IInv, StateInv, TypeOK
  <2>3. \A n \in Mounts \ {m} : AnOpen(n)' <=> AnOpen(n)
    BY <2>1 DEF AnOpen
  <2>4. \E q \in Sockets : socket'[q].owner = m /\ socket'[q].state = "open"
    BY <2>1
  <2>5. \A n \in Mounts \ {m} : Same(n)
    BY <2>1, <2>2, <2>3
  <2>6. \A n \in Mounts : n = m => Live_(n)
    BY <2>2, <2>4 DEF AnOpen
  <2> QED BY <1>1, <2>5, <2>6
<1>8. ASSUME NEW s \in Sockets, OnClose(s) PROVE \A n \in Mounts : Live_(n)
  <2> DEFINE m == socket[s].owner
  <2>1. /\ socket[s].state # "closed" /\ socket' = [socket EXCEPT ![s] = Unused]
        /\ isConnected' = [isConnected EXCEPT ![m] = FALSE]
        /\ UNCHANGED <<event, cleanups>>
    BY <1>8 DEF OnClose
  <2>2. m \in Mounts
    BY <2>1, Typed DEF IInv
  <2>3. ~isConnected'[m] /\ \A n \in Mounts \ {m} : isConnected'[n] = isConnected[n]
    BY <2>1, <2>2 DEF IInv, StateInv, TypeOK
  <2>4. socket'[s] = Unused /\ \A q \in Sockets \ {s} : socket'[q] = socket[q]
    BY <2>1 DEF IInv, StateInv
  <2>5. \A n \in Mounts \ {m} : AnOpen(n)' <=> AnOpen(n)
    BY <2>4, UnusedIsClosed DEF AnOpen
  <2>6. \A n \in Mounts \ {m} : Same(n)
    BY <2>1, <2>3, <2>5
  <2>7. ASSUME cleanups[m] = 0, NEW q \in Sockets,
               socket'[q].owner = m, socket'[q].state = "open"
        PROVE  FALSE
    <3>1. q # s /\ socket'[q] = socket[q]
      BY <2>4, <2>7, UnusedIsClosed
    <3>2. q \in Sockets_(m) /\ s \in Sockets_(m)
      BY <2>1, <2>7, <3>1 DEF Sockets_, SocketsOf
    <3> QED BY <2>2, <2>7, <3>1, <3>2, OneSocket
  <2>8. \A n \in Mounts : n = m => Live_(n)
    BY <2>1, <2>3, <2>7 DEF AnOpen
  <2> QED BY <1>1, <2>6, <2>8
<1>9. ASSUME NEW t \in Timers, OnTimer(t) PROVE \A n \in Mounts : Live_(n)
  <2>1. /\ timer[t] # Idle /\ Connect(timer[t].owner, timer[t].event, socket,
                                      wsRef[timer[t].owner])
        /\ UNCHANGED <<event, cleanups, isConnected>>
    BY <1>9 DEF OnTimer
  <2>2. timer[t].owner \in Mounts /\ timer[t].event \in Events /\ SameSockets(socket)
    BY <2>1, Typed, Unchanged DEF IInv
  <2>3. \A n \in Mounts : AnOpen(n)' <=> AnOpen(n)
    BY <2>1, <2>2, ConnectOpens
  <2> QED BY <1>1, <2>1, <2>3
<1> QED BY <1>3, <1>4, <1>5, <1>6, <1>7, <1>8, <1>9 DEF Next

----------------------------------------------------------------------------
LEMMA InitOthers == Init => TryInv /\ ChainsBounded /\ LiveMeansOpen
<1> SUFFICES ASSUME Init PROVE TryInv /\ ChainsBounded /\ LiveMeansOpen
  OBVIOUS
<1>1. /\ \A m \in Mounts : /\ event[m] = None /\ cleanups[m] = 0 /\ ~isConnected[m]
      /\ \A s \in Sockets : socket[s] = Unused
      /\ \A t \in Timers : timer[t] = Idle
  BY DEF Init
<1>2. TryInv
  BY <1>1 DEF TryInv
<1>3. \A m \in Mounts : Sockets_(m) = {} /\ Timers_(m) = {}
  BY <1>1, UnusedIsClosed DEF Sockets_, SocketsOf, Timers_, Pending
<1>4. \A m \in Mounts : Chains(m) = 0
  BY <1>3, Counting, FS_EmptySet DEF Counted
<1>5. ChainsBounded
  BY <1>1, <1>4 DEF ChainsBounded
<1>6. LiveMeansOpen
  BY <1>1 DEF LiveMeansOpen
<1> QED BY <1>2, <1>5, <1>6

(* Everything together is inductive.                                       *)
THEOREM Invariance == Spec => [](IInv /\ TryInv /\ ChainsBounded /\ LiveMeansOpen)
<1>1. IInv /\ TryInv /\ ChainsBounded /\ LiveMeansOpen /\ [Next]_vars
      => (IInv /\ TryInv /\ ChainsBounded /\ LiveMeansOpen)'
  BY StepIInv, StepTryInv, StepBounded, StepLive
<1> QED BY InitIInv, InitOthers, <1>1, PTL DEF Spec

(* The state is well typed, and the backoff stays within its cap.          *)
THEOREM TypeCorrect == Spec => []TypeOK
<1>1. IInv => TypeOK
  BY DEF IInv, StateInv
<1> QED BY Invariance, <1>1, PTL

(* While a page is shown it goes on reconnecting, unless connect() threw.  *)
THEOREM AlwaysTrying == Spec => []KeepsTrying
<1>1. TryInv => KeepsTrying
  BY Counting DEF TryInv, KeepsTrying, Trying, Counted
<1> QED BY Invariance, <1>1, PTL

(* However often sockets close and timers fire, a mount has no more chains *)
(* than runs of its effect.                                                *)
THEOREM ChainsStayBounded == Spec => []ChainsBounded
BY Invariance, PTL

(* The indicator never claims a connection that is not there.              *)
THEOREM LiveIsOpen == Spec => []LiveMeansOpen
BY Invariance, PTL
=============================================================================
