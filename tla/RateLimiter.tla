---------------------------- MODULE RateLimiter ----------------------------
(***************************************************************************)
(* The sliding-window limiter of api/middleware/middleware.go: the request *)
(* goroutines that call Allow, the goroutine started by NewRateLimiter     *)
(* that evicts stale keys, the mutex they share, and Stop.                 *)
(*                                                                         *)
(* net/http runs one goroutine per request, so a member of Requests calls  *)
(* Allow once and its local variables (key, now) stay to be observed.  The *)
(* slice of timestamps kept under a key is the set of the admitted         *)
(* requests it stems from: only its length and the age of its elements     *)
(* matter, and two requests may be stamped with the same instant.          *)
(***************************************************************************)
EXTENDS Integers, FiniteSets

CONSTANTS
  Requests,   \* request goroutines
  Cleanup,    \* the cleanup goroutine
  Keys,       \* client addresses
  Limit,      \* rl.limit
  Window,     \* rl.window, in clock units
  MaxTime     \* bound: the clock stops there

ASSUME ConstantsAssumption ==
  /\ Cleanup \notin Requests
  /\ Limit \in Nat
  /\ Window \in Nat \ {0}
  /\ MaxTime \in Nat

VARIABLES
  clock,      \* what time.Now() returns; Go's reading is monotonic
  tick,       \* ticker.C, a channel of capacity one
  stopped,    \* rl.stop is closed
  mu,         \* rl.mu: the set of its holders
  requests,   \* rl.requests: the tracked keys and, for each, its timestamps
  pc,         \* where each goroutine is
  key,        \* the key of each request
  now         \* the local variable now of Allow and of evictStale

vars == <<clock, tick, stopped, mu, requests, pc, key, now>>

Goroutines == Requests \cup {Cleanup}

(* "limited" and "allowed" are the two results of Allow.                   *)
RequestPC == {"new", "lock", "clock", "decide", "allowed", "limited"}
CleanupPC == {"select", "lock", "clock", "sweep", "exited"}

----------------------------------------------------------------------------
(* The map and its timestamps.                                             *)

(* rl.requests[k]: a missing key reads as the nil slice.                   *)
Entries(k) == IF k \in DOMAIN requests THEN requests[k] ELSE {}

(* Variant: a timestamp exactly one window old still counts.               *)
AfterOrAt(r, t) == now[r] >= t - Window

(* t.After(now.Add(-window)) for the timestamp of request r.               *)
After(r, t) == now[r] > t - Window

(* The filter loop, the same in Allow and in evictStale.                   *)
Valid(k, t) == {r \in Entries(k) : After(r, t)}

(* Allow's writes to the map: the filtered slice of k, with r appended     *)
(* when r is admitted; k is deleted when that leaves nothing.              *)
Stored(k, S) ==
  [j \in (DOMAIN requests \ {k}) \cup (IF S = {} THEN {} ELSE {k}) |->
     IF j = k THEN S ELSE requests[j]]

(* Variants of the sweep: empty slices are stored instead of deleted; a key *)
(* is dropped as soon as one of its timestamps has expired.                *)
SweptKeepingEmpty(t) == [k \in DOMAIN requests |-> Valid(k, t)]
SweptEagerly(t) ==
  [k \in {j \in DOMAIN requests : Valid(j, t) = requests[j]} |-> Valid(k, t)]

(* The map after evictStale at time t.                                     *)
Swept(t) ==
  [k \in {j \in DOMAIN requests : Valid(j, t) # {}} |-> Valid(k, t)]

----------------------------------------------------------------------------
Init ==
  /\ clock = 0
  /\ tick = FALSE
  /\ stopped = FALSE
  /\ mu = {}
  /\ requests = [k \in {} |-> {}]
  /\ pc = [p \in Goroutines |-> IF p = Cleanup THEN "select" ELSE "new"]
  /\ key \in [Requests -> Keys]
  /\ now = [p \in Goroutines |-> 0]

(* Time passes; the ticker offers a tick every Window, and drops it when   *)
(* the last one has not been taken yet.                                    *)
AdvanceClock ==
  /\ clock < MaxTime
  /\ clock' = clock + 1
  /\ tick' = (tick \/ clock' % Window = 0)
  /\ UNCHANGED <<stopped, mu, requests, pc, key, now>>

(* Request r reaches limiter.Allow(key[r]).                                *)
Arrive(r) ==
  /\ pc[r] = "new"
  /\ pc' = [pc EXCEPT ![r] = "lock"]
  /\ UNCHANGED <<clock, tick, stopped, mu, requests, key, now>>

(* Variant: evictStale runs without taking the mutex.                      *)
LockExceptCleanup(p) ==
  /\ pc[p] = "lock"
  /\ mu = {} \/ p = Cleanup
  /\ mu' = mu \cup {p}
  /\ pc' = [pc EXCEPT ![p] = "clock"]
  /\ UNCHANGED <<clock, tick, stopped, requests, key, now>>

(* rl.mu.Lock().                                                           *)
Lock(p) ==
  /\ pc[p] = "lock"
  /\ mu = {}
  /\ mu' = {p}
  /\ pc' = [pc EXCEPT ![p] = "clock"]
  /\ UNCHANGED <<clock, tick, stopped, requests, key, now>>

(* now := time.Now(), read while the mutex is held.                        *)
ReadClock(p) ==
  /\ pc[p] = "clock"
  /\ now' = [now EXCEPT ![p] = clock]
  /\ pc' = [pc EXCEPT ![p] = IF p = Cleanup THEN "sweep" ELSE "decide"]
  /\ UNCHANGED <<clock, tick, stopped, mu, requests, key>>

(* Variant: len(valid) > limit instead of >=.                              *)
AdmitOneMore(r) ==
  LET valid == Valid(key[r], now[r]) IN
  /\ pc[r] = "decide"
  /\ Cardinality(valid) <= Limit
  /\ requests' = Stored(key[r], valid \cup {r})
  /\ pc' = [pc EXCEPT ![r] = "allowed"]
  /\ mu' = {}
  /\ UNCHANGED <<clock, tick, stopped, key, now>>

(* The rest of Allow when fewer than limit timestamps are valid.           *)
Admit(r) ==
  LET valid == Valid(key[r], now[r]) IN
  /\ pc[r] = "decide"
  /\ Cardinality(valid) < Limit
  /\ requests' = Stored(key[r], valid \cup {r})
  /\ pc' = [pc EXCEPT ![r] = "allowed"]
  /\ mu' = {}
  /\ UNCHANGED <<clock, tick, stopped, key, now>>

(* Variants of the rejection: the attempt is recorded as well; the early   *)
(* return leaves the mutex locked.                                         *)
RejectRecorded(r) ==
  LET valid == Valid(key[r], now[r]) IN
  /\ pc[r] = "decide"
  /\ Cardinality(valid) >= Limit
  /\ requests' = Stored(key[r], valid \cup {r})
  /\ pc' = [pc EXCEPT ![r] = "limited"]
  /\ mu' = {}
  /\ UNCHANGED <<clock, tick, stopped, key, now>>

RejectStillLocked(r) ==
  LET valid == Valid(key[r], now[r]) IN
  /\ pc[r] = "decide"
  /\ Cardinality(valid) >= Limit
  /\ requests' = Stored(key[r], valid)
  /\ pc' = [pc EXCEPT ![r] = "limited"]
  /\ UNCHANGED <<clock, tick, stopped, mu, key, now>>

(* The rest of Allow when the limit is reached; the pruning stays.         *)
Reject(r) ==
  LET valid == Valid(key[r], now[r]) IN
  /\ pc[r] = "decide"
  /\ Cardinality(valid) >= Limit
  /\ requests' = Stored(key[r], valid)
  /\ pc' = [pc EXCEPT ![r] = "limited"]
  /\ mu' = {}
  /\ UNCHANGED <<clock, tick, stopped, key, now>>

(* cleanup receives from ticker.C and calls evictStale.                    *)
SelectTick ==
  /\ pc[Cleanup] = "select"
  /\ tick
  /\ tick' = FALSE
  /\ pc' = [pc EXCEPT ![Cleanup] = "lock"]
  /\ UNCHANGED <<clock, stopped, mu, requests, key, now>>

(* Variant: a break that leaves the select but not the loop.               *)
SelectStopBreak ==
  /\ pc[Cleanup] = "select"
  /\ stopped
  /\ UNCHANGED vars

(* cleanup sees rl.stop closed; select may also take a pending tick.       *)
SelectStop ==
  /\ pc[Cleanup] = "select"
  /\ stopped
  /\ pc' = [pc EXCEPT ![Cleanup] = "exited"]
  /\ UNCHANGED <<clock, tick, stopped, mu, requests, key, now>>

(* The loop of evictStale and its deferred unlock.                         *)
Sweep ==
  /\ pc[Cleanup] = "sweep"
  /\ requests' = Swept(now[Cleanup])
  /\ mu' = {}
  /\ pc' = [pc EXCEPT ![Cleanup] = "select"]
  /\ UNCHANGED <<clock, tick, stopped, key, now>>

(* Stop() closes the channel.  A second call would panic; it is made once. *)
Stop ==
  /\ ~stopped
  /\ stopped' = TRUE
  /\ UNCHANGED <<clock, tick, mu, requests, pc, key, now>>

Next ==
  \/ AdvanceClock
  \/ \E r \in Requests : Arrive(r) \/ Admit(r) \/ Reject(r)
  \/ \E p \in Goroutines : Lock(p) \/ ReadClock(p)
  \/ SelectTick
  \/ SelectStop
  \/ Sweep
  \/ Stop

Spec == Init /\ [][Next]_vars

(* The scheduler runs every goroutine that can run, time passes, and       *)
(* sync.Mutex hands itself to a waiter that has starved, hence SF(Lock).   *)
Fairness ==
  /\ WF_vars(AdvanceClock)
  /\ \A r \in Requests : WF_vars(Admit(r)) /\ WF_vars(Reject(r))
  /\ \A p \in Goroutines : SF_vars(Lock(p)) /\ WF_vars(ReadClock(p))
  /\ WF_vars(SelectTick) /\ SF_vars(SelectStop) /\ WF_vars(Sweep)

FairSpec == Spec /\ Fairness

----------------------------------------------------------------------------
(* Properties.                                                             *)

Allowed == {r \in Requests : pc[r] = "allowed"}
Limited == {r \in Requests : pc[r] = "limited"}

(* The admissions of key k in (t - Window, t], from the full history.      *)
AdmittedIn(k, t) ==
  {r \in Allowed : key[r] = k /\ t - Window < now[r] /\ now[r] <= t}

(* The state is well typed, and the map never holds a key without any      *)
(* timestamp: Allow and evictStale delete such a key.                      *)
TypeOK ==
  /\ clock \in Nat /\ tick \in BOOLEAN /\ stopped \in BOOLEAN
  /\ mu \in SUBSET Goroutines
  /\ DOMAIN requests \subseteq Keys
  /\ \A k \in DOMAIN requests : requests[k] \in (SUBSET Requests) \ {{}}
  /\ pc \in [Goroutines -> RequestPC \cup CleanupPC]
  /\ key \in [Requests -> Keys]
  /\ now \in [Goroutines -> Nat]

(* However the calls interleave with each other and with the eviction, no  *)
(* key gets more than Limit admissions in any window that ends with one    *)
(* of them.                                                                *)
WindowLimit ==
  \A a \in Allowed : Cardinality(AdmittedIn(key[a], now[a])) <= Limit

(* Nobody is turned away for nothing: Limit requests of the same key were  *)
(* admitted in the window that ends with a rejected one, boundary instant  *)
(* excluded.                                                               *)
NoNeedlessRejection ==
  \A r \in Limited : Cardinality(AdmittedIn(key[r], now[r])) >= Limit

(* A key holds timestamps of admitted requests of that key only.           *)
MapSound ==
  \A k \in DOMAIN requests : \A r \in requests[k] : r \in Allowed /\ key[r] = k

(* The map forgets a timestamp only when it has left the window of every   *)
(* decision still to come.                                                 *)
MapCoversWindow ==
  \A r \in Allowed :
    \/ r \in Entries(key[r])
    \/ /\ now[r] <= clock - Window
       /\ \A p \in Goroutines :
            pc[p] \in {"decide", "sweep"} => now[r] <= now[p] - Window

(* Pruned and evicted by goroutines that take turns, the map still is what *)
(* later decisions need of the history: nothing of another key or of a     *)
(* rejected request gets into it, nothing that still counts is lost.       *)
MapMatchesHistory == MapSound /\ MapCoversWindow

(* Eviction by the background goroutine changes no later decision: a       *)
(* timestamp that a step drops from the map is already outside the window  *)
(* of the clock.                                                           *)
EvictsOnlyExpired ==
  [][\A k \in DOMAIN requests : \A r \in requests[k] :
       (k \notin DOMAIN requests' \/ r \notin requests'[k])
         => now[r] <= clock - Window]_vars

(* The limiter implements the atomic limiter that decides from the whole   *)
(* history.                                                                *)
Decided(r) == [req |-> r, key |-> key[r], at |-> now[r], ok |-> r \in Allowed]

Abstract == INSTANCE SlidingWindow WITH
  time <- clock, decisions <- {Decided(r) : r \in Allowed \cup Limited}

ImplementsSlidingWindow == Abstract!Spec

(* Liveness: every call of Allow returns (nobody keeps the mutex).         *)
EveryCallReturns ==
  \A r \in Requests : pc[r] = "lock" ~> pc[r] \in {"allowed", "limited"}

(* A key whose timestamps have all expired leaves the map even when its    *)
(* client never comes back, as long as the cleanup has not been stopped;   *)
(* one more Window must fit below the clock's bound.                       *)
Stale(k) == k \in DOMAIN requests /\ Valid(k, clock) = {}

StaleKeysEvicted ==
  \A k \in Keys :
    (Stale(k) /\ clock + Window <= MaxTime) ~> (~Stale(k) \/ stopped)

(* Stop() ends the cleanup goroutine even if it was mid-sweep or if ticks  *)
(* kept coming.                                                            *)
StopEndsCleanup == stopped ~> pc[Cleanup] = "exited"
=============================================================================
