------------------------ MODULE RateLimiter_proofs ------------------------
(***************************************************************************)
(* Proofs about RateLimiter, for any set of requests, keys, limit, window  *)
(* and clock bound.                                                        *)
(*                                                                         *)
(* The inductive invariant IInv adds to the properties what makes them     *)
(* inductive: the mutex protects the span between reading the clock and    *)
(* writing the map, so decision times are ordered, so a timestamp pruned   *)
(* at one decision lies outside the window of every later one.             *)
(***************************************************************************)
EXTENDS RateLimiter, FiniteSetTheorems, TLAPS

(* Goroutines that hold the mutex; those that have read the clock.         *)
Critical == {"clock", "decide", "sweep"}
Stamped == {"decide", "sweep"}

PcOK ==
  /\ pc[Cleanup] \in CleanupPC
  /\ \A r \in Requests : pc[r] \in RequestPC

MutexInv == \A p \in Goroutines : pc[p] \in Critical => mu = {p}

ClockInv == \A p \in Goroutines : now[p] <= clock

OrderInv ==
  \A r \in Allowed \cup Limited, p \in Goroutines :
    pc[p] \in Stamped => now[r] <= now[p]

FiniteInv == IsFiniteSet(Allowed)

BaseInv ==
  /\ TypeOK /\ PcOK /\ MutexInv /\ ClockInv /\ OrderInv
  /\ MapSound /\ MapCoversWindow /\ FiniteInv

IInv == BaseInv /\ WindowLimit /\ NoNeedlessRejection

----------------------------------------------------------------------------
(* At a decision the filtered slice is exactly the window of the full      *)
(* history: what Allow counts is what the limit is about.                  *)
LEMMA ValidIsWindow ==
  ASSUME BaseInv, NEW p \in Goroutines, pc[p] \in Stamped, NEW k \in Keys
  PROVE  Valid(k, now[p]) = AdmittedIn(k, now[p])
<1> USE ConstantsAssumption DEF BaseInv, Goroutines
<1>1. \A r \in Valid(k, now[p]) : r \in AdmittedIn(k, now[p])
  <2> SUFFICES ASSUME NEW r \in Valid(k, now[p]) PROVE r \in AdmittedIn(k, now[p])
    OBVIOUS
  <2>1. k \in DOMAIN requests /\ r \in requests[k] /\ now[r] > now[p] - Window
    BY DEF Valid, Entries, After
  <2>2. r \in Allowed /\ key[r] = k
    BY <2>1 DEF MapSound
  <2>3. now[r] <= now[p]
    BY <2>2 DEF OrderInv
  <2> QED BY <2>1, <2>2, <2>3 DEF AdmittedIn, TypeOK, Allowed
<1>2. \A r \in AdmittedIn(k, now[p]) : r \in Valid(k, now[p])
  <2> SUFFICES ASSUME NEW r \in AdmittedIn(k, now[p]) PROVE r \in Valid(k, now[p])
    OBVIOUS
  <2>1. r \in Allowed /\ key[r] = k /\ now[p] - Window < now[r]
    BY DEF AdmittedIn
  <2>2. now[r] \in Nat /\ now[p] \in Nat
    BY <2>1 DEF TypeOK, Allowed
  <2>3. r \in Entries(k)
    BY <2>1, <2>2 DEF MapCoversWindow, Stamped
  <2> QED BY <2>1, <2>2, <2>3 DEF Valid, After
<1> QED BY <1>1, <1>2

(* What a lookup finds after Allow has written the map.                    *)
LEMMA EntriesAfterStore ==
  ASSUME NEW k \in Keys, NEW S, requests' = Stored(k, S), NEW j
  PROVE  /\ j \in DOMAIN requests' <=>
              \/ j = k /\ S # {}
              \/ j # k /\ j \in DOMAIN requests
         /\ j \in DOMAIN requests' =>
              requests'[j] = IF j = k THEN S ELSE requests[j]
         /\ Entries(j)' = IF j = k THEN S ELSE Entries(j)
BY DEF Stored, Entries

(* What a lookup finds after a sweep.                                      *)
LEMMA EntriesAfterSweep ==
  ASSUME NEW t, requests' = Swept(t), NEW j
  PROVE  /\ j \in DOMAIN requests' => j \in DOMAIN requests
         /\ j \in DOMAIN requests' =>
              requests'[j] = Valid(j, t) /\ Valid(j, t) # {}
         /\ Entries(j)' = Valid(j, t)
BY DEF Swept, Entries, Valid

----------------------------------------------------------------------------
(* The initial states satisfy the invariant.                               *)
LEMMA InitIInv == Init => IInv
<1> SUFFICES ASSUME Init PROVE IInv
  OBVIOUS
<1> USE ConstantsAssumption DEF Init, Goroutines
<1>1. TypeOK
  BY DEF TypeOK, RequestPC, CleanupPC
<1>2. PcOK
  BY DEF PcOK, RequestPC, CleanupPC
<1>3. MutexInv /\ ClockInv
  BY DEF MutexInv, ClockInv, Critical
<1>4. Allowed = {} /\ Limited = {}
  BY DEF Allowed, Limited
<1>5. OrderInv /\ MapSound /\ MapCoversWindow /\ WindowLimit /\ NoNeedlessRejection
  BY <1>4 DEF OrderInv, MapSound, MapCoversWindow, WindowLimit, NoNeedlessRejection
<1>6. FiniteInv
  BY <1>4, FS_EmptySet DEF FiniteInv
<1> QED BY <1>1, <1>2, <1>3, <1>5, <1>6 DEF IInv, BaseInv

----------------------------------------------------------------------------
(* Steps that leave the map, the results and the stamps of the decided     *)
(* requests alone.                                                         *)
Quiet ==
  /\ requests' = requests /\ key' = key
  /\ Allowed' = Allowed /\ Limited' = Limited
  /\ \A r \in Allowed \cup Limited : now'[r] = now[r]

LEMMA QuietWindows ==
  ASSUME IInv, Quiet
  PROVE  MapSound' /\ FiniteInv' /\ WindowLimit' /\ NoNeedlessRejection'
<1> USE DEF Quiet, IInv, BaseInv
<1>1. \A k, t : AdmittedIn(k, t)' = AdmittedIn(k, t)
  BY DEF AdmittedIn
<1>2. \A r \in Allowed \cup Limited :
        AdmittedIn(key[r], now[r])' = AdmittedIn(key[r], now[r])
  BY DEF AdmittedIn
<1> QED BY <1>1, <1>2 DEF MapSound, FiniteInv, WindowLimit, NoNeedlessRejection

(* A step of the environment or of a goroutine on its way to its decision  *)
(* preserves the invariant.                                                *)
LEMMA TickIInv ==
  ASSUME IInv, AdvanceClock \/ SelectTick \/ SelectStop \/ Stop
  PROVE  IInv'
<1> USE ConstantsAssumption DEF IInv, BaseInv, Goroutines
<1>0. Quiet
  BY DEF Quiet, AdvanceClock, SelectTick, SelectStop, Stop, Allowed, Limited, TypeOK
<1>1. TypeOK'
  <2>1. tick' \in BOOLEAN /\ stopped' \in BOOLEAN
    BY Zenon DEF AdvanceClock, SelectTick, SelectStop, Stop, TypeOK
  <2>2. clock' \in Nat
    BY DEF AdvanceClock, SelectTick, SelectStop, Stop, TypeOK
  <2>3. pc' \in [Goroutines -> RequestPC \cup CleanupPC]
    BY DEF AdvanceClock, SelectTick, SelectStop, Stop, TypeOK, CleanupPC
  <2> QED BY <2>1, <2>2, <2>3
          DEF AdvanceClock, SelectTick, SelectStop, Stop, TypeOK
<1>2. PcOK'
  BY DEF AdvanceClock, SelectTick, SelectStop, Stop, TypeOK, PcOK, CleanupPC
<1>3. clock' >= clock /\ now' = now /\ requests' = requests /\ key' = key /\ mu' = mu
  BY DEF AdvanceClock, SelectTick, SelectStop, Stop, TypeOK
<1>4. \A p \in Goroutines : pc'[p] \in Critical => pc'[p] = pc[p]
  BY DEF AdvanceClock, SelectTick, SelectStop, Stop, TypeOK, Critical
<1>5. MutexInv'
  BY <1>3, <1>4 DEF MutexInv
<1>6. ClockInv'
  BY <1>3, <1>1 DEF ClockInv, TypeOK
<1>7. OrderInv'
  BY <1>0, <1>3, <1>4 DEF OrderInv, Quiet, Critical, Stamped
<1>8. MapCoversWindow'
  <2>1. clock \in Int /\ clock' \in Int /\ \A p \in Goroutines : now[p] \in Int
    BY <1>1 DEF TypeOK
  <2>2. \A j : Entries(j)' = Entries(j)
    BY <1>3 DEF Entries
  <2> QED BY <1>0, <1>3, <1>4, <2>1, <2>2
          DEF MapCoversWindow, Quiet, Critical, Allowed
<1> QED BY <1>0, <1>1, <1>2, <1>5, <1>6, <1>7, <1>8, QuietWindows

LEMMA ArriveIInv ==
  ASSUME IInv, NEW r \in Requests, Arrive(r)
  PROVE  IInv'
<1> USE ConstantsAssumption DEF IInv, BaseInv, Goroutines, Arrive
<1>0. Quiet
  BY DEF Quiet, Allowed, Limited, TypeOK
<1>1. TypeOK'
  BY DEF TypeOK, RequestPC
<1>2. PcOK'
  BY DEF TypeOK, PcOK, RequestPC
<1>3. \A p \in Goroutines : pc'[p] \in Critical => pc'[p] = pc[p]
  BY DEF TypeOK, Critical
<1>4. MutexInv' /\ ClockInv'
  BY <1>3 DEF MutexInv, ClockInv
<1>5. OrderInv'
  BY <1>0, <1>3 DEF OrderInv, Quiet, Critical, Stamped
<1>6. MapCoversWindow'
  <2>1. \A j : Entries(j)' = Entries(j)
    BY DEF Entries
  <2> QED BY <1>0, <1>3, <2>1 DEF MapCoversWindow, Quiet, Critical, Allowed
<1> QED BY <1>0, <1>1, <1>2, <1>4, <1>5, <1>6, QuietWindows

LEMMA LockIInv ==
  ASSUME IInv, NEW p \in Goroutines, Lock(p)
  PROVE  IInv'
<1> USE ConstantsAssumption DEF IInv, BaseInv, Goroutines, Lock
<1>0. Quiet
  BY DEF Quiet, Allowed, Limited, TypeOK
<1>1. TypeOK'
  BY DEF TypeOK, RequestPC
<1>2. PcOK'
  BY DEF TypeOK, PcOK, RequestPC, CleanupPC
<1>3. \A q \in Goroutines : pc[q] \notin Critical
  BY DEF MutexInv
<1>4. \A q \in Goroutines : pc'[q] \in Critical => q = p /\ pc'[q] = "clock"
  BY <1>3 DEF TypeOK
<1>5. MutexInv' /\ ClockInv'
  BY <1>4 DEF MutexInv, ClockInv
<1>6. OrderInv'
  BY <1>0, <1>4 DEF OrderInv, Quiet, Critical, Stamped
<1>7. MapCoversWindow'
  <2>1. \A j : Entries(j)' = Entries(j)
    BY DEF Entries
  <2> QED BY <1>0, <1>4, <2>1 DEF MapCoversWindow, Quiet, Critical, Allowed
<1> QED BY <1>0, <1>1, <1>2, <1>5, <1>6, <1>7, QuietWindows

(* Reading the clock: the reading is at or after every decision, and every *)
(* pruned timestamp has left its window.                                   *)
LEMMA ReadClockIInv ==
  ASSUME IInv, NEW p \in Goroutines, ReadClock(p)
  PROVE  IInv'
<1> USE ConstantsAssumption DEF IInv, BaseInv, Goroutines, ReadClock
<1>1. TypeOK'
  BY DEF TypeOK, RequestPC, CleanupPC
<1>2. PcOK'
  BY DEF TypeOK, PcOK, RequestPC, CleanupPC
<1>3. mu = {p}
  BY DEF MutexInv, Critical
<1>4. \A q \in Goroutines : q # p => pc[q] \notin Critical
  BY <1>3 DEF MutexInv
<1>5. \A q \in Goroutines : pc'[q] \in Critical => q = p
  BY <1>4 DEF TypeOK
<1>6. now'[p] = clock /\ \A q \in Goroutines : q # p => now'[q] = now[q]
  BY DEF TypeOK
<1>7. Allowed' = Allowed /\ Limited' = Limited /\ p \notin Allowed \cup Limited
  BY DEF TypeOK, Allowed, Limited
<1>8. Quiet
  BY <1>6, <1>7 DEF Quiet, Allowed, Limited
<1>9. MutexInv'
  BY <1>3, <1>5 DEF MutexInv
<1>10. ClockInv'
  BY <1>6 DEF ClockInv, TypeOK
<1>11. OrderInv'
  BY <1>5, <1>6, <1>7, <1>8
     DEF OrderInv, Quiet, ClockInv, Stamped, Critical, Allowed, Limited
<1>12. MapCoversWindow'
  <2>1. \A j : Entries(j)' = Entries(j)
    BY DEF Entries
  <2> QED BY <1>5, <1>6, <1>7, <1>8, <2>1
          DEF MapCoversWindow, Quiet, Critical, Allowed
<1> QED BY <1>1, <1>2, <1>8, <1>9, <1>10, <1>11, <1>12, QuietWindows

----------------------------------------------------------------------------
(* The three writes to the map.                                            *)

(* The windows of the history are finite sets.                             *)
LEMMA WindowFinite ==
  ASSUME BaseInv, NEW k, NEW t
  PROVE  /\ IsFiniteSet(AdmittedIn(k, t))
         /\ Cardinality(AdmittedIn(k, t)) \in Nat
<1>1. AdmittedIn(k, t) \in SUBSET Allowed
  BY DEF AdmittedIn
<1>2. IsFiniteSet(AdmittedIn(k, t))
  BY <1>1, FS_Subset DEF BaseInv, FiniteInv
<1> QED BY <1>2, FS_CardinalityType

(* After a write every goroutine is out of the critical section.           *)
LEMMA LeaveCritical ==
  ASSUME BaseInv, NEW p \in Goroutines, pc[p] \in Stamped,
         NEW l, l \notin Critical, pc' = [pc EXCEPT ![p] = l]
  PROVE  \A q \in Goroutines : pc'[q] \notin Critical
BY DEF BaseInv, MutexInv, TypeOK, Stamped, Critical

(* The part of the invariant about the map when the entries of every key   *)
(* become the ones still valid at the stamp of p, plus new admissions.     *)
LEMMA MapAfterWrite ==
  ASSUME BaseInv, NEW p \in Goroutines, pc[p] \in Stamped,
         key' = key, now' = now, clock' = clock,
         \A q \in Goroutines : pc'[q] \notin Critical,
         \A a \in Allowed :
            \/ a \in Entries(key[a])'
            \/ a \notin Valid(key[a], now[p]),
         \A a \in Allowed' : a \in Allowed \/ a \in Entries(key[a])'
  PROVE  MapCoversWindow'
<1> SUFFICES ASSUME NEW a \in Allowed', a \notin Entries(key[a])'
             PROVE  now[a] <= clock - Window
  BY DEF MapCoversWindow, Critical, BaseInv
<1> USE ConstantsAssumption DEF BaseInv
<1>1. a \in Allowed /\ a \notin Valid(key[a], now[p])
  OBVIOUS
<1>2. now[a] \in Nat /\ now[p] \in Nat /\ clock \in Nat /\ now[p] <= clock
  BY <1>1 DEF TypeOK, ClockInv, Allowed, Goroutines
<1>3. CASE a \in Entries(key[a])
  BY <1>1, <1>2, <1>3 DEF Valid, After
<1>4. CASE a \notin Entries(key[a])
  BY <1>1, <1>2, <1>4 DEF MapCoversWindow
<1> QED BY <1>3, <1>4

LEMMA AdmitIInv ==
  ASSUME IInv, NEW r \in Requests, Admit(r)
  PROVE  IInv'
<1> DEFINE V == Valid(key[r], now[r])
           S == V \cup {r}
<1> USE ConstantsAssumption DEF IInv, BaseInv
<1>0. /\ r \in Goroutines /\ pc[r] \in Stamped /\ r # Cleanup
      /\ key[r] \in Keys /\ Cardinality(V) < Limit
      /\ requests' = Stored(key[r], S)
      /\ pc' = [pc EXCEPT ![r] = "allowed"] /\ mu' = {}
      /\ clock' = clock /\ tick' = tick /\ stopped' = stopped
      /\ key' = key /\ now' = now
  BY DEF Admit, Stamped, Goroutines, TypeOK
<1>1. V = AdmittedIn(key[r], now[r])
  BY <1>0, ValidIsWindow
<1>2. Allowed' = Allowed \cup {r} /\ Limited' = Limited /\ r \notin Allowed
  BY <1>0 DEF Allowed, Limited, TypeOK, Goroutines, Stamped
<1>3. \A q \in Goroutines : pc'[q] \notin Critical
  BY <1>0, LeaveCritical, "allowed" \notin Critical DEF Critical
<1>4. \A j : /\ j \in DOMAIN requests' <=>
                  j = key[r] \/ (j # key[r] /\ j \in DOMAIN requests)
             /\ j \in DOMAIN requests' =>
                  requests'[j] = IF j = key[r] THEN S ELSE requests[j]
             /\ Entries(j)' = IF j = key[r] THEN S ELSE Entries(j)
  <2>1. key[r] \in Keys /\ requests' = Stored(key[r], S)
    BY <1>0
  <2>2. S # {}
    OBVIOUS
  <2> HIDE DEF S, V, IInv, BaseInv
  <2> QED BY <2>1, <2>2, EntriesAfterStore
<1> HIDE DEF S
<1>5. S = V \cup {r} /\ V \subseteq Allowed /\ \A a \in V : key[a] = key[r]
  BY <1>1 DEF S, AdmittedIn
<1> HIDE DEF V
<1>6. TypeOK'
  <2>1. S \in (SUBSET Requests) \ {{}}
    BY <1>5 DEF Allowed
  <2>2. DOMAIN requests' \subseteq Keys
    BY <1>0, <1>4 DEF TypeOK
  <2>3. \A k \in DOMAIN requests' : requests'[k] \in (SUBSET Requests) \ {{}}
    BY <1>4, <2>1 DEF TypeOK
  <2>4. pc' \in [Goroutines -> RequestPC \cup CleanupPC]
    BY <1>0 DEF TypeOK, RequestPC
  <2> QED BY <1>0, <2>2, <2>3, <2>4 DEF TypeOK
<1>7. PcOK'
  BY <1>0 DEF PcOK, TypeOK, RequestPC, Goroutines
<1>8. MutexInv' /\ ClockInv' /\ OrderInv'
  BY <1>0, <1>3 DEF MutexInv, ClockInv, OrderInv, Stamped, Critical
<1>9. MapSound'
  BY <1>0, <1>2, <1>4, <1>5 DEF MapSound
<1>10. MapCoversWindow'
  <2>1. \A a \in Allowed : a \in Entries(key[a])' \/ a \notin Valid(key[a], now[r])
    <3> SUFFICES ASSUME NEW a \in Allowed, a \in Valid(key[a], now[r])
                 PROVE  a \in Entries(key[a])'
      OBVIOUS
    <3>1. a \in Entries(key[a])
      BY DEF Valid
    <3>2. CASE key[a] = key[r]
      BY <1>0, <1>4, <1>5, <3>2 DEF V
    <3>3. CASE key[a] # key[r]
      BY <1>0, <1>4, <3>1, <3>3
    <3> QED BY <3>2, <3>3
  <2>2. \A a \in Allowed' : a \in Allowed \/ a \in Entries(key[a])'
    BY <1>0, <1>2, <1>4, <1>5
  <2> QED BY <1>0, <1>3, <2>1, <2>2, MapAfterWrite
<1>11. FiniteInv'
  BY <1>2, FS_AddElement DEF FiniteInv
<1>12. \A a \in Allowed \cup Limited \cup {r} : now[a] \in Nat /\ now[a] <= now[r]
  BY <1>0 DEF OrderInv, TypeOK, Allowed, Limited, Goroutines
<1>13. \A a \in Allowed \cup Limited \cup {r} :
         AdmittedIn(key[a], now[a])' =
           IF key[a] = key[r] /\ now[a] = now[r]
           THEN S ELSE AdmittedIn(key[a], now[a])
  <2> SUFFICES ASSUME NEW a \in Allowed \cup Limited \cup {r}
               PROVE  AdmittedIn(key[a], now[a])' =
                        IF key[a] = key[r] /\ now[a] = now[r]
                        THEN S ELSE AdmittedIn(key[a], now[a])
    OBVIOUS
  <2>1. AdmittedIn(key[a], now[a])' =
          {b \in Allowed \cup {r} :
             key[b] = key[a] /\ now[a] - Window < now[b] /\ now[b] <= now[a]}
    BY <1>0, <1>2 DEF AdmittedIn
  <2>2. CASE key[a] = key[r] /\ now[a] = now[r]
    BY <2>1, <2>2, <1>1, <1>5, <1>12 DEF AdmittedIn
  <2>3. CASE ~(key[a] = key[r] /\ now[a] = now[r])
    BY <2>1, <2>3, <1>12 DEF AdmittedIn
  <2> QED BY <2>2, <2>3
<1>14. Cardinality(S) = Cardinality(V) + 1 /\ Cardinality(V) \in Nat
  BY <1>1, <1>2, <1>5, WindowFinite, FS_AddElement
<1>15. WindowLimit'
  BY <1>0, <1>2, <1>13, <1>14 DEF WindowLimit
<1>16. NoNeedlessRejection'
  <2> SUFFICES ASSUME NEW a \in Limited
               PROVE  Cardinality(AdmittedIn(key[a], now[a])') >= Limit
    BY <1>0, <1>2 DEF NoNeedlessRejection
  <2>1. CASE key[a] = key[r] /\ now[a] = now[r]
    BY <1>0, <1>1, <1>13, <1>14, <2>1 DEF NoNeedlessRejection
  <2>2. CASE ~(key[a] = key[r] /\ now[a] = now[r])
    BY <1>13, <2>2 DEF NoNeedlessRejection
  <2> QED BY <2>1, <2>2
<1> QED BY <1>6, <1>7, <1>8, <1>9, <1>10, <1>11, <1>15, <1>16

LEMMA RejectIInv ==
  ASSUME IInv, NEW r \in Requests, Reject(r)
  PROVE  IInv'
<1> DEFINE V == Valid(key[r], now[r])
<1> USE ConstantsAssumption DEF IInv, BaseInv
<1>0. /\ r \in Goroutines /\ pc[r] \in Stamped /\ r # Cleanup
      /\ key[r] \in Keys /\ Cardinality(V) >= Limit
      /\ requests' = Stored(key[r], V)
      /\ pc' = [pc EXCEPT ![r] = "limited"] /\ mu' = {}
      /\ clock' = clock /\ tick' = tick /\ stopped' = stopped
      /\ key' = key /\ now' = now
  BY DEF Reject, Stamped, Goroutines, TypeOK
<1>1. V = AdmittedIn(key[r], now[r])
  BY <1>0, ValidIsWindow
<1>2. Allowed' = Allowed /\ Limited' = Limited \cup {r}
  BY <1>0 DEF Allowed, Limited, TypeOK, Goroutines, Stamped
<1>3. \A q \in Goroutines : pc'[q] \notin Critical
  BY <1>0, LeaveCritical, "limited" \notin Critical DEF Critical
<1>4. \A j : /\ j \in DOMAIN requests' <=>
                  \/ j = key[r] /\ V # {}
                  \/ j # key[r] /\ j \in DOMAIN requests
             /\ j \in DOMAIN requests' =>
                  requests'[j] = IF j = key[r] THEN V ELSE requests[j]
             /\ Entries(j)' = IF j = key[r] THEN V ELSE Entries(j)
  <2>1. key[r] \in Keys /\ requests' = Stored(key[r], V)
    BY <1>0
  <2> HIDE DEF V, IInv, BaseInv
  <2> QED BY <2>1, EntriesAfterStore
<1>5. V \subseteq Allowed /\ \A a \in V : key[a] = key[r]
  BY <1>1 DEF AdmittedIn
<1> HIDE DEF V
<1>6. TypeOK'
  <2>1. DOMAIN requests' \subseteq Keys
    BY <1>0, <1>4 DEF TypeOK
  <2>2. \A k \in DOMAIN requests' : requests'[k] \in (SUBSET Requests) \ {{}}
    BY <1>4, <1>5 DEF TypeOK, Allowed
  <2>3. pc' \in [Goroutines -> RequestPC \cup CleanupPC]
    BY <1>0 DEF TypeOK, RequestPC
  <2> QED BY <1>0, <2>1, <2>2, <2>3 DEF TypeOK
<1>7. PcOK'
  BY <1>0 DEF PcOK, TypeOK, RequestPC, Goroutines
<1>8. MutexInv' /\ ClockInv' /\ OrderInv'
  BY <1>0, <1>3 DEF MutexInv, ClockInv, OrderInv, Stamped, Critical
<1>9. MapSound'
  BY <1>0, <1>2, <1>4, <1>5 DEF MapSound
<1>10. MapCoversWindow'
  <2>1. \A a \in Allowed : a \in Entries(key[a])' \/ a \notin Valid(key[a], now[r])
    BY <1>0, <1>4 DEF V, Valid
  <2> QED BY <1>0, <1>2, <1>3, <2>1, MapAfterWrite
<1>11. FiniteInv'
  BY <1>2 DEF FiniteInv
<1>12. \A a \in Requests :
         AdmittedIn(key[a], now[a])' = AdmittedIn(key[a], now[a])
  BY <1>0, <1>2 DEF AdmittedIn
<1>13. WindowLimit'
  BY <1>0, <1>2, <1>12 DEF WindowLimit, Allowed
<1>14. NoNeedlessRejection'
  BY <1>0, <1>1, <1>2, <1>12 DEF NoNeedlessRejection, Limited
<1> QED BY <1>6, <1>7, <1>8, <1>9, <1>10, <1>11, <1>13, <1>14

LEMMA SweepIInv ==
  ASSUME IInv, Sweep
  PROVE  IInv'
<1> USE ConstantsAssumption DEF IInv, BaseInv
<1>0. /\ Cleanup \in Goroutines /\ pc[Cleanup] \in Stamped
      /\ requests' = Swept(now[Cleanup])
      /\ pc' = [pc EXCEPT ![Cleanup] = "select"] /\ mu' = {}
      /\ clock' = clock /\ tick' = tick /\ stopped' = stopped
      /\ key' = key /\ now' = now
  BY DEF Sweep, Stamped, Goroutines
<1>1. Allowed' = Allowed /\ Limited' = Limited
  BY <1>0 DEF Allowed, Limited, TypeOK, Goroutines
<1>3. \A q \in Goroutines : pc'[q] \notin Critical
  BY <1>0, LeaveCritical, "select" \notin Critical DEF Critical
<1>4. \A j : /\ j \in DOMAIN requests' => j \in DOMAIN requests
             /\ j \in DOMAIN requests' =>
                  /\ requests'[j] = Valid(j, now[Cleanup])
                  /\ Valid(j, now[Cleanup]) # {}
             /\ Entries(j)' = Valid(j, now[Cleanup])
  BY <1>0, EntriesAfterSweep
<1>5. \A j : Valid(j, now[Cleanup]) \subseteq Entries(j)
  BY DEF Valid
<1>6. TypeOK'
  <2>1. DOMAIN requests' \subseteq Keys
    BY <1>4 DEF TypeOK
  <2>2. \A k \in DOMAIN requests' : requests'[k] \in (SUBSET Requests) \ {{}}
    BY <1>4, <1>5 DEF TypeOK, Entries
  <2>3. pc' \in [Goroutines -> RequestPC \cup CleanupPC]
    BY <1>0 DEF TypeOK, CleanupPC
  <2> QED BY <1>0, <2>1, <2>2, <2>3 DEF TypeOK
<1>7. PcOK'
  BY <1>0 DEF PcOK, TypeOK, CleanupPC, Goroutines
<1>8. MutexInv' /\ ClockInv' /\ OrderInv'
  BY <1>0, <1>3 DEF MutexInv, ClockInv, OrderInv, Stamped, Critical
<1>9. MapSound'
  BY <1>0, <1>1, <1>4, <1>5 DEF MapSound, Entries
<1>10. MapCoversWindow'
  BY <1>0, <1>1, <1>3, <1>4, MapAfterWrite
<1>11. FiniteInv'
  BY <1>1 DEF FiniteInv
<1>13. WindowLimit' /\ NoNeedlessRejection'
  <2>1. \A a \in Requests :
          AdmittedIn(key[a], now[a])' = AdmittedIn(key[a], now[a])
    BY <1>0, <1>1 DEF AdmittedIn
  <2> QED BY <1>0, <1>1, <2>1
          DEF WindowLimit, NoNeedlessRejection, Allowed, Limited
<1> QED BY <1>6, <1>7, <1>8, <1>9, <1>10, <1>11, <1>13

(* A step that changes no variable preserves the invariant.                *)
LEMMA StutterIInv ==
  ASSUME IInv, UNCHANGED vars
  PROVE  IInv'
BY DEF vars, IInv, BaseInv, TypeOK, PcOK, MutexInv, ClockInv, OrderInv, MapSound,
       MapCoversWindow, FiniteInv, WindowLimit, NoNeedlessRejection, Goroutines,
       Allowed, Limited, AdmittedIn, Entries, Critical, Stamped

LEMMA NextIInv == IInv /\ [Next]_vars => IInv'
<1> SUFFICES ASSUME IInv, [Next]_vars PROVE IInv'
  OBVIOUS
<1>1. CASE AdvanceClock \/ SelectTick \/ SelectStop \/ Stop
  BY <1>1, TickIInv
<1>2. CASE \E r \in Requests : Arrive(r) \/ Admit(r) \/ Reject(r)
  BY <1>2, ArriveIInv, AdmitIInv, RejectIInv
<1>3. CASE \E p \in Goroutines : Lock(p) \/ ReadClock(p)
  BY <1>3, LockIInv, ReadClockIInv
<1>4. CASE Sweep
  BY <1>4, SweepIInv
<1>5. CASE UNCHANGED vars
  BY <1>5, StutterIInv
<1> QED BY <1>1, <1>2, <1>3, <1>4, <1>5 DEF Next

THEOREM InductiveInvariant == Spec => []IInv
BY InitIInv, NextIInv, PTL DEF Spec

----------------------------------------------------------------------------
(* The state is well typed and no tracked key is without a timestamp.      *)
THEOREM TypeCorrect == Spec => []TypeOK
<1>1. IInv => TypeOK
  BY DEF IInv, BaseInv
<1> QED BY <1>1, InductiveInvariant, PTL

(* No key is ever admitted more than Limit times in a window, whatever the *)
(* interleaving of calls and eviction.                                     *)
THEOREM LimitHolds == Spec => []WindowLimit
<1>1. IInv => WindowLimit
  BY DEF IInv
<1> QED BY <1>1, InductiveInvariant, PTL

(* A rejected request was preceded by Limit admissions in its window.      *)
THEOREM RejectionJustified == Spec => []NoNeedlessRejection
<1>1. IInv => NoNeedlessRejection
  BY DEF IInv
<1> QED BY <1>1, InductiveInvariant, PTL

(* The pruned map always covers the window of the decisions to come, and   *)
(* holds nothing but admitted requests under their own keys.               *)
THEOREM MapSuffices == Spec => []MapMatchesHistory
<1>1. IInv => MapMatchesHistory
  BY DEF IInv, BaseInv, MapMatchesHistory
<1> QED BY <1>1, InductiveInvariant, PTL

(* A step that forgets a timestamp forgets one outside the clock's window. *)
THEOREM EvictionSafe == Spec => EvictsOnlyExpired
<1> DEFINE Safe == \A k \in DOMAIN requests : \A r \in requests[k] :
                     (k \notin DOMAIN requests' \/ r \notin requests'[k])
                       => now[r] <= clock - Window
<1>1. IInv /\ IInv' /\ [Next]_vars => Safe
  <2> SUFFICES ASSUME IInv, IInv', [Next]_vars,
                      NEW k \in DOMAIN requests, NEW r \in requests[k],
                      k \notin DOMAIN requests' \/ r \notin requests'[k]
               PROVE  now[r] <= clock - Window
    OBVIOUS
  <2> USE ConstantsAssumption DEF IInv, BaseInv
  <2>1. r \in Allowed /\ key[r] = k /\ r \in Requests /\ k \in Keys
    BY DEF MapSound, Allowed, TypeOK
  <2>2. r \notin Entries(k)'
    BY DEF Entries
  <2>3. requests' # requests
    OBVIOUS
  <2>4. clock' = clock /\ now' = now /\ key' = key /\ Allowed \subseteq Allowed'
    <3>1. (\E p \in Requests : Admit(p) \/ Reject(p)) \/ Sweep
      BY <2>3 DEF Next, vars, AdvanceClock, Arrive, Lock, ReadClock, SelectTick,
                  SelectStop, Stop
    <3> QED BY <3>1 DEF Admit, Reject, Sweep, Allowed, TypeOK, Goroutines
  <2>5. MapCoversWindow'
    OBVIOUS
  <2> QED BY <2>1, <2>2, <2>4, <2>5 DEF MapCoversWindow
<1>2. Spec => [][Safe]_vars
  BY <1>1, InductiveInvariant, PTL DEF Spec
<1> QED BY <1>2 DEF EvictsOnlyExpired

----------------------------------------------------------------------------
(* Refinement: the limiter implements the atomic one that remembers every  *)
(* decision.                                                               *)

Log == {Decided(r) : r \in Allowed \cup Limited}

(* The abstract module counts with its own instance of Cardinality.        *)
LEMMA SameCardinality == \A S : Abstract!Cardinality(S) = Cardinality(S)
BY DEF Abstract!Cardinality, Cardinality

(* The records of the abstract window are as many as the requests of the   *)
(* detailed one.                                                           *)
LEMMA WindowsAgree ==
  ASSUME BaseInv, NEW k \in Keys, NEW t
  PROVE  Cardinality(Abstract!Admitted(k, t)) = Cardinality(AdmittedIn(k, t))
<1> DEFINE A == AdmittedIn(k, t)
           B == Abstract!Admitted(k, t)
           f == [r \in A |-> Decided(r)]
<1>1. B = {Decided(r) : r \in A}
  <2>1. \A r : /\ Decided(r).key = key[r] /\ Decided(r).at = now[r]
               /\ Decided(r).ok <=> r \in Allowed
    BY DEF Decided
  <2>2. A = {r \in Allowed : key[r] = k /\ t - Window < now[r] /\ now[r] <= t}
    BY DEF AdmittedIn
  <2>3. B = {d \in Log : d.ok /\ d.key = k /\ t - Window < d.at /\ d.at <= t}
    BY DEF Abstract!Admitted, Log
  <2> HIDE DEF A, B
  <2>4. \A d \in B : \E r \in A : d = Decided(r)
    BY <2>1, <2>2, <2>3 DEF Log
  <2>5. \A r \in A : Decided(r) \in B
    BY <2>1, <2>2, <2>3 DEF Log
  <2> QED BY <2>4, <2>5
<1>2. \A r, s : Decided(r) = Decided(s) => r = s
  BY DEF Decided
<1> HIDE DEF A, B
<1>3. f \in Bijection(A, B)
  BY <1>1, <1>2 DEF Bijection, Injection, Surjection, IsInjective
<1>4. IsFiniteSet(A)
  BY WindowFinite DEF A
<1>5. ExistsBijection(A, B)
  BY <1>3 DEF ExistsBijection
<1>6. Cardinality(B) = Cardinality(A)
  BY <1>4, <1>5, FS_Bijection
<1> QED BY <1>6 DEF A, B

(* A decision of Allow is a decision of the atomic limiter.                *)
LEMMA DecideRefines ==
  ASSUME IInv, NEW r \in Requests, Admit(r) \/ Reject(r)
  PROVE  Abstract!Decide(r)
<1> DEFINE ok == r \in Allowed'
<1> USE ConstantsAssumption DEF IInv, BaseInv
<1>0. /\ r \in Goroutines /\ pc[r] \in Stamped /\ pc[r] = "decide"
      /\ key[r] \in Keys /\ key' = key /\ now' = now /\ clock' = clock
      /\ now[r] \in Nat /\ clock \in Nat /\ now[r] <= clock
  BY DEF Admit, Reject, Stamped, Goroutines, TypeOK, ClockInv
<1>1. r \notin Allowed \cup Limited
  BY <1>0 DEF Allowed, Limited
<1>2. /\ Allowed' \cup Limited' = Allowed \cup Limited \cup {r}
      /\ \A a \in Allowed \cup Limited : a \in Allowed' <=> a \in Allowed
  BY <1>0 DEF Admit, Reject, Allowed, Limited, TypeOK, Goroutines
<1>3. ok <=> Cardinality(Valid(key[r], now[r])) < Limit
  <2>1. CASE Admit(r)
    BY <1>0, <2>1 DEF Admit, Allowed, TypeOK
  <2>2. CASE Reject(r)
    <3>1. Cardinality(Valid(key[r], now[r])) \in Nat
      BY <1>0, ValidIsWindow, WindowFinite
    <3>2. pc'[r] = "limited"
      BY <1>0, <2>2 DEF Reject, TypeOK
    <3> QED BY <1>0, <2>2, <3>1, <3>2 DEF Reject, Allowed
  <2> QED BY <2>1, <2>2
<1>4. ok <=> Cardinality(Abstract!Admitted(key[r], now[r])) < Limit
  BY <1>0, <1>3, ValidIsWindow, WindowsAgree
<1>5. Log' = Log \cup {[req |-> r, key |-> key[r], at |-> now[r], ok |-> ok]}
  BY <1>0, <1>1, <1>2 DEF Log, Decided
<1>6. \A d \in Log : d.req # r /\ d.at <= now[r]
  BY <1>0, <1>1 DEF Log, Decided, OrderInv, Stamped
<1>7. [req |-> r, key |-> key[r], at |-> now[r], ok |-> ok] =
        [req |-> r, key |-> key[r], at |-> now[r],
         ok |-> Cardinality(Abstract!Admitted(key[r], now[r])) < Limit]
  BY <1>4
<1>8. now[r] \in 0..clock
  BY <1>0
<1>9. \E k \in Keys, t \in 0..clock :
        /\ \A d \in Log : d.at <= t
        /\ Log' = Log \cup
             {[req |-> r, key |-> k, at |-> t,
               ok  |-> Cardinality(Abstract!Admitted(k, t)) < Limit]}
  <2> HIDE DEF ok
  <2>1. key[r] \in Keys /\ now[r] \in 0..clock
    BY <1>0, <1>8
  <2> USE <2>1
  <2> WITNESS key[r] \in Keys, now[r] \in 0..clock
  <2> QED BY <1>5, <1>6, <1>7
<1> QED BY <1>0, <1>6, <1>9, SameCardinality DEF Abstract!Decide, Log

LEMMA StepRefines == IInv /\ [Next]_vars => [Abstract!Next]_(Abstract!vars)
<1> SUFFICES ASSUME IInv, [Next]_vars PROVE [Abstract!Next]_(Abstract!vars)
  OBVIOUS
<1>1. CASE \E r \in Requests : Admit(r) \/ Reject(r)
  BY <1>1, DecideRefines DEF Abstract!Next
<1>2. CASE ~ \E r \in Requests : Admit(r) \/ Reject(r)
  <2>1. Log' = Log
    <3>1. /\ Allowed' = Allowed /\ Limited' = Limited /\ key' = key
          /\ \A r \in Allowed \cup Limited : now'[r] = now[r]
      BY <1>2 DEF Next, vars, AdvanceClock, Arrive, Lock, ReadClock, SelectTick,
                  SelectStop, Sweep, Stop, Allowed, Limited, IInv, BaseInv, TypeOK,
                  Goroutines
    <3> QED BY <3>1 DEF Log, Decided
  <2>2. clock' = clock + 1 \/ clock' = clock
    BY <1>2 DEF Next, vars, AdvanceClock, Arrive, Lock, ReadClock, SelectTick,
                SelectStop, Sweep, Stop
  <2> QED BY <2>1, <2>2 DEF Abstract!Next, Abstract!Tick, Abstract!vars, Log
<1> QED BY <1>1, <1>2

(* Allow, the mutex and the eviction together implement the atomic         *)
(* sliding-window limiter.                                                 *)
THEOREM Refinement == Spec => ImplementsSlidingWindow
<1>1. Init => Abstract!Init
  BY ConstantsAssumption
     DEF Init, Abstract!Init, Allowed, Limited, Goroutines
<1>2. Spec => Abstract!Spec
  BY <1>1, StepRefines, InductiveInvariant, PTL DEF Spec, Abstract!Spec
<1> QED BY <1>2 DEF ImplementsSlidingWindow
----------------------------------------------------------------------------
(* Nobody leaves the mutex locked: it is free, or its one holder is in the *)
(* critical section, where every step but the clock's leads to an unlock.  *)
MutexHeld == mu = {} \/ \E p \in Goroutines : mu = {p} /\ pc[p] \in Critical

LEMMA StepMutex == IInv /\ MutexHeld /\ [Next]_vars => MutexHeld'
<1> SUFFICES ASSUME IInv, MutexHeld, [Next]_vars PROVE MutexHeld'
  OBVIOUS
<1> USE DEF IInv, BaseInv, TypeOK
<1>1. ASSUME mu' = {} PROVE MutexHeld'
  BY <1>1 DEF MutexHeld
<1>2. ASSUME mu' = mu, \A p \in Goroutines : pc[p] \in Critical => pc'[p] = pc[p]
      PROVE  MutexHeld'
  BY <1>2 DEF MutexHeld
<1>3. ASSUME NEW r \in Requests, Admit(r) \/ Reject(r) PROVE MutexHeld'
  BY <1>1, <1>3 DEF Admit, Reject
<1>4. CASE Sweep
  BY <1>1, <1>4 DEF Sweep
<1>5. ASSUME NEW p \in Goroutines, Lock(p) PROVE MutexHeld'
  <2>1. mu' = {p} /\ pc'[p] = "clock"
    BY <1>5 DEF Lock
  <2> QED BY <2>1 DEF MutexHeld, Critical
<1>6. ASSUME NEW p \in Goroutines, ReadClock(p) PROVE MutexHeld'
  <2>1. mu = {p} /\ mu' = mu
    BY <1>6 DEF ReadClock, MutexInv, Critical
  <2>2. pc'[p] \in Critical
    BY <1>6 DEF ReadClock, Critical
  <2> QED BY <2>1, <2>2 DEF MutexHeld
<1>7. ASSUME NEW r \in Requests, Arrive(r) PROVE MutexHeld'
  BY <1>2, <1>7 DEF Arrive, Critical, Goroutines
<1>8. CASE AdvanceClock \/ SelectTick \/ SelectStop \/ Stop
  BY <1>2, <1>8 DEF AdvanceClock, SelectTick, SelectStop, Stop, Critical, Goroutines
<1>9. CASE UNCHANGED vars
  BY <1>2, <1>9 DEF vars
<1> QED BY <1>3, <1>4, <1>5, <1>6, <1>7, <1>8, <1>9 DEF Next

(* The safety half of EveryCallReturns and StopEndsCleanup: whoever waits  *)
(* for the mutex waits for a goroutine that is inside Allow or evictStale, *)
(* never for one that has returned, been turned away, or ended.            *)
THEOREM MutexNeverLeftLocked == Spec => []MutexHeld
<1>1. Init => MutexHeld
  BY DEF Init, MutexHeld
<1> QED BY <1>1, StepMutex, InductiveInvariant, PTL DEF Spec
=============================================================================
