------------------------ MODULE AuthSession_proofs ------------------------
(***************************************************************************)
(* Proofs about AuthSession, for any set of tabs and any set of sessions.  *)
(***************************************************************************)
EXTENDS AuthSession, TLAPS

(* The shape of the per-tab state that the updates of single tabs rely on. *)
TypeInv ==
  /\ page \in [Tabs -> Pages]
  /\ phase \in [Tabs -> {"boot", "ready", "leaving"}]
  /\ DOMAIN store = Tabs
  /\ loading \in [Tabs -> BOOLEAN]
  /\ authCall \in [Tabs -> BOOLEAN]

(* What is kept in localStorage, or in the store of a tab, is one session. *)
OneSession(x) == x = Empty \/ \E s \in issued : x = Saved(s)
OneUser(x) == x = SignedOut \/ \E s \in issued : x = SignedIn(s, s)

IdentityInv == OneSession(storage) /\ \A t \in Tabs : OneUser(store[t])

IInv == TypeInv /\ IdentityInv /\ LoadingIsInFlight /\ GuardHolds

----------------------------------------------------------------------------
(* A store restored from localStorage is of one session as well.           *)
LEMMA RestoredIsOneUser == ASSUME OneSession(storage) PROVE OneUser(Restored)
<1>1. CASE storage = Empty
  BY <1>1 DEF Empty, Restored, OneUser
<1>2. ASSUME NEW s \in issued, storage = Saved(s) PROVE OneUser(Restored)
  <2>1. storage.token = s /\ storage.user = s
    BY <1>2 DEF Saved
  <2>2. Restored = SignedIn(s, s) \/ Restored = SignedOut
    BY <2>1 DEF Restored
  <2> QED BY <2>2 DEF OneUser
<1> QED BY <1>1, <1>2 DEF OneSession

(* The guard lets nobody who is not signed in onto a protected page.       *)
LEMMA GuardedPage ==
  ASSUME NEW p \in Pages, NEW auth
  PROVE  Guarded(p, auth) \in Pages /\ (Guarded(p, auth) \in Protected => auth)
BY DEF Guarded, Pages, AccountPages, Protected

LEMMA InitIInv == Init => IInv
BY DEF Init, IInv, TypeInv, IdentityInv, OneSession, OneUser, Pages,
       LoadingIsInFlight, GuardHolds, Ready

----------------------------------------------------------------------------
(* Every step keeps what is stored one session: it leaves it alone, empties *)
(* it, restores it, or writes all parts of a new session.                  *)
LEMMA StepIdentity == ASSUME IInv, [Next]_vars PROVE IdentityInv'
<1> USE DEF IInv, TypeInv, IdentityInv
<1>1. ASSUME NEW t \in Tabs, NEW p \in Pages, Load(t, p) PROVE IdentityInv'
  BY <1>1 DEF Load, OneSession, OneUser
<1>2. ASSUME NEW t \in Tabs, Boot(t) PROVE IdentityInv'
  BY <1>2, RestoredIsOneUser DEF Boot, OneSession, OneUser
<1>3. ASSUME NEW t \in Tabs, NEW s \in Sessions, Succeed(t, s)
      PROVE  IdentityInv'
  BY <1>3 DEF Succeed, OneSession, OneUser
<1>4. ASSUME NEW t \in Tabs, Logout(t) PROVE IdentityInv'
  BY <1>4 DEF Logout, OneSession, OneUser
<1>5. ASSUME NEW t \in Tabs, Fail(t) \/ Refused(t) PROVE IdentityInv'
  BY <1>5 DEF Fail, Refused, Unauthorized, OneSession, OneUser
<1>6. ASSUME UNCHANGED <<storage, issued, store>> PROVE IdentityInv'
  BY <1>6 DEF OneSession, OneUser
<1>7. ASSUME NEW t \in Tabs, NEW p \in Pages,
             Follow(t, p) \/ Submit(t) \/ Call(t) \/ Answered(t)
      PROVE  IdentityInv'
  BY <1>6, <1>7 DEF Follow, Submit, Call, Answered
<1> QED BY <1>1, <1>2, <1>3, <1>4, <1>5, <1>6, <1>7 DEF Next, vars, Pages

(* Every step keeps the per-tab state in shape.                            *)
LEMMA StepType == ASSUME IInv, [Next]_vars PROVE TypeInv'
<1> USE DEF IInv, TypeInv
<1>1. ASSUME NEW t \in Tabs, NEW p \in Pages, Load(t, p) PROVE TypeInv'
  BY <1>1 DEF Load
<1>2. ASSUME NEW t \in Tabs, NEW p \in Pages, Follow(t, p) PROVE TypeInv'
  BY <1>2 DEF Follow, Guarded, Pages, AccountPages
<1>3. ASSUME NEW t \in Tabs, Boot(t) PROVE TypeInv'
  BY <1>3 DEF Boot, Guarded, Pages, AccountPages
<1>4. ASSUME NEW t \in Tabs, Submit(t) PROVE TypeInv'
  BY <1>4 DEF Submit
<1>5. ASSUME NEW t \in Tabs, NEW s \in Sessions, Succeed(t, s) PROVE TypeInv'
  BY <1>5 DEF Succeed, Pages, Protected
<1>6. ASSUME NEW t \in Tabs, Fail(t) \/ Refused(t) PROVE TypeInv'
  BY <1>6 DEF Fail, Refused, Unauthorized, Pages, Protected
<1>7. ASSUME NEW t \in Tabs, Logout(t) PROVE TypeInv'
  BY <1>7 DEF Logout, Pages
<1>8. ASSUME NEW t \in Tabs, Call(t) \/ Answered(t) PROVE TypeInv'
  BY <1>8 DEF Call, Answered
<1>9. CASE UNCHANGED vars
  BY <1>9 DEF vars
<1> QED BY <1>1, <1>2, <1>3, <1>4, <1>5, <1>6, <1>7, <1>8, <1>9 DEF Next

(* isLoading is set and reset together with the call that is in flight.    *)
LEMMA StepLoading == ASSUME IInv, [Next]_vars PROVE LoadingIsInFlight'
<1> USE DEF IInv, TypeInv, LoadingIsInFlight
<1>1. ASSUME NEW t \in Tabs, NEW p \in Pages, Load(t, p)
      PROVE  LoadingIsInFlight'
  BY <1>1 DEF Load
<1>2. ASSUME NEW t \in Tabs, Submit(t) PROVE LoadingIsInFlight'
  BY <1>2 DEF Submit
<1>3. ASSUME NEW t \in Tabs, NEW s \in Sessions, Succeed(t, s)
      PROVE  LoadingIsInFlight'
  BY <1>3 DEF Succeed
<1>4. ASSUME NEW t \in Tabs, Fail(t) PROVE LoadingIsInFlight'
  BY <1>4 DEF Fail
<1>5. ASSUME UNCHANGED <<loading, authCall>> PROVE LoadingIsInFlight'
  BY <1>5
<1>6. ASSUME NEW t \in Tabs, NEW p \in Pages,
             Follow(t, p) \/ Boot(t) \/ Call(t) \/ Answered(t) \/ Refused(t)
               \/ Logout(t)
      PROVE  LoadingIsInFlight'
  BY <1>5, <1>6 DEF Follow, Boot, Call, Answered, Refused, Logout
<1> QED BY <1>1, <1>2, <1>3, <1>4, <1>5, <1>6 DEF Next, vars, Pages

(* No step brings a protected page to a tab that is not signed in, or      *)
(* signs out a tab that stays on one.                                      *)
LEMMA StepGuard == ASSUME IInv, [Next]_vars PROVE GuardHolds'
<1> USE DEF IInv, TypeInv, GuardHolds, Ready
<1>1. ASSUME NEW t \in Tabs, NEW p \in Pages, Load(t, p) PROVE GuardHolds'
  BY <1>1 DEF Load
<1>2. ASSUME NEW t \in Tabs, NEW p \in Pages, Follow(t, p) PROVE GuardHolds'
  BY <1>2, GuardedPage DEF Follow
<1>3. ASSUME NEW t \in Tabs, Boot(t) PROVE GuardHolds'
  BY <1>3, GuardedPage DEF Boot
<1>4. ASSUME NEW t \in Tabs, NEW s \in Sessions, Succeed(t, s)
      PROVE  GuardHolds'
  BY <1>4 DEF Succeed, SignedIn
<1>5. ASSUME NEW t \in Tabs, Fail(t) PROVE GuardHolds'
  BY <1>5 DEF Fail, Unauthorized
<1>6. ASSUME NEW t \in Tabs, Refused(t) PROVE GuardHolds'
  BY <1>6 DEF Refused, Unauthorized
<1>7. ASSUME NEW t \in Tabs, Logout(t) PROVE GuardHolds'
  BY <1>7 DEF Logout, Protected
<1>8. ASSUME UNCHANGED <<page, phase, store>> PROVE GuardHolds'
  BY <1>8
<1>9. ASSUME NEW t \in Tabs, Submit(t) \/ Call(t) \/ Answered(t)
      PROVE  GuardHolds'
  BY <1>8, <1>9 DEF Submit, Call, Answered
<1> QED
  BY <1>1, <1>2, <1>3, <1>4, <1>5, <1>6, <1>7, <1>8, <1>9 DEF Next, vars

----------------------------------------------------------------------------
(* IInv is an invariant.                                                   *)
LEMMA InductiveInvariant == Spec => []IInv
<1>1. IInv /\ [Next]_vars => IInv'
  BY StepType, StepIdentity, StepLoading, StepGuard DEF IInv
<1> QED BY InitIInv, <1>1, PTL DEF Spec

(* Whatever tabs do, the user and the tokens that localStorage and the     *)
(* stores keep are those of one session.                                   *)
THEOREM IdentityNeverMixed == Spec => []OneIdentity
<1>1. IInv => OneIdentity
  BY DEF IInv, IdentityInv, OneSession, OneUser, OneIdentity
<1> QED BY InductiveInvariant, <1>1, PTL

(* The account pages never have two calls in flight.                       *)
THEOREM OneLoginAtATime == Spec => []LoadingIsInFlight
<1>1. IInv => LoadingIsInFlight
  BY DEF IInv
<1> QED BY InductiveInvariant, <1>1, PTL

(* A protected page is shown only to a tab that is signed in.              *)
THEOREM GuardIsKept == Spec => []GuardHolds
<1>1. IInv => GuardHolds
  BY DEF IInv
<1> QED BY InductiveInvariant, <1>1, PTL
----------------------------------------------------------------------------
(* A session that was issued, and that nothing in the browser keeps.       *)
Ended(s) ==
  /\ s \in issued
  /\ storage.token # s
  /\ \A t \in Tabs : store[t].token # s

(* A session is over once it has been dropped by localStorage and by every *)
(* tab: late answers, reloads and restores never bring it back.            *)
EndedForGood == [][\A s \in Sessions : Ended(s) => Ended(s)']_vars

LEMMA StepEnded ==
  ASSUME IInv, [Next]_vars, NEW s \in Sessions, Ended(s)
  PROVE  Ended(s)'
<1> USE AuthAssumption DEF IInv, TypeInv, Ended, SignedOut
<1>1. ASSUME NEW t \in Tabs, NEW p \in Pages, Load(t, p) PROVE Ended(s)'
  BY <1>1 DEF Load
<1>2. ASSUME NEW t \in Tabs, Boot(t) PROVE Ended(s)'
  <2>1. Restored.token # s
    BY DEF Restored, SignedIn
  <2> QED BY <1>2, <2>1 DEF Boot
<1>3. ASSUME NEW t \in Tabs, NEW u \in Sessions, Succeed(t, u) PROVE Ended(s)'
  BY <1>3 DEF Succeed, Saved, SignedIn
<1>4. ASSUME NEW t \in Tabs, Logout(t) PROVE Ended(s)'
  BY <1>4 DEF Logout, Empty
<1>5. ASSUME NEW t \in Tabs, Fail(t) \/ Refused(t) PROVE Ended(s)'
  BY <1>5 DEF Fail, Refused, Unauthorized, Empty
<1>6. ASSUME UNCHANGED <<storage, issued, store>> PROVE Ended(s)'
  BY <1>6
<1>7. ASSUME NEW t \in Tabs, NEW p \in Pages,
             Follow(t, p) \/ Submit(t) \/ Call(t) \/ Answered(t)
      PROVE  Ended(s)'
  BY <1>6, <1>7 DEF Follow, Submit, Call, Answered
<1> QED BY <1>1, <1>2, <1>3, <1>4, <1>5, <1>6, <1>7 DEF Next, vars, Pages

(* What signing out promises: a session that no tab and no storage keeps   *)
(* any more is never restored, for any number of tabs and sessions.        *)
THEOREM EndedSessionsStayEnded == Spec => EndedForGood
<1>1. IInv /\ [Next]_vars => [\A s \in Sessions : Ended(s) => Ended(s)']_vars
  BY StepEnded
<1> QED BY <1>1, InductiveInvariant, PTL DEF Spec, EndedForGood

(* A tab that was told to leave comes back as a login page that is signed  *)
(* out, and until then neither its user nor its calls keep it from going.  *)
LeavesForLogin ==
  [][\A t \in Tabs : phase[t] = "leaving" =>
       \/ phase'[t] = "leaving"
       \/ page'[t] = "login" /\ store'[t] = SignedOut]_vars

(* The safety half of RefusalEndsSession.                                  *)
THEOREM RefusedTabsLeave == Spec => LeavesForLogin
<1> DEFINE Leaves(t) == phase[t] = "leaving" =>
             \/ phase'[t] = "leaving"
             \/ page'[t] = "login" /\ store'[t] = SignedOut
<1>1. ASSUME IInv, Next, NEW q \in Tabs PROVE Leaves(q)
  <2> USE <1>1 DEF IInv, TypeInv
  <2>1. ASSUME NEW t \in Tabs, NEW p \in Pages, Load(t, p) PROVE Leaves(q)
    BY <2>1 DEF Load
  <2>2. ASSUME NEW t \in Tabs, Boot(t) PROVE Leaves(q)
    BY <2>2 DEF Boot
  <2>3. ASSUME NEW t \in Tabs, Fail(t) \/ Refused(t) PROVE Leaves(q)
    BY <2>3 DEF Fail, Refused, Unauthorized
  <2>4. ASSUME phase' = phase PROVE Leaves(q)
    BY <2>4
  <2>5. ASSUME NEW t \in Tabs, Submit(t) \/ Call(t) \/ Answered(t) \/ Logout(t)
        PROVE  Leaves(q)
    BY <2>4, <2>5 DEF Submit, Call, Answered, Logout
  <2>6. ASSUME NEW t \in Tabs, NEW p \in Pages, Follow(t, p) PROVE Leaves(q)
    BY <2>4, <2>6 DEF Follow
  <2>7. ASSUME NEW t \in Tabs, NEW s \in Sessions, Succeed(t, s) PROVE Leaves(q)
    BY <2>4, <2>7 DEF Succeed
  <2> QED BY <1>1, <2>1, <2>2, <2>3, <2>5, <2>6, <2>7 DEF Next
<1>2. IInv /\ [Next]_vars => [\A t \in Tabs : Leaves(t)]_vars
  BY <1>1
<1> QED BY <1>2, InductiveInvariant, PTL DEF Spec, LeavesForLogin
=============================================================================
