---------------------------- MODULE AuthSession ----------------------------
(***************************************************************************)
(* The browser side of a session: the Zustand store of hooks/useAuth.ts,   *)
(* the axios interceptors of lib/api.ts, the route guard and the login and *)
(* register pages, in several tabs that share one localStorage.            *)
(*                                                                         *)
(* An action is one task of a tab: an event handler up to its await, or    *)
(* what runs when an answer arrives, the continuation of the page          *)
(* included; tasks of the tabs do not overlap.  The server behind the API  *)
(* is external: it answers a call with success, 401 or another error, and  *)
(* never issues a session twice.                                           *)
(***************************************************************************)

CONSTANTS
  Tabs,      \* browser tabs
  Sessions,  \* bound: what the server may issue, each with its own user
  None

ASSUME AuthAssumption == None \notin Sessions

VARIABLES
  storage,   \* localStorage: orchi_token, orchi_refresh_token, orchi_user
  issued,    \* sessions the server has handed out
  page,      \* per tab: the page shown
  phase,     \* per tab: "boot" before its first effects, "ready", "leaving"
  store,     \* per tab: token and user of the Zustand store
  loading,   \* per tab: isLoading
  authCall,  \* per tab: a login or register call is in flight
  apiCall    \* per tab: the token another call in flight was sent with

vars == <<storage, issued, page, phase, store, loading, authCall, apiCall>>

(* One page stands for the other public ones, one for the protected ones.  *)
AccountPages == {"login", "register"}
Protected == {"dashboard"}
Pages == AccountPages \cup Protected \cup {"home"}

Empty == [token |-> None, refresh |-> None, user |-> None]
Saved(s) == [token |-> s, refresh |-> s, user |-> s]
SignedOut == [token |-> None, user |-> None, isAuthenticated |-> FALSE]
SignedIn(tok, usr) == [token |-> tok, user |-> usr, isAuthenticated |-> TRUE]

NoCall == "none"
Ready(t) == phase[t] = "ready"

(* Variant: the guard asks localStorage, not the store.                    *)
GuardedByStorage(p, auth) ==
  IF p \in Protected /\ storage.token = None THEN "login" ELSE p

(* ProtectedRoute: what is shown when the router is sent to page p.        *)
Guarded(p, auth) == IF p \in Protected /\ ~auth THEN "login" ELSE p

----------------------------------------------------------------------------
Init ==
  /\ storage = Empty
  /\ issued = {}
  /\ page = [t \in Tabs |-> "home"]
  /\ phase = [t \in Tabs |-> "boot"]
  /\ store = [t \in Tabs |-> SignedOut]
  /\ loading = [t \in Tabs |-> FALSE]
  /\ authCall = [t \in Tabs |-> FALSE]
  /\ apiCall = [t \in Tabs |-> NoCall]

(* Variant: a navigation of the router, which keeps what is in memory.     *)
LoadKeepingMemory(t, p) ==
  /\ phase[t] = "leaving" => p = "login"
  /\ page' = [page EXCEPT ![t] = p]
  /\ phase' = [phase EXCEPT ![t] = "ready"]
  /\ UNCHANGED <<storage, issued, store, loading, authCall, apiCall>>

(* The document of tab t is loaded at page p: by the user at any time, or  *)
(* by the redirect of the interceptor.  Everything in memory is gone, and  *)
(* the calls in flight with it.                                            *)
Load(t, p) ==
  /\ phase[t] = "leaving" => p = "login"
  /\ page' = [page EXCEPT ![t] = p]
  /\ phase' = [phase EXCEPT ![t] = "boot"]
  /\ store' = [store EXCEPT ![t] = SignedOut]
  /\ loading' = [loading EXCEPT ![t] = FALSE]
  /\ authCall' = [authCall EXCEPT ![t] = FALSE]
  /\ apiCall' = [apiCall EXCEPT ![t] = NoCall]
  /\ UNCHANGED <<storage, issued>>

(* loadFromStorage: restores the store when token and user are both there. *)
Restored ==
  IF storage.token # None /\ storage.user # None
    THEN SignedIn(storage.token, storage.user) ELSE SignedOut

(* The first effects of the document.  Those of children run before those  *)
(* of their parents: the guard's Navigate, decided by a first render that  *)
(* found nobody signed in, runs before App's loadFromStorage.              *)
Boot(t) ==
  /\ phase[t] = "boot"
  /\ page' = [page EXCEPT ![t] = Guarded(@, FALSE)]
  /\ store' = [store EXCEPT ![t] = Restored]
  /\ phase' = [phase EXCEPT ![t] = "ready"]
  /\ UNCHANGED <<storage, issued, loading, authCall, apiCall>>

(* A link of the page or the navigation bar.                               *)
Follow(t, p) ==
  /\ Ready(t)
  /\ page' = [page EXCEPT ![t] = Guarded(p, store[t].isAuthenticated)]
  /\ UNCHANGED <<storage, issued, phase, store, loading, authCall, apiCall>>

(* handleSubmit up to the await of login or register; the button is        *)
(* disabled while isLoading.                                               *)
Submit(t) ==
  /\ Ready(t) /\ page[t] \in AccountPages
  /\ ~loading[t]
  /\ loading' = [loading EXCEPT ![t] = TRUE]
  /\ authCall' = [authCall EXCEPT ![t] = TRUE]
  /\ UNCHANGED <<storage, issued, page, phase, store, apiCall>>

(* Variant: refresh token and user stay those of the last session.         *)
SucceedTokenOnly(t, s) ==
  /\ authCall[t]
  /\ s \notin issued /\ issued' = issued \cup {s}
  /\ storage' = [storage EXCEPT !.token = s]
  /\ store' = [store EXCEPT ![t] = SignedIn(s, s)]
  /\ loading' = [loading EXCEPT ![t] = FALSE]
  /\ authCall' = [authCall EXCEPT ![t] = FALSE]
  /\ page' = [page EXCEPT ![t] = "dashboard"]
  /\ UNCHANGED <<phase, apiCall>>

(* The server accepts: the three items are stored, then the store is set,  *)
(* and the page that submitted goes to the dashboard.                      *)
Succeed(t, s) ==
  /\ authCall[t]
  /\ s \notin issued /\ issued' = issued \cup {s}
  /\ storage' = Saved(s)
  /\ store' = [store EXCEPT ![t] = SignedIn(s, s)]
  /\ loading' = [loading EXCEPT ![t] = FALSE]
  /\ authCall' = [authCall EXCEPT ![t] = FALSE]
  /\ page' = [page EXCEPT ![t] = "dashboard"]
  /\ UNCHANGED <<phase, apiCall>>

(* The response interceptor on 401: clears localStorage, not the store,    *)
(* and leaves for /login unless the tab is on an account page.             *)
Unauthorized(t) ==
  /\ storage' = Empty
  /\ phase' = [phase EXCEPT ![t] =
       IF page[t] \in AccountPages THEN @ ELSE "leaving"]

(* Variant: the catch block does not reset isLoading.                      *)
FailStillLoading(t) ==
  /\ authCall[t]
  /\ authCall' = [authCall EXCEPT ![t] = FALSE]
  /\ Unauthorized(t) \/ UNCHANGED <<storage, phase>>
  /\ page' = [page EXCEPT ![t] =
       IF store[t].isAuthenticated THEN "dashboard" ELSE @]
  /\ UNCHANGED <<issued, store, loading, apiCall>>

(* The server refuses the login, with 401 or otherwise: the error is kept, *)
(* and the page goes to the dashboard if the store says so.                *)
Fail(t) ==
  /\ authCall[t]
  /\ loading' = [loading EXCEPT ![t] = FALSE]
  /\ authCall' = [authCall EXCEPT ![t] = FALSE]
  /\ Unauthorized(t) \/ UNCHANGED <<storage, phase>>
  /\ page' = [page EXCEPT ![t] =
       IF store[t].isAuthenticated THEN "dashboard" ELSE @]
  /\ UNCHANGED <<issued, store, apiCall>>

(* Any other call: the request interceptor attaches the token it finds in  *)
(* localStorage at that moment.                                            *)
Call(t) ==
  /\ Ready(t)
  /\ apiCall[t] = NoCall
  /\ apiCall' = [apiCall EXCEPT ![t] = storage.token]
  /\ UNCHANGED <<storage, issued, page, phase, store, loading, authCall>>

(* Its answer: success or an error other than 401 changes nothing here.    *)
Answered(t) ==
  /\ apiCall[t] # NoCall
  /\ apiCall' = [apiCall EXCEPT ![t] = NoCall]
  /\ UNCHANGED <<storage, issued, page, phase, store, loading, authCall>>

Refused(t) ==
  /\ apiCall[t] # NoCall
  /\ apiCall' = [apiCall EXCEPT ![t] = NoCall]
  /\ Unauthorized(t)
  /\ UNCHANGED <<issued, page, store, loading, authCall>>

(* Variant: logout also resets isLoading.                                  *)
LogoutResetsLoading(t) ==
  /\ Ready(t) /\ store[t].isAuthenticated
  /\ storage' = Empty
  /\ store' = [store EXCEPT ![t] = SignedOut]
  /\ loading' = [loading EXCEPT ![t] = FALSE]
  /\ page' = [page EXCEPT ![t] = "home"]
  /\ UNCHANGED <<issued, phase, authCall, apiCall>>

(* The Logout button: logout(), then the home page.                        *)
Logout(t) ==
  /\ Ready(t) /\ store[t].isAuthenticated
  /\ storage' = Empty
  /\ store' = [store EXCEPT ![t] = SignedOut]
  /\ page' = [page EXCEPT ![t] = "home"]
  /\ UNCHANGED <<issued, phase, loading, authCall, apiCall>>

Next ==
  \E t \in Tabs :
    \/ \E p \in Pages : Load(t, p) \/ Follow(t, p)
    \/ Boot(t)
    \/ Submit(t)
    \/ \E s \in Sessions : Succeed(t, s)
    \/ Fail(t)
    \/ Call(t) \/ Answered(t) \/ Refused(t)
    \/ Logout(t)

Spec == Init /\ [][Next]_vars

(* The browser runs the first effects of a document and follows a          *)
(* redirect; the network answers a login, one way or the other.            *)
Fairness ==
  \A t \in Tabs :
    /\ WF_vars(Boot(t))
    /\ WF_vars(phase[t] = "leaving" /\ Load(t, "login"))
    /\ WF_vars(Fail(t) \/ \E s \in Sessions : Succeed(t, s))

FairSpec == Spec /\ Fairness

----------------------------------------------------------------------------
(* Properties.                                                             *)

(* The user and the tokens kept are always those of one session, in        *)
(* localStorage and in every store, whichever tabs sign in and out and     *)
(* whichever answers are late; none is kept without the others.            *)
OneIdentity ==
  /\ storage = Empty \/ \E s \in issued : storage = Saved(s)
  /\ \A t \in Tabs :
       store[t] = SignedOut \/ \E s \in issued : store[t] = SignedIn(s, s)

(* A tab has at most one login or register call in flight, and the button  *)
(* is disabled exactly while it has: no early end of isLoading lets a      *)
(* second call race with the first.                                        *)
LoadingIsInFlight == \A t \in Tabs : loading[t] <=> authCall[t]

(* A protected page is on screen only for a tab that is signed in, also    *)
(* after late answers, failed logins and reloads.                          *)
GuardHolds ==
  \A t \in Tabs :
    Ready(t) /\ page[t] \in Protected => store[t].isAuthenticated

(* A session refused outside the account pages does not stay on screen:    *)
(* the tab drops it from memory, whoever signs in or out meanwhile.  That  *)
(* is the interceptor of api.ts; the refresh and retry that the documents  *)
(* describe instead is not in the code.                                    *)
RefusalEndsSession ==
  \A t \in Tabs, s \in Sessions :
    (phase[t] = "leaving" /\ store[t].token = s) ~> store[t].token # s

(* Signing in ends: the button does not stay disabled.                     *)
LoginEnds == \A t \in Tabs : loading[t] ~> ~loading[t]

(* Comment, useAuth.ts:22: tokens are persisted for session continuity.  A *)
(* document loaded with a saved session would stay on the page asked for.  *)
SessionContinuity ==
  [][\A t \in Tabs : Boot(t) /\ Restored.isAuthenticated
       => page'[t] = page[t]]_vars

(* Comment, LoginPage.tsx:9: on success, stores the token and redirects to *)
(* the dashboard.  A failed login would not.                               *)
RedirectOnSuccessOnly == [][\A t \in Tabs : Fail(t) => page'[t] = page[t]]_vars
=============================================================================
