---------------------------- MODULE EventContext ----------------------------
(***************************************************************************)
(* The hook useEventContext and the event page that shows what it returns: *)
(* a fetch per slug, answers in any order, and a cancelled flag that the   *)
(* cleanup of the effect sets.                                             *)
(*                                                                         *)
(* One action per task of the browser's event loop.  On a deployed host    *)
(* the slug stays what it is as long as the document does; in local        *)
(* development it follows the query.  The gateway and the network are      *)
(* external: a fetch is answered with the event or fails, and an answer    *)
(* that CORS keeps from the page is a failure to it.                       *)
(***************************************************************************)
EXTENDS Addressing

CONSTANTS
  Words,     \* the fragments that texts are made of
  Pages,     \* documents: [scheme, host, port]
  Slugs,     \* values of the query parameter ?event=
  None,
  Fetches    \* bound: fetches in flight at once

(* What a URL guarantees: a host name has no slash, and a port begins with *)
(* a colon, so that it is none of the words that a host name ends in.      *)
ASSUME PagesAssumption ==
  /\ {"https://", ".", "*", "cyberorch", "com"} \subseteq Words
  /\ Slugs \subseteq Seq(Words)
  /\ \A p \in Pages :
       /\ p.scheme \in Words /\ p.host \in Seq(Words) /\ p.port \in Seq(Words)
       /\ \A i \in DOMAIN p.host : p.host[i] # "/"
       /\ \A i \in DOMAIN p.port : p.port[i] \notin {"/", "com"}
  /\ None \notin [slug : Seq(Words), cancelled : BOOLEAN]

VARIABLES
  page,      \* the document
  mounted,   \* the event page is shown
  slug,      \* of the last rendering
  effect,    \* its effect: to be run, perhaps twice, or done
  event,     \* the state of the hook: whose event is held,
  isLoading,
  error,     \* and whose error
  fetch      \* the fetches in flight

vars == <<page, mounted, slug, effect, event, isLoading, error, fetch>>

Pending == effect # "done"

Origin == <<page.scheme>> \o page.host \o page.port

(* The browser lets the page read the answer: same origin, or an           *)
(* Access-Control-Allow-Origin that names the page's.                      *)
Readable ==
  \/ ApiOrigin(page.scheme, page.host, page.port) = Origin
  \/ MatchOrigin(Origin)

----------------------------------------------------------------------------
Init ==
  /\ page \in Pages
  /\ mounted = FALSE
  /\ slug = NoSlug
  /\ effect = "done"
  /\ event = None /\ isLoading = FALSE /\ error = None
  /\ fetch = [f \in Fetches |-> None]

(* The first rendering, and those after the page was away: fresh state.    *)
Mount ==
  /\ ~mounted
  /\ mounted' = TRUE
  /\ \E query \in Slugs \cup {NoSlug} : slug' = EventSlug(page.host, query)
  /\ event' = None /\ error' = None
  /\ isLoading' = (slug' # NoSlug)
  /\ effect' = "first"
  /\ UNCHANGED <<page, fetch>>

Cancelled ==
  [f \in Fetches |-> IF fetch[f] = None THEN None
                     ELSE [slug |-> fetch[f].slug, cancelled |-> TRUE]]

Unmount ==
  /\ mounted /\ ~Pending
  /\ mounted' = FALSE
  /\ slug' = NoSlug
  /\ event' = None /\ error' = None /\ isLoading' = FALSE
  /\ fetch' = Cancelled
  /\ UNCHANGED <<page, effect>>

(* Local development: navigation to another query.                         *)
Render ==
  /\ mounted /\ ~Pending
  /\ \E query \in Slugs \cup {NoSlug} : slug' = EventSlug(page.host, query)
  /\ slug' # slug
  /\ effect' = "again"
  /\ UNCHANGED <<page, mounted, event, isLoading, error, fetch>>

(* StrictMode runs the effect of the first rendering twice.                *)
EffectRuns ==
  \/ effect' = "done"
  \/ effect = "first" /\ effect' = "again"

(* Variant: the effect does not return when there is no slug.              *)
EffectWithoutReturn ==
  /\ Pending /\ EffectRuns
  /\ isLoading' = TRUE /\ error' = None
  /\ \E f \in Fetches :
       /\ fetch[f] = None
       /\ fetch' = [Cancelled EXCEPT ![f] = [slug |-> slug, cancelled |-> FALSE]]
  /\ UNCHANGED <<page, mounted, slug, event>>

(* The cleanup of the last effect, and the effect: without a slug nothing  *)
(* is loading, and the event and the error stay what they are.             *)
Effect ==
  /\ Pending /\ EffectRuns
  /\ isLoading' = (slug # NoSlug)
  /\ IF slug = NoSlug THEN fetch' = Cancelled /\ UNCHANGED error
     ELSE /\ error' = None
          /\ \E f \in Fetches :
               /\ fetch[f] = None
               /\ fetch' = [Cancelled EXCEPT ![f] = [slug |-> slug, cancelled |-> FALSE]]
  /\ UNCHANGED <<page, mounted, slug, event>>

(* Variant: the answer is taken whether the fetch was cancelled or not.    *)
AnsweredAnyway(f) ==
  /\ fetch[f] # None /\ Readable
  /\ event' = fetch[f].slug /\ isLoading' = FALSE
  /\ fetch' = [fetch EXCEPT ![f] = None]
  /\ UNCHANGED <<page, mounted, slug, effect, error>>

(* The event arrives; a cancelled fetch changes nothing.                   *)
Answered(f) ==
  /\ fetch[f] # None /\ Readable
  /\ IF fetch[f].cancelled THEN UNCHANGED <<event, isLoading>>
     ELSE event' = fetch[f].slug /\ isLoading' = FALSE
  /\ fetch' = [fetch EXCEPT ![f] = None]
  /\ UNCHANGED <<page, mounted, slug, effect, error>>

(* Variant: the catch block does not end the loading.                      *)
FailedStillLoading(f) ==
  /\ fetch[f] # None
  /\ IF fetch[f].cancelled THEN UNCHANGED error ELSE error' = fetch[f].slug
  /\ fetch' = [fetch EXCEPT ![f] = None]
  /\ UNCHANGED <<page, mounted, slug, effect, event, isLoading>>

(* No such event, an error, an answer the page may not read.               *)
Failed(f) ==
  /\ fetch[f] # None
  /\ IF fetch[f].cancelled THEN UNCHANGED <<error, isLoading>>
     ELSE error' = fetch[f].slug /\ isLoading' = FALSE
  /\ fetch' = [fetch EXCEPT ![f] = None]
  /\ UNCHANGED <<page, mounted, slug, effect, event>>

Next ==
  \/ Mount \/ Unmount \/ Render \/ Effect
  \/ \E f \in Fetches : Answered(f) \/ Failed(f)

Spec == Init /\ [][Next]_vars

(* Effects run, and a fetch is answered or fails in the end.               *)
FairSpec ==
  Spec /\ WF_vars(Effect) /\ \A f \in Fetches : WF_vars(Answered(f) \/ Failed(f))

----------------------------------------------------------------------------
(* Properties.                                                             *)

TypeOK ==
  /\ page \in Pages
  /\ mounted \in BOOLEAN /\ isLoading \in BOOLEAN
  /\ effect \in {"first", "again", "done"}
  /\ \A s \in {slug, event, error} \ {None} : s \in Seq(Words)
  /\ \A f \in Fetches : fetch[f] # None =>
       fetch[f].slug # NoSlug /\ fetch[f].cancelled \in BOOLEAN

(* Once its effect has run, the page shows the event of its own slug, the  *)
(* error of its own slug, or that it is loading: never the event or the    *)
(* error of a slug it showed before, whatever the order of the answers.    *)
ShownIsCurrent ==
  mounted /\ ~Pending /\ slug # NoSlug /\ ~isLoading =>
    error = slug \/ (error = None /\ event = slug)

(* The spinner goes away: by the answer, the error, or another rendering.  *)
LoadingEnds == (mounted /\ isLoading) ~> (~isLoading \/ ~mounted \/ Pending)

(* As its manifest configures it, the gateway lets exactly the pages of    *)
(* the platform read answers: the root domain and all its subdomains, over *)
(* https and on the default port; a name that merely ends in the same      *)
(* letters is somebody else's.  (The documents list single hosts instead.) *)
PlatformPage ==
  /\ page.scheme = "https://" /\ page.port = <<>>
  /\ \/ page.host = Apex
     \/ \E i \in 2..Len(page.host) :
          page.host[i] = "." /\ SubSeq(page.host, i + 1, Len(page.host)) = Apex

OriginsExact == MatchOrigin(Origin) <=> PlatformPage

(* The frontend and the gateway agree on host names: whatever page of the  *)
(* platform fetches an event, it calls api.cyberorch.com, may read the     *)
(* answer, and has a name in front of the root domain that is the slug and *)
(* is not reserved.                                                        *)
EventHostsWork ==
  (\E f \in Fetches : fetch[f] # None) /\ PlatformPage =>
    /\ Readable
    /\ ApiOrigin(page.scheme, page.host, page.port) = <<"https://", "api", ".">> \o Apex
    /\ EventSlug(page.host, NoSlug) \notin ReservedSubdomains
    /\ IsPrefix(EventSlug(page.host, NoSlug) \o <<".">>, page.host)
    /\ page.host # Apex
=============================================================================
