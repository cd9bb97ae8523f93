# A verification project for Orchi

Orchi is a platform for capture-the-flag events: a REST gateway in Go
(`api/`, `cmd/api-gateway`), placeholder daemons (`cmd/*`), a React frontend
(`frontend/`), shell scripts that create events and deploy the platform
(`scripts/`), and Kubernetes manifests (`k8s/`). This directory holds TLA+
modules of the parts that have state and concurrency, the TLC runs that check
them, and TLAPS proofs about the core. Modules are checked with TLC and
proved with tlapm 1.4.5; `PROJECT.json` lists runs, mutants, theorems, the
source lines behind every definition, and the hazards.

## 1. Inventory

### Rate limiter (`api/middleware/middleware.go:167-260`)

- State: `requests`, a map from client address to the timestamps of admitted
  requests; a mutex; a stop channel; a ticker.
- Operations: `Allow` (prune, count, append), `evictStale` (prune all keys),
  the `cleanup` goroutine that calls it once per window, `Stop`.
- Hard: every request goroutine and the cleanup goroutine share the map; the
  clock is read inside the critical section; timestamps exactly one window old.
- Correct when: no window has more than `limit` admissions, nobody is rejected
  otherwise, forgetting entries never changes a decision, idle keys leave the
  map, the goroutine ends.

### API gateway process (`api/router.go`, `api/middleware`, `api/handlers`)

- State: the limiters `authLimiter` (10/min, shared by register, login and
  refresh), `apiLimiter` (120/min, shared by events and teams) and the one of
  flag verification (30/min). Handlers are placeholders without state.
- Operations: one per request; RequestID, SecurityHeaders and CORS around the
  mux, then per route the token check, a limiter and a method filter, in the
  order that `chain` gives them.
- Hard: the order of the chain, limiters shared by routes, requests of one
  address that are between two middlewares at the same time, and the key: the
  ingress and the connections of a client must not be taken for the client,
  while X-Forwarded-For is taken from any request.
- Correct when: a request without a valid token is neither served nor charged
  on the routes that check the token first; the account routes keep their
  joint budget per client that requests count as; nobody is refused for
  requests in another name, or for preflights; an answer is final.

### Gateway deployment (`cmd/api-gateway/main.go`, `k8s/base/workloads/api-gateway-deployment.yaml`)

- Three replicas, an autoscaler (3 to 20), rolling updates with surge. Each
  process has its own limiters, in memory.
- Hard: restarts forget, replicas do not share.
- Correct when: what the documentation promises per client holds for the
  deployment (it does not), or at least a bound that depends on how many
  processes served the client.

### Live scoreboard client (`frontend/src/hooks/useScoreboard.ts`, `ScoreboardPage.tsx`)

- State: two refs (socket, timer), an attempt counter, `isConnected`; the
  sockets and timers of the browser.
- Operations: connect, disconnect, onopen, onclose, onerror, the reconnect
  timer, the effect and its cleanup.
- Hard: `close()` is asynchronous, so onclose runs after the cleanup that
  caused it; closures keep old event ids; the token may go in the meantime.
- Correct when: a shown page keeps trying, attempts do not multiply, the
  indicator is right.

### Browser session (`useAuth.ts`, `lib/api.ts`, `ProtectedRoute.tsx`, `App.tsx`, login and register pages)

- State: a store per tab, localStorage shared by all tabs.
- Operations: login, register, logout, restore, the two axios interceptors,
  the route guard.
- Hard: awaits, several tabs, the order of effects, 401s that arrive late.
- Correct when: user and tokens belong together, one login at a time, guarded
  pages stay guarded, refused sessions end.

### Event context (`useEventContext.ts`, `EventPage.tsx`, `lib/api.ts:14-28`, `middleware.go:85-165`)

- State: the slug of the last rendering, the event, the error and the loading
  flag of the hook, and the fetches in flight, each with its cancelled flag.
  The host name of the page decides the slug (`useEventContext.ts`), the origin
  of the API (`api.ts`) and whether the gateway lets the page read an answer
  (CORS patterns).
- Operations: rendering, the effect and its cleanup, an answer, an error.
- Hard: answers in any order, renderings between a fetch and its answer, three
  pieces of code that take host names apart on their own.
- Correct when: the page never shows the event or the error of another slug,
  the spinner goes away, the frontend calls an API that answers it, and exactly
  the pages of the platform may read answers.

### Shutdown of the daemons (`cmd/*/main.go`)

- State: the goroutines of the servers, the channel of the signal, the context
  with its one 10 s deadline, connections with and without a request.
- Operations: start, a server that fails, a signal, `Shutdown` of one or two
  servers in a row; the store closes a plain listener instead of one of them.
- Hard: a signal before or while the servers start, a second signal, requests
  that last as long as they like, a failure of one server while the other is
  drained.
- Correct when: the process is gone by the deadline, a request is cut off only
  for a reason one can name, no process is half alive, every signal ends it.

### Event scripts and workflows (`scripts/create-event.sh`, `.github/workflows/{create,stop}-event.yml`)

- State: the Event resource and the lab namespace in the cluster.
- Operations: create or update, delete, list, with prompts and a wait of 18
  attempts; the workflows do the same without prompts, and the stop workflow
  leaves the lab alone.
- Hard: concurrent runs, an interruption or a failed call between two deletes,
  a check that is old when it is acted upon, the operator in between.
- Correct when: a running event has its lab, a lab outlives its event only
  where somebody left it, nothing is replaced without a question, every run
  ends.

### Deployment script, backup job

`scripts/deploy.sh` (validate, apply, wait, verify; remove all with ignored
errors) and `backup-cronjob.yaml` (archive, upload, expire after 7 days, up to
two retries). Not modelled: see section 6.

### Not worth a model

The migration job, the store, operator, VNC proxy and amigo daemons apart
from their shutdown, data models, static pages, manifests: placeholders or
configuration without behaviour of their own.

### How the parts interact

    browser tab --REST--> service --> gateway process --> handlers
        |                    |             |
        |                    |        limiters, one set per process
        |                    +--> any of the replicas
     localStorage, shared by tabs
        |
     useScoreboard --WebSocket--> (the gateway has no such route yet)

## 2. Modules

| Module | Models | Uses |
| --- | --- | --- |
| `SlidingWindow` | what a limiter promises: one atomic decision from the full history | |
| `RateLimiter` | the limiter's goroutines, mutex, map and eviction | refines `SlidingWindow` |
| `RateLimiter_proofs` | inductive invariant, safety theorems, refinement theorem | `RateLimiter`, TLAPS |
| `GatewayContract` | what the gateway promises: one answer per request, in one step, charged to one budget | |
| `Gateway` | one process: routes, chains, keys, concurrent requests | refines `GatewayContract`; `SlidingWindow`, one per limiter |
| `Gateway_proofs` | inductive invariant, safety theorems, two refinement theorems | `Gateway`, TLAPS |
| `GatewayCluster` | replicas that start and exit, a limiter each | `SlidingWindow`, one per process |
| `GatewayCluster_proofs` | inductive invariant, safety and refinement theorem | `GatewayCluster`, TLAPS |
| `ScoreboardClient` | the scoreboard hook in the browser's event loop | |
| `ScoreboardClient_proofs` | inductive invariant, safety theorems | `ScoreboardClient`, TLAPS |
| `AuthSession` | tabs, stores, localStorage, interceptors, guard | |
| `AuthSession_proofs` | inductive invariant, safety theorems | `AuthSession`, TLAPS |
| `Daemon` | the life of the five daemons: start, signals, failures, shutdown | |
| `Daemon_proofs` | inductive invariant, safety theorems | `Daemon`, TLAPS |
| `EventLifecycle` | scripts and workflows that create and delete one event, the operator | |
| `EventLifecycle_proofs` | inductive invariant, safety theorems | `EventLifecycle`, TLAPS |
| `Addressing` | pure: slug, API origin and CORS matching of a host name | |
| `EventContext` | the hook of the event page, on any host | `Addressing` |
| `EventContext_proofs` | lemmas about host names, inductive invariants, safety theorems | `EventContext`, TLAPS |

`MC*` modules extend these for TLC, with symmetry sets and input sets. Where a
definition is called a *Variant* in its comment, it is a plausible mistake
kept next to the definition it would replace; `PROJECT.json` says which
property refutes it.

### RateLimiter

`requests`, `mu`, `now` and `key` are the variables of the code. A goroutine's
`pc` says which statement is next: lock, read the clock, decide (or sweep).
`Admit` and `Reject` are the rest of `Allow` on its two paths, with the pruning
that both do and the deferred unlock. `tick` is the ticker's channel of
capacity one: a tick is dropped when the last one has not been taken, and
`select` may take it even when the stop channel is closed.

A timestamp is represented by the request that it stems from, its value by
that request's `now`; so two requests at the same instant stay two entries, as
in the slice. The order in the slice is left out: the code never uses it.

### Gateway

`todo[r]` is the part of the chain that request `r` has still to pass, so two
requests of one address may be between any two of their middlewares. The
limiters are instances of `SlidingWindow`: `Refinement` of `RateLimiter_proofs`
is what allows `Gateway` to take a decision in one step, and
`LimitersAreSlidingWindows` closes the composition from the other side. The
history `decisions` is shared by the limiters; `Ledger(l)` is what limiter `l`
has decided. A token is valid or not: no handler looks at the claims yet.

`GatewayContract` has no middlewares. A request is answered in one step; the
answer follows from the request, unless its client has used up the budget of
its route. Only requests that lack the token they need, and those on routes
without a budget, are free. `Promised` is the answer that a route gives when
neither token nor budget stand in the way. The refinement mapping `Settled`
takes a request as answered as soon as a limiter has let it pass: what is left
of its chain can no longer change anything.

A request comes from a client address and a port of it, with or without an
X-Forwarded-For of its own, straight to the gateway or through an ingress,
which is then the remote address. nginx, the ingress class of `k8s/`, by
default overwrites the header; an ALB, the other choice of
`docs/aws-deployment.md`, appends to it (Traefik, in the architecture
documents, overwrites it unless it is told to trust the sender). `Forwarded` is
the header as it reaches the gateway, and `ClientKey` what `RateLimit` makes of
it and of the remote address. The middleware believes the header of any
request (middleware.go:267-269). So the properties speak of the client that a
request counts as (`Client`), which is the one that sent it if it came through
nginx or names nobody, and otherwise the one it names. They say nothing about
how many requests one sender can have examined under several names: the code
sets no bound on that. Only the first address of the header is looked at, so
the model has no longer ones; an address may come with a port there, too, and
loses it the same way. `HEAD`, `PUT` and `PATCH` are treated like `DELETE` by
every route of the table, so `DELETE` stands for them.

### GatewayCluster

A process is new, up or gone; a new one has empty limiters, whichever way the
last one ended. It follows one limiter and one client.

### ScoreboardClient

One action per task of the event loop. A socket goes from connecting to open
to closing to closed; `OnClose` runs at any time after `ClosedBy`. Names of
sockets and timers are reused once nothing refers to them, with the effect
that the state space is finite although reconnecting goes on for ever. The
attempt counter saturates where the delay does (the fifth attempt: 2^5 s is
more than 30 s). Delays themselves are left out: a pending timer may fire at
any time, so every order of timers and socket events is explored. The
WebSocket server is external; it accepts, refuses or drops.

### AuthSession

One action per task of a tab; tasks of different tabs do not overlap. That is
what a browser gives to tabs of one process; between processes the three
`setItem` calls may interleave, which is listed as a hazard and not modelled
yet. A document has a phase: `boot` until its first effects have run, `ready`,
and `leaving` between the interceptor's redirect and the new document. The
server is external and may answer any call with success, 401 or another
error; each success is a new session with its own user.

### Daemon

One module for five programs, as their `main` has one shape: `daemon` is the
list of servers in the order in which main shuts them down, and which of them
is a plain listener (the `ln` of the store). `main` is where the main goroutine
is, `srv` where the goroutine of each server is: starting, binding, serving,
returned or failed. net/http is external and modelled by its documentation and
by how the code depends on it: `Shutdown` marks the server, closes its
listener, waits for its serve loop, closes idle connections and returns when no
request is left or the context is done; a serve loop may still hand over the
connection it had just accepted; `ListenAndServe` looks for the mark before and
after it binds. `log.Fatalf` in a goroutine ends the process.

`now` counts from the signal, and only while `Shutdown` waits: everything else
that can go on does so in far less than a clock unit. So `ExitByDeadline` says
that one `Timeout` (10 s) bounds the whole of it, which leaves 20 s of the 30 s
that the kubelet grants. The accept loop of the store is exempt from
`AllOrNothing`: it ends on any error without anybody noticing, and
`orchi_store_up 1` stays in the metrics.

### EventLifecycle

`event` and `lab` are the cluster; a run is one execution of a script or a
workflow, `pc` its next call of kubectl. Every call may fail; `set -e` then
ends the run, unless the call is a condition, which then reads as false. The
operator is external (`k8s/README.md`): it makes the lab of an event that has
none, and sets the phase of a spec that it has not dealt with yet. Namespaces
take a while to go. The module is about one tag: scripts with other tags share
nothing with these.

Three history variables make the properties exact. `left` are the runs that
deleted the event and, being interrupted or the stop workflow, left its lab;
`misled` are those about to apply with a check that was wrong or has become
so; `crossed` are deleting runs in the middle of which an event was created.
They are read by no action of the program. Clean-up by anything but the scripts
(owner references, finalizers) is not modelled: the code sets none.

### Addressing and EventContext

Host names, origins and patterns are sequences of fragments, as fine as the
code's own splitting and no finer; adjacent fragments make one word, so that a
domain that merely ends in the same letters is told apart from a subdomain.
`Localhost` stands for `localhost` and the two IP addresses next to it. An
override of the API's address at build time (`VITE_API_URL`) is not modelled;
the allowed origins are those of the deployed configuration, in which prefix
and suffix of a pattern cannot overlap in a valid origin.

`effect` says whether React has still to run the effect of the last rendering,
twice in StrictMode; renderings, effects, answers and errors are tasks of their
own. `event` and `error` hold the slug that they are about.

## 3. Runs

| Run | Shows |
| --- | --- |
| `limiter_safety` | window limit, no needless rejection, eviction is harmless, the map holds what later decisions need of the history and nothing else, it refines the full history |
| `limiter_liveness` | calls return, idle keys leave the map, Stop ends the goroutine |
| `gateway_routes` | the joint budget of register, login and refresh per client, tokens before budgets, which routes answer without a token, no refusal for requests in another name; the chains implement the gateway's contract |
| `cluster` | admissions bounded by limit times processes that served |
| `scoreboard` | keeps trying, chains bounded, Live means open |
| `auth_session` | one identity, one login at a time, guarded pages; refused sessions leave the tab, logins end |
| `daemon` | gone by the deadline, losses explained, never half alive; every signal ends the process |
| `event_lifecycle` | running events have labs, orphans and overwrites explained; every run ends |
| `event_context` | never another slug's event or error, the spinner ends; host names mean the same to frontend, API address and CORS |

Runs that refute something the repository says (`expect: violation`):

| Run | Statement | What happens |
| --- | --- | --- |
| `scoreboard_reconnect` | automatic reconnection (useScoreboard.ts:21) | connect throws in the timer, no further attempt |
| `auth_reload` | session continuity (useAuth.ts:22) | a reload of a guarded page ends on /login |
| `auth_redirect` | redirect on success (LoginPage.tsx:9) | a failed login redirects in a signed in tab |

Disagreements that need no run, as the code shows them on a page or two, often
in the words of the positive property that is checked instead:

- The login budget of 10/min (api-specification.md:442) is spent by register,
  refresh and wrong methods as well (router.go:49; `AccountBudget`), and every
  replica grants its own (`BoundedByProcesses`).
- Submissions are limited per address, not per team (router.go:170,
  api-specification.md:443). `RATE_LIMIT_PER_MINUTE` of the manifest is not
  read: main.go has 120 in its source.
- The limits are per IP (middleware.go:262, api-specification.md:442); the
  middleware counts per first address in X-Forwarded-For, whoever sent it, so
  only behind an ingress that overwrites the header is that the client's IP.
- The events are authenticated endpoints (router.go:32, frontend-design.md:68),
  as is everything not marked public (api-specification.md:6, 143); the comments
  next to the chains say that listing is public (router.go:92) and the lookup by
  slug, too (router.go:111), and neither chain checks a token.
  `SuccessNeedsToken` goes by the comments next to the chains.
- A 401 is to be answered by refreshing the token and sending the request again
  (security-model.md:37-42, frontend-design.md:255-263); the interceptor of
  api.ts:50 drops the session and goes to the login page, and nothing in the
  frontend calls `/auth/refresh`. `RefusalEndsSession` is about that
  interceptor.
- The documents list two origins each (`https://staging.cyberorch.com` next to
  the root domain at api-specification.md:461, `https://app.cyberorch.com` at
  deployment-guide.md:212). The manifest and the code have a pattern for all
  subdomains, which event pages need. `OriginsExact` is about the manifest
  (api-gateway-deployment.yaml:136). The event page would take `app` for the
  slug of an event (useEventContext.ts:8).
- 405 answers have no body (router.go:218, api-specification.md:413).
- One WebSocket per user (api-specification.md:447): a page that was left
  reconnects next to the new one (useScoreboard.ts:66; `ChainsBounded`).
- The onclose of a replaced socket turns the indicator off while its successor
  is open (useScoreboard.ts:59).
- Requests carry the token of localStorage, not of the store (api.ts:42,
  frontend-design.md:248).
- Any failure of the fetch, a 429 or a lost network included, is shown as an
  event that does not exist (useEventContext.ts:92).
- `create-event.sh` accepts tags such as `www` or `api`, whose page can never
  be reached: the frontend reserves them (useEventContext.ts:8).
- After an update, the first poll may read the phase of the spec before
  (create-event.sh:382).
- The page of the scoreboard never shows a team: rows are only updated, and
  the list begins empty (ScoreboardPage.tsx:16-30).
- `deploy.sh` reports that all resources have been removed after deletes whose
  errors it ignores (deploy.sh:332).

### Bounds and why they are enough

- Limiter: four calls of two clients and a limit of two: a third call of one
  client is rejected while the fourth belongs to the other, or four compete.
  The clock runs for five units with a window of two, so entries expire and
  are swept twice. `MaxTime` only stops the clock.
- Limiter liveness: three calls of one client with a limit of one: admitted,
  rejected, and one that needs the mutex after the rejection. `StaleKeysEvicted`
  is asked only when one more window fits below `MaxTime`.
- Gateway: two requests and limits of one, so that the second request is
  refused by each limiter. Every pair of routes, methods, tokens and bodies of
  one client is tried, and for the account routes every pair of two clients, two
  ports, directly or by either ingress, that name nobody, themselves or each
  other. Properties relate at most two
  requests, and a decision of a limiter is one step.
- Cluster: limit one, two processes at once, three in sequence, five requests.
- Scoreboard: two mounts, each with one more run of its effect, two events,
  three sockets and three timers in use at once. TLC cuts behaviours that would
  need a fourth socket or timer: chains are created by effects only, four at
  most, and three already refute each variant.
- Daemon: all five programs, three connections and a deadline of two units. A
  server has a request, an idle connection and another request at once, and
  both servers can have one; requests end before the deadline, at it, or never.
  `MaxTime` is beyond every deadline the code sets.
- Event lifecycle: three runs, of any jobs: one that deletes, one that creates
  in the middle of it, and one more; two attempts of the wait, so that there is
  a first and a last one.
- Event context: ten hosts (local, the apex, subdomains of one and two levels,
  reserved ones, look-alikes at either end), two schemes, two ports; two slugs,
  and three fetches in flight, two of which are cancelled.
- Session: two tabs and two sessions; the properties compare two sessions or
  two tabs.

The clocks stop at their bound and finite sets of requests end, hence
`CHECK_DEADLOCK FALSE` where it is set; a browser tab may also be left alone.

### Fairness

- `RateLimiter`: the Go scheduler runs every goroutine that can run (weak
  fairness of the steps outside the lock); `sync.Mutex` hands itself to a
  waiter that has starved (strong fairness of `Lock`); a `select` with two
  ready cases picks at random, so a closed stop channel is taken eventually
  (strong fairness of `SelectStop`); time passes.
- `AuthSession`: the browser runs the first effects of a document and follows
  a redirect; a login request is answered or fails in the end. Nothing is
  assumed of the user or of other calls.

- `Daemon`: the scheduler runs main and the serve loops, and time passes.
  Nothing is assumed of handlers and clients: `SignalEnds` holds although a
  request may hang for ever.
- `EventLifecycle`: a run that can make its next call does (weak fairness of
  `Step`). Nothing is assumed of prompts, of the operator, of the cluster's
  answers, or of interruptions.
- `EventContext`: effects run, and a fetch is answered or fails in the end.

Other modules state safety only.

## 4. Proofs

`RateLimiter_proofs`, for any number of requests and keys and any limit,
window and bound of the clock. Assumption: `ConstantsAssumption` (the cleanup
goroutine is no request, the numbers are natural, the window is positive). The
set of requests may be infinite: that only finitely many have been admitted is
part of the invariant.

| Theorem | Statement |
| --- | --- |
| `TypeCorrect` | `Spec => []TypeOK` |
| `LimitHolds` | `Spec => []WindowLimit` |
| `RejectionJustified` | `Spec => []NoNeedlessRejection` |
| `MapSuffices` | `Spec => []MapMatchesHistory` |
| `EvictionSafe` | `Spec => EvictsOnlyExpired` |
| `Refinement` | `Spec => ImplementsSlidingWindow` |
| `MutexNeverLeftLocked` | `Spec => []MutexHeld`: the mutex is free, or its one holder is between Lock and its decision |

The inductive invariant. None of the properties is inductive: each speaks of
results, and says nothing of a goroutine that has read the clock and not yet
decided. The invariant adds who holds the mutex (exactly the goroutine between
Lock and its decision), that a reading of the clock is never ahead of it, that
every entry of the map is an admitted request of that key (`MapSound`), and
`MapCoversWindow`: an admitted request is in the map or outside the window of
the clock and of every decision in progress. From these, what `Allow` counts in
the map is exactly what the history has in the window, as readings of the clock
are taken under the mutex and therefore in the order of the decisions. That
equality is the heart of the limit, of the justified rejection, and of the
refinement: the step of `Admit` or `Reject` is the step of the abstract
limiter, every other step stutters or lets time pass.

`AuthSession_proofs`, for any set of tabs and any set of sessions. Only
`EndedSessionsStayEnded` needs `AuthAssumption` (`None` is no session).

| Theorem | Statement |
| --- | --- |
| `IdentityNeverMixed` | `Spec => []OneIdentity` |
| `OneLoginAtATime` | `Spec => []LoadingIsInFlight` |
| `GuardIsKept` | `Spec => []GuardHolds` |
| `EndedSessionsStayEnded` | `Spec => EndedForGood`: a session dropped by localStorage and by every tab never comes back |
| `RefusedTabsLeave` | `Spec => LeavesForLogin`: a tab told to leave stays so until it is a signed-out login page |

The inductive invariant: the shape of the per-tab state, and that localStorage
and every store are signed out or hold the user and the tokens of one issued
session (`IdentityInv`). A restored store needs the second for localStorage,
and a new session must not change what the other tabs hold.

`Daemon_proofs`, for any set of connections and any timeout, from
`ConstantsAssumption` (the timeout is natural, `None` is no connection).

| Theorem | Statement |
| --- | --- |
| `TypeCorrect` | `Spec => []TypeOK` |
| `ExitsByDeadline` | `Spec => []ExitByDeadline` |
| `LossesExplained` | `Spec => []LossExplained` |
| `NeverHalfAlive` | `Spec => []AllOrNothing` |
| `ShutdownCountsDown` | `Spec => CountsDown`: every step of main and every unit of time brings the end nearer |

The inductive invariant: the clock has not passed the one deadline
(`ClockInv`); nobody is connected before the servers are started (`BootInv`);
every HTTP server that main has dealt with is finished, that is, it was asked
to stop, its loop is over, it has no idle connection, and no request unless the
deadline has passed (`PastInv`). The last is what makes the second `Shutdown`
safe for the first server: nothing can come back to it. When main returns, all
of its servers are finished, so that a lost request means a passed deadline.
`Remaining` counts the servers still to be shut down, whether the current one
has been called, and the time left; clients, handlers and further signals
cannot raise it.

`EventLifecycle_proofs`, for any set of runs and any number of polls, from
`ConstantsAssumption` (there is a poll, `None` is no event).

| Theorem | Statement |
| --- | --- |
| `TypeCorrect` | `Spec => []TypeOK` |
| `RunningEventsHaveLabs` | `Spec => []RunningHasLab` |
| `OrphansExplained` | `Spec => []OrphanExplained` |
| `OverwritesAsked` | `Spec => OverwriteAsked` |
| `RunsWindDown` | `Spec => EffortFalls`: every call of a run lowers the number of those it may still make |

The inductive invariant: while there is an event, every run between its two
deletes is crossed (`CrossedInv`); the one that took the lab of a running event
has left its deletes behind (`TakenInv`), so that no clean-up of the history
forgets it; and who is about to apply over an event without a question is
misled, or the workflow (`MisledInv`). `Effort(r)` bounds the calls that a run
has before it: at most `MaxPolls + 5`, whatever the cluster answers.

`EventContext_proofs`, for any set of pages, any slugs and any number of
fetches. A host name is any sequence of words, of any length. The theorems
but the first rest on `PagesAssumption`: slugs and host names are sequences of
words, no host contains a `/`, and no port contains one or looks like a domain.

| Theorem | Statement |
| --- | --- |
| `NeverShowsAnotherEvent` | `Spec => []ShownIsCurrent` |
| `TypeCorrect` | `Spec => []TypeOK` |
| `OriginsAreExact` | `Spec => []OriginsExact` |
| `EventHostsAlwaysWork` | `Spec => []EventHostsWork` |
| `SpinnerHasItsFetch` | `Spec => []SpinnerInv`: once the effect has run, at most one fetch is live, and the page is loading exactly while there is one |

For the first, the inductive invariant says that once the effect has run, only
fetches for the current slug are live (`LiveInv`), and an error of another slug
has been cleared (`ErrorInv`). The two about host names are facts about one
page: its slug is what the hook makes of its host (`PageInv`), and the rest are
lemmas about the operators of `Addressing`. They need the first dot of a host,
which exists because a set of naturals that is not empty has a least element;
that takes the well-foundedness of the naturals (`WFMin`) and no induction
over the host. `OriginsExact` is then a comparison of the origin with prefix
and suffix of the pattern, position by position.

`Gateway_proofs`, for any set of requests, of inputs and of addresses, and any
limits, from `GatewayAssumption` (the inputs are requests, the ingress is no
client, the numbers are natural).

| Theorem | Statement |
| --- | --- |
| `TypeCorrect` | `Spec => []TypeOK` |
| `AccountBudgetHolds` | `Spec => []AccountBudget` |
| `RefusedTokensAreFree` | `Spec => []RefusedTokenIsFree` |
| `SuccessesNeedTokens` | `Spec => []SuccessNeedsToken` |
| `RefusalsAreEarned` | `Spec => []RefusalIsEarned` |
| `AnswersAreFinal` | `Spec => AnswerIsFinal` |
| `Refinement` | `Spec => ImplementsContract` |
| `LimitersAreSlidingWindows` | `Spec => Limiter(l)!Spec` for each limiter `l` |

The inductive invariant: what a request may still have to pass is a suffix of
some chain (`StateInv`); every decision is about the client that its
request counts as, however that came (`DecisionInv`); a request that still has its limiter before
it has not been charged (`ChargeInv`), one without a valid token never gets past
the token check (`TokenInv`), and the account routes go by the `auth` limiter
and nothing else (`RouteInv`); no limiter has admitted more of a client in a
window than its limit (`WindowInv`). `AccountBudget` follows because whoever was
examined on an account route was admitted by that one limiter.

For `Refinement`, `PathInv` adds how far each request has come: what is left of
the chain of its route, that it is charged exactly when its limiter is behind
it, and that its method is the right one once the filter is. The step of a limiter
is then the abstract `Charge`; the answer of a method filter or a handler behind
a limiter stutters, as it was settled by the limiter; every other answer is the
abstract `Reply`. In `LimitersAreSlidingWindows`, what one limiter counts in the
shared history is what the abstract limiter counts in `Ledger(l)`
(`LimiterCounts`), and a decision of another limiter leaves `Ledger(l)` alone.

`GatewayCluster_proofs`, for any number of processes and requests, from
`ClusterAssumption` (the processes are finitely many, the numbers natural):
`BudgetPerProcess` is `Spec => []BoundedByProcesses`. The bound is not inductive:
when time passes, a window loses admissions and with them processes. `PartsInv`
states it for every subset of a window's admissions. A decision of process p
then splits each subset into the part of p, which p's own limiter bounds, and
the rest, which the invariant bounds; so no induction over processes is needed.
`ProcessesAreSlidingWindows` is `Spec => Limiter(p)!Spec` for each process `p`:
seen by itself, a process is the limiter of `RateLimiter`, however the others
start, serve and end.

`ScoreboardClient_proofs`, for any mounts and events, any number of reruns, and
any finite number of sockets and timers, from `ScoreboardAssumption`.

| Theorem | Statement |
| --- | --- |
| `TypeCorrect` | `Spec => []TypeOK` |
| `AlwaysTrying` | `Spec => []KeepsTrying` |
| `ChainsStayBounded` | `Spec => []ChainsBounded` |
| `LiveIsOpen` | `Spec => []LiveMeansOpen` |

The inductive invariant: sockets in use and pending timers belong to a mount;
the socket that a mount holds is its own unless it is closed (`RefInv`), and so
is the timer it remembers, which is pending (`TimerInv`). `disconnect()`
therefore never ends a chain of another mount. `onclose` turns a socket's chain
into a timer's, a timer's connect turns it back: the number of chains changes
only when the effect runs. That there is at most one chain while the effect has
run once is what the exact half of `LiveMeansOpen` rests on.

Only model-checked: the liveness properties, as fairness and ENABLED are outside
what tlapm proves. What is safety in them is proved: the mutex is never left
locked (`MutexNeverLeftLocked`), a spinner has a fetch to wait for
(`SpinnerHasItsFetch`), a refused tab can only go to the login page
(`RefusedTabsLeave`), and the steps of a run and of a shutdown are numbered
downwards (`RunsWindDown`, `ShutdownCountsDown`). What remains to TLC is that
the scheduler, the browser and the clock do take those steps.

## 5. Plan

In this order:

1. Score updates: the messages of `ScoreboardClient` and the page's list, with
   two sockets and reordering, once the page shows rows at all.
2. `AuthSession` with the writes of localStorage one by one.

## 6. Not modelled

- What ServeMux does before routing: it redirects unclean paths and `/…/teams`
  to the canonical path, whose request then is one of those modelled.
- The `if (eventId)` of the scoreboard's effect: the page passes a constant id.
- A `kubectl delete` that hangs on a finalizer: the code sets none, and
  `RunsEnd` relies on it.
- `scripts/deploy.sh`: applies and deletes lists of manifests in order. What it
  leaves behind is decided by the API server; the script keeps no state and
  decides nothing but whether to go on.
- `backup-cronjob.yaml`: one pipeline in one pod, `concurrencyPolicy: Forbid`.
- `cmd/migration`: logs its phases and writes nothing. The logic of operator,
  store, VNC proxy and amigo: fixed answers; only their life is modelled.
- `api/models`, `frontend/src/types`: data without behaviour.
- Static pages, manifests, images: mock data and configuration. The replica
  numbers and the grace period are used where they matter.
- `--list` and `--dry-run` of `create-event.sh`, which change nothing, and the
  writing of its YAML.
