# hostyara: verification project

TLA+ models of hostyara's run-time core, TLC configurations that check them on small
instances, and TLAPS proofs of the properties that hold for every instance.

hostyara is a micro-frontend platform. A React shell (`apps/host`) opens sub-apps, as
module-federation remotes or in iframes, inside the household ("space") the user chose. A
BFF (`apps/bff`) owns the browser's session, asks identity-service who may do what, and
proxies sub-app calls to their backends. `packages/` holds the contracts between shell and
sub-apps.

## 1. Inventory

Paths are relative to the repository root. *State* is what survives between two steps.

### BFF (`apps/bff/src`)

| Part | State | Operations | What makes it correct |
|---|---|---|---|
| Introspection cache: `access/introspection-cache.ts`, `household-access.ts`, `decide-gateway-access.ts` | in-memory Map (session, household) -> introspection, expiry | get, set with pruning, invalidate, `loadHouseholdAccess` | decisions are never older than a bound; an invalidation takes effect; entries are not shared between users |
| Gateway: `routes/gateway.ts`, `gateway/*` | none of its own | decide, find backend, ask for a token, forward | nothing is forwarded that identity-service did not allow; a request reaches its backend's address and no other, without cookies |
| Webhook, event hub, SSE: `routes/access-webhook.ts`, `events/access-event-hub.ts`, `routes/access-events.ts` | listeners; per stream a queue, a wake-up and a timer | publish, subscribe, write, heartbeat, abort | no event is lost or reordered on an open stream; the stream ends with the session; no listener leaks |
| Sessions: `session/*`, `routes/auth.ts`, `routes/identity-passthrough.ts` | Postgres rows `bff_sessions`, `login_challenges`; browser cookies | sign up/in, 2FA, `me`, keep-alive, logout, sweep | a session ends everywhere once identity-service ended it; nothing resurrects it; identity cookies do not go backwards |
| identity client: `identity/client.ts`, `cookie-jar.ts` | none | calls with a timeout, folding of Set-Cookie | outcomes classified once and for all; answers applied one by one or together leave the same jar |
| HTTP edges: `middleware/*`, `config/*`, `routes/health.ts`, `db/*`, `main.ts` | none, hourly sweep | CSRF origin check, client IP, environment, migrations | a request that changes something comes from the shell's own pages; nobody writes another's address |

### Shell (`apps/host/src`)

| Part | State | Operations | What makes it correct |
|---|---|---|---|
| Access tracker: `api/accessTracker.ts`, `bffClient.ts`, `createSdkAccess.ts` | hid, snapshot, status, generation, EventSource, reconnect timer | setHid, load, refresh, close, SSE handlers | the snapshot is of the household shown and follows identity-service; one stream at most |
| Slot: `chrome/AppSlot.tsx`, `chrome/appAccess.ts`, `mount-manager/createMountManager.ts` | active app, last attempt, generation; per slot the mounted app; the DOM | open, deny, leave, retry, request access; mount, unmount | one app in the slot, the one the route names; everything mounted is unmounted |
| Session gate: `session/SessionGate.tsx`, `sessionApi.ts` | session state, address | restore, login, signup, 2FA, logout, session ended, redirects | the gate agrees with the cookie; an expired session returns to its address, a logout starts clean |
| Remote loader: `remote-loader/createRemoteLoader.ts`, stylesheets in `createMountManager.ts` | promises per remote and per stylesheet, failed attempts, observers of the head | load with timeout, retry, discard or relocate styles | a retry recovers; late answers are harmless; an app's styles are its own |
| Iframe transport: `iframe-transport/*`, `packages/event-bus`, `packages/iframe-embed` | MessagePorts, pending requests, handshake | handshake with timeout, request/response, bridge of the SDK | every request settles; a stale location never wins |
| Router: `router/*`, `packages/router-react`, `packages/router-vue` | history, route, verbatim searches | navigate, redirect, canonical addresses, adapters' two-way sync | redirects terminate; only the app that owns the route navigates; queries come back byte for byte |
| Registry and policy: `registry/*`, `csp/*`, `packages/registry` | manifests | load, override, resolve, build the CSP | an override moves an app's entry and nothing else; the document's policy lets in what the chrome's registry loads |
| Presentation: `pages/*`, `chrome/shell/*`, `chrome/appNavStore.ts`, `chrome/breadcrumbs.ts`, `app/*`, `theme/*` | what the app in the slot published | publish title and breadcrumbs, render | only the app of the page is published; no page is blank |

### Packages and examples

`packages/contracts`, `sdk`, `lifecycle` are types; `packages/conformance` is the suite a
sub-app runs in its own tests and `dev-harness` renders one for its developer; `apps/demo-recipes`
and `apps/demo-budget` are example sub-apps.

### How the parts interact

identity-service (not in this repository) is the authority. The BFF asks it over HTTP with a
10 s timeout, caches household introspections for 30 s, and is told of changes by an unsigned
`access.changed` webhook on an internal port, which drops cache entries and is fanned out to
the open tabs' SSE streams. A tab loads its access with a GET, reloads it on every SSE event,
and lets the slot decide from the snapshot which app may be mounted. The slot gets the app's
code from the remote loader or mounts a frame, and gives it an SDK, across a MessagePort in
the second case; through it the app navigates the shell's history and is told where it is.
Above all this the session gate decides from the BFF's answers who is signed in, and the
redirect rules where the address may stay. Everything runs in one
Node process and in one browser tab per user, so interleavings happen where the code awaits.

### What is hard here

* *Read, await, write*: an introspection read before a change is stored after the webhook for
  that change; two reloads of a tab answered in the wrong order; `openApp` awaiting four
  different promises while the route moves on.
* *Subscribing*: the change that falls between a snapshot's reading and the stream's opening.
* *Loss and duplication*: webhooks, SSE connections, answers after a timeout.
* *Partial failure*: a mount or a stylesheet that throws half-way; Postgres failing between
  two writes; a second factor consumed and the login then failing.
* *Two writers of one place*: the person, the shell and an app move one address; a load and a
  mount watch one `document.head`; a flag must swallow one notification and no other.
* *Timeouts*: at both ends of the frame's handshake and in the loader, each with a late answer.
* *Two readings*: a document's policy and its registry are derived from the query, at two
  moments, with redirects in between.
* *Crash*: the BFF's cache and hub live in memory, its sessions in Postgres.
* *Liveness*: a stream must end some time after its session does; a tab must eventually agree
  with identity-service.

`PROJECT.json` lists these hazards with their lines and the properties aimed at them.

## 2. Plan

| # | Module | What it models | State |
|---|---|---|---|
| 1 | `IntrospectionCache`, `IdentityHistory`, `BffAccess` | the BFF's access decisions | done, proved |
| 2 | `AccessStream` | event hub and SSE streams | done, safety proved |
| 3 | `AccessTracker` | the shell's access tracker | done, proved |
| 4 | `LiveAccess` | composition of 1-3 for one tab | done |
| 5 | `Slot` | app slot and mount manager | done, proved |
| 6 | `BffSessions` | session rows, identity cookies, challenges, sweep, logout | done, proved |
| 7 | `SessionGate` over `Routes` | the shell's session states, its address and the redirect rules | done, proved |
| 8 | `RemoteLoader` | shared promises, timeout, retry, stylesheets, the head | done, proved |
| 9 | `EmbeddedApp` over `HostHistory` | handshake, channel, history, adapters of one app | done, safety proved |
| 10 | `BffEdges`, `Slugs`, `SearchVerbatim`, `Registry`, `ShellPages`, `Conformance` | pure functions, each related to what stands on its other side | done; a theorem about `Slugs`, two about `Registry` |
| 11 | `PagePolicy` over `Registry` | the document's policy and the chrome's registry through sign-in, expiry and redirects | done, proved |

*Composition.* `LiveAccess` instantiates `AccessTracker` (`Tracker == INSTANCE AccessTracker`)
and puts the BFF's cache and streams around it; it takes from `AccessStream` that a
subscribed stream is sent every event in order, and from `BffAccess` the race between a
webhook and an answer. `SessionGate` extends `Routes`, so that every state of the gate meets
every rule; of `BffSessions` it takes that a session id is alive or not and that logging out
is final. `PagePolicy` extends `Registry`: one query read twice. `EmbeddedApp` extends
`HostHistory`: both ends of the port, the history and the
framework's router are one specification, because the hazards lie in the crossing.

*Abstract specifications.* Worth stating: for 1, an authority whose answers are at most
`MaxAge` old (now the invariant `BoundedStaleness`; as a module of its own it becomes the
specification `BffAccess` refines); for 9, a channel that answers each request once (now
`EachHasItsAnswer` and `RequestsSettle`).

*Theorems.* Every invariant and every action property the runs check is a theorem (section 5).
Left: the refinement above, and facts of the pure modules that do not rest on recursion.

## 3. The modules and the code

### `IntrospectionCache`, `IdentityHistory`, `BffAccess`

`IntrospectionCache` is the cache class as operators on its Map: `AfterGet`, `AfterSet` (with
the pruning at `PRUNE_THRESHOLD`), `AfterInvalidate`. `IdentityHistory` is external: for each
household the sequence of its states and since when each held. It is there for the
properties, which compare what the BFF decided with what was true and when; an introspection
is represented by the *version* it was read at.

`BffAccess` runs requests of `GET /api/h/:hid/access` and of the gateway concurrently. A
request is cut where the code awaits; `pc` says where it is:

| `pc` | Where the code is |
|---|---|
| `authed` | `requireSession` found the row; `keepSessionAlive` and `introspectionCache.get` are next |
| `introspecting`, `answered` | the call to identity-service, before and after it read its state |
| `persisting` | `persistIdentityCookie`: an await on Postgres between answer and `cache.set` |
| `decide` | `loadHouseholdAccess` has returned |
| `routing` | `findAppBackendUrl`, another await |
| `tokenSent`, `tokenAnswered` | `issueSessionToken` |
| `done` | the response, named by `reply` |

`UpstreamFails` and `StoreFails` may happen at every await. `Restart` loses cache and requests
and keeps the session table. Time is a counter; `Tick` does not let a call outlive
`UpstreamTimeout` (`AbortSignal.timeout` in `identity/client.ts`) nor a write outlive
`StoreDelay`. The code sets no limit to a write, so the bound of the properties is stated in
terms of the longest one. `known` and `raced` are not in the code: they record which version
the BFF has been told of and which answers were overtaken on their way to the cache.

### `AccessStream`

The hub is the set of streams whose `listening` is set. Each stream has the queue (`pending`),
what `pending.splice(0)` took out (`batch`) and the place of its loop (`pc`): waiting for a
wake-up or the heartbeat, writing an event, checking the session, writing `session.ended`.
`wake` is not a variable: `Loop` waits exactly if nothing is pending and the stream is open,
which is what the test right after installing `wake` amounts to. Events are abstracted to
household and user; ghost sequences record what each stream was owed.

### `AccessTracker`, `LiveAccess`

`AccessTracker` has one action per method (`setHid`, `refresh`, `close`) and per callback
(answer of a load, `ready`, `access.changed`, `session.ended`, `onerror` with the browser
reconnecting or giving up, the reconnect timer). Loads and streams live in slots; what the
code's `generation` is compared with is kept per load and per stream, as the closures do.

`LiveAccess` follows one tab on one household whose content is a version number, from
`Change` at identity-service through webhook, cache and stream to the tracker's snapshot, with
a restart of the BFF and dropped streams. Three flags record the races: `reordered` (an
older answer replaced a newer one), `missed` (a change was announced before the stream was
subscribed), `overtaken` (an answer was stored after its webhook). Lost webhooks are left out
here: `BffAccess` has them, and no tab can learn of a change nobody announced.

### `Slot`

`openApp`, `showDenied` and the cleanup each take a generation and then await; the module
names a call by its generation. A call of `openApp` is `loading` (registry and remote loader),
`clearing` (`mountManager.unmount`), `styling` (`applyStyles`), `mounting` (the app's own
mount) and perhaps `backingOut` (unmounting because it was superseded). `Effect` is the React
effect, run when a dependency changed. `host[g]` is the element call `g` put into the slot and
`entry` the one `mountedSlots` knows. The continuation after a promise resolves is one step
with the resolution: no other callback that touches this state can run between them.
`requestAccess`, names and texts are left out; the stylesheet cache is in `RemoteLoader`.

### `BffSessions`

One browser sends overlapping requests: sign in (signing up takes the same steps), second
factor, logout, `/auth/me`, and requests behind `keepSessionAlive` that may call
identity-service (`api`) or are passed through to it. A request is cut at its awaits; `pc`
names the await:

| `pc` | Where the code is |
|---|---|
| `finding` | `findSession` or `findLoginChallenge` |
| `syncing`, `persisting`, `marking` | `syncSession`: the call to get-session, `persistIdentityCookie`, `markSynced` |
| `running` | the handler behind the middleware |
| `calling`, `storing` | its call to identity-service, `persistIdentityCookie` |
| `checking` | the passthrough asks get-session about a 401 |
| `signIn`, `verifying` | `authenticate` |
| `establishing`, `creating` | `establishSession`: get-session, `createSession` |
| `signingOut` | `signOut` of a logout |
| `done` | the response on its way, with its Set-Cookie headers |

The request keeps what the closure keeps: the session id it was sent with, the identity cookie
as `findSession` returned it, the time before the call. `UpstreamFails`, `BodyCutOff` and
`StoreThrows` may happen at every await they can reach. What `CreateSession` and the like
await on Postgres and what follows is one step: nothing that follows changes shared state.

identity-service is external. A cookie is abstracted to the session it opens, by number; a
session has an expiry that get-session may slide, and may be revoked at any time. A call
that rotates ends its session and opens another, as turning on two-factor does; that is the
only way a cookie changes. An answer that refuses brings no new cookie,
so `PassRefusal` leaves out the writing of one. `cut`, `unsynced` and
`loggedOut` are not in the code: they record for the properties why an answer or a row is
missing.

### `Routes`, `SessionGate`

`Routes` is the route tree as a set of entries, and the redirect rules as functions of an
address and a session: an address is the path of a route, the household's segment and the
address in `_from`. A segment is a pair of identifier and slug and may be percent-encoded;
`Slugs` shows letter by letter why the pair is enough. A link carries no `_from`: only the
rules write it (`redirectRules.ts:30`), and the sign-in and sign-up pages hand it on.

`SessionGate` is the component's state with the calls under way, one of each kind, and
outside it the browser's cookie and the sessions the BFF knows. A call is *sent*, *answered*
by the BFF and then heard by the gate, in any order; restore and the three that authenticate
go on to *listing* the households before they sign in, so a session can end in between. The
cookie is set and cleared with the headers of the answer that is heard, late or not: a logout
clears that of a person who has signed in meanwhile, and `logout`'s `finally` signs out here
even if the request failed. `Redirects` is the root route's `beforeLoad`. Four variables are
there for the properties only: `hops`, `left`, `overtaken` and `doubt`.

### `HostHistory`, `EmbeddedApp`

`HostHistory` is the shell's history - entries and a position - and `sdk.router`'s operations
on it. How far `back()` can go is the browser's affair (`CanGo`): the code hands every traversal to
`window.history` unchecked. `EmbeddedApp` follows one app, `Me`, built one of four ways: federated
or in a frame,
with React's or Vue's router.

| In the module | In the code |
|---|---|
| `HistoryBecomes`, `AccessChanges` | the subscriptions of `bridgeChannelToSdk`, or of the adapter |
| `Mount`, `HostReadsReady`, `HostTimesOut` | `createIframeAppModule`'s handshake |
| `EmbedStarts`, `EmbedReadsAck`, `EmbedTimesOut` | `connectToHost`'s |
| `HostHandles`, `HostSettles`, `AppHandles` | `createMessagePortChannel` at each end, with its handlers |
| `AppNavigates`, `AppGoesBack`, `AppRequests` | what the app asks for; `proxy` is the frame's copies |
| `Notified`, `Expecting`, `Pushed` | the framework's history adapter, and its flag |

The port is FIFO, as MessagePorts are. `api.request` stands for every method that waits for
the network and is answered in any order, `unknown` for one only a newer shell has. Some of
the code's ways are kept as they are: `back()` has no guard, so one that is under way can
take the person back from a page they opened; a navigation on the port crosses the person's
own; a retry leaves the frame that timed out in the page, whose late ready message (`former`)
is heard and ignored. The frame's base name and household are read once, at the handshake,
and not modelled as state. Adapters pass absolute paths, which `parseToLocation` keeps. When the
shell closes the port, what the frame waited for goes with the frame (`NoChannel`); the shell's
own notifications stay pending in a channel nobody reads.

### `RemoteLoader`

A load is a call of `loadOnce`, with the URL it asks for (by the number of failed attempts)
and its promise, which a timeout rejects while the remote goes on loading. An open is a call
of `openApp`, from the loader through the stylesheets to the mount. Each load and each mount
observes the head while it runs; a style node knows who put it in and who saw it, and is
discarded by loads and relocated by mounts. Races for the slot itself are `Slot`'s.

### `PagePolicy`

The server derives the Content-Security-Policy from the query a document is asked for with
(`cspVitePlugin.ts`); the chrome reads the same overrides from the address when it mounts
(`HostChrome`, `loadRegistry`). Between the two lie the session's steps and the redirect rules,
all in one document. An address is abstracted to its zone and its overrides; one in the login
zone stands with the query that its `_from` carries. `Lands` is the root route's `beforeLoad`
and what it does to the chrome: gone while a redirect is due, mounted anew afterwards.
`strayed` is there for the property: it records that the person left the document's query, by a
link, by Back, by logging out, or by the bare address, whose way home drops it.

### Pure modules

Each ends in named facts, which TLC evaluates as assumptions of the instance in brackets.

* `BffEdges` [`MCBffSessions`]: the CSRF check against what browsers send, the client's
  address against the shell's proxy, the allow-list against how a server resolves the path,
  `sdk.api`'s URL through gateway and backend and back, headers kept apart in both
  directions, which failures end a session in the shell, and the cookie jar.
* `Registry` [`MCPagePolicy`]: registering, overriding, resolving, and the policy. What an app
  needs is measured by what the browser asks for (`Site`, external), not by the origin the code
  computes (`originOf`).
* `Slugs`, `SearchVerbatim` [`MCSessionGate`]: slugs and segments; queries remembered byte for
  byte.
* `ShellPages` [`MCSlot`]: titles, breadcrumbs, menu and screen of every route, what apps publish
  of them, and switching households.
* `Conformance` [`MCSlot`]: the suite's seven checks over what an app may do and when, with
  one module and one document between them. By itself each check finds what the app does at
  its first mount; in the suite another check has mounted it before, and what an app does only
  the first time, or on loading, is not found. That the household changes is expected of the
  suite's own SDK and always holds.

## 4. What the runs show

| Run | Shows | Bounds, and why they are enough |
|---|---|---|
| `bff_access` | decisions are at most `MaxAge` = timeout + write + TTL old; refusals and ended sessions likewise; nothing unallowed is forwarded; users never see each other's entries; pruning spares what lives | two bounds in one (`Alone`, `Together`). One session's requests in turn, used again and again: each delay 1, clock to 4 > `MaxAge` = 3, one change, one revocation (both, and the clock goes to 2): a stale entry has time to exceed the bound, and does in the mutants. Two users' requests, overlapping while the clock stands and in turn until entries expire, with a change, its webhook and no apps; threshold 1, so every second entry prunes |
| `access_stream` | order, completeness and eventual delivery on streams; listeners; ends | two streams of two users, two households, three events owed: one being written, one taken, one pending |
| `tracker` | snapshot, status and connections of the tracker | two households, loads and streams, three switches: late answers of two earlier generations |
| `live_access` | the tab follows identity-service or one of three races happened; never loading for ever | two versions, one failure, two loads and streams |
| `slot` | one app, the right app, everything unmounted, breadcrumbs owned by the app shown | two apps and one that cannot be resolved, three moves, one failure, seven calls (a move makes at most two) |
| `sessions` | logging out is final, revoked sessions are cut off in time, no session outlives its identity session, none ends without a reason | two concurrent requests, three in all, two identity sessions (one rotation or a second login): the races are between two requests, the third is the login. A tick is an hour, so calls and writes take none (`UpstreamTimeout`, `StoreDelay` 0) and a sync is due after one; an identity session lives two, the clock goes to three, past every expiry |
| `embedded_app` | frame, router and shell end in agreement; only the mounted frame gets a port; every request is answered; an app left writes no history | all four ways to build the app; two addresses in it and one elsewhere; three moves (of the person, of access, or mounts: a mount, a failure and a retry) and two calls of the app: two navigations, or one crossing a move |
| `session_gate` | redirects end; the way back after an expiry and after a logout; the gate agrees with the cookie | one household and an address of each kind the rules tell apart, three sessions, two calls at once, one fault, one move: signed in, expired, signed in again, with one answer late |
| `remote_loader` | a retry recovers; styles are the app's own | two apps, three opens and two faults: a failure, a retry and another app meanwhile |
| `page_policy` | the document's policy lets in what the chrome opens | an app of the host and one on a CDN, in six registries (contract, declared hosts); no override, one to a dev server, one of each app: any two of them may be the document's and the chrome's |

`BffAccess` and `Slot` are bounded and may stop at their bounds (`CHECK_DEADLOCK FALSE`), as
may `AccessTracker` (the generation bound), `LiveAccess` (nothing left to happen),
`EmbeddedApp`, `SessionGate` and `RemoteLoader`. `AccessStream` and `PagePolicy` have no bound
that blocks, and deadlock is checked. `TypeOK` is among the
properties of the runs of `Slot` and `SessionGate`; elsewhere a theorem states it, except that of
`LiveAccess`, which holds on its instance too. Symmetry is used only in
runs without liveness properties, over slots and values the definitions treat alike.

### Where the code departs from what it says

Two runs look for a counterexample to a sentence of the repository, and find it.

* `slot_mount_race`: `openApp` looks at its generation after loading and after unmounting,
  but not between the two awaits of `mount`. A second open that unmounts while the first is
  still mounting finds no entry to unmount; two apps end up in the slot, and the entry of one
  is lost.
* `loader_styles`: while a remote loads, the loader collects every style put into the head,
  whoever puts it there. The person opens A, which is slow, then B; B's mount puts in a style
  and the mount manager moves it into B's shadow root; when A's remote arrives, the loader
  removes it from there. `OwnStyles` states what remains true.

Others were met on the way. Each is a named exception of a property that passes, so the run
shows what is true without it.

* Access. Two reloads in flight answered in the wrong order leave the older access on screen
  (`reordered` in `LiveAccess`); an introspection stored after its webhook answers the tab's
  reload, and nothing makes the tab ask again after the TTL (`overtaken`); the first `ready`
  of a stream does not reload, so a change between the first load's introspection and the
  subscription stays unseen (`missed`). In a household busier than the heartbeat the session
  of an open stream is never checked, though the comment at `routes/access-events.ts:16` says
  a logout closes it; once it is quiet it does (`QuietLogoutCloses`). The comment on the cache
  that webhooks drop entries "immediately" has the exception that `OnlyOvertakenIsStale` states.
* Sessions. The timeout also aborts the reading of a body; `readJson` makes an unreadable body
  null, get-session's null means "no session", and the row of a session that is alive is
  deleted, though "identity-service being down does not log anyone out"
  (`session/keep-alive.ts:9`). A request admitted before another had the cookie rotated asks
  about the old cookie and ends the session that lives on under the new one
  (`routes/identity-passthrough.ts:53`: "only a dead identity session ends the BFF session").
  `EndedForAReason` names both.
* Slot. A mount that rejects leaves its host and no entry, so leaving the app area unmounts
  nothing (`orphaned`). A is mounted, B is opened, which unmounts A, and B's mount fails:
  `activeAppId` still says A, so going back to A opens nothing (`ShowsRoute` excuses failures).
  A is mounted, B is opened and left again for A before it has loaded: nothing is opened, B's
  generation stays the current one, and when its load fails the error is shown over A, though
  `docs/demo-script.md:83-84` has a crash take down "only its own slot". The loading message for
  another app stays over the mounted one if the address returns while access is pending
  (`returned`).
* Stylesheets. A stylesheet that failed once keeps its rejected promise, so an app that uses
  it cannot be retried without a reload (the exception of `RetryRecovers`;
  `docs/demo-script.md:86-88` has the app load normally). Its HTTP status is not looked at.
* Session gate. A session found ended while the logout's answer is under way leaves the return
  address in place (`overtaken`; `router/redirectRules.ts:17-18` has a logout start clean). An
  answer to restore, login or the listing that arrives after a logout or an expiry signs the
  person in again, and a late 401 signs out the next (`doubt`). A household's segment that
  arrives percent-encoded and is not the canonical one is decoded in the route and not in the
  path, so the redirect to the canonical address leads to itself (the exception of
  `RedirectsSettle`).
* Embedded apps. `createReactRouterHistory.ts:24-26` says the adapter keeps no state of its
  own; the flag that swallows the echo is some, and a navigation the shell refused leaves it up,
  so the next move is not shown (the exception of `RouterFollows`).
* Policy (`strayed`). Somebody opens `/?_remote=...`: the policy is derived with the override, the
  redirect to the home page drops it, and the chrome reads a registry without it; the app's own
  origin is not in the policy, though `docs/manifest.md:100-101` has it "added automatically". A
  reload of the sign-in page, a logout and the settings' first section part the two as well. A
  bare domain in `network.connect`, which `docs/manifest.md:36` allows, becomes `'self'` in the
  policy, and a host with a port the origin `null` (`csp/buildContentSecurityPolicy.ts:3-11`).
* Pure functions. The cookie jar treats an expired `Expires` as removal whatever `Max-Age`
  says, where browsers let `Max-Age` win (`identity/cookie-jar.ts:25-30`). The conformance suite
  misses what an app does only once (section 3).

### Fairness

`AccessStream!FairSpec`: handlers run, writes end (that of a gone tab with an error), a
heartbeat fires when nothing else happens. Node's event loop runs every ready callback, and the
timers are the runtime's. No fairness on publishing, logging out or aborting.

`LiveAccess!Spec`: the tab's callbacks run, the BFF and identity-service answer or fail,
webhooks that are sent arrive. No fairness on changes, on expiry, on a person retrying or on
anything failing; `KeptLive` therefore does not lean on the TTL.

`EmbeddedApp!Spec`: the port delivers what was posted and handlers run, on both sides, and each
promise of a handler settles, one way or the other. No fairness on the person, the app, the
handshake or its timeouts; `RequestsSettle` is about requests that were sent.

`SessionGate`, `RemoteLoader` and `PagePolicy` have no fairness: their properties say what must hold
whenever all is quiet, or at any time.

## 5. What is proved

TLAPS checks the following for every value of the constants allowed by the named assumptions
(`CacheAssumption`, `BffAssumption`, `TrackerAssumption`, `SessionsAssumption`,
`SlotAssumption`, `RoutesAssumption`, `GateAssumption`, `SlugAssumption`, `LoaderAssumption`,
`HistoryAssumption`, `EmbeddedAssumption`, `RegistryAssumption`, `PageAssumption` and the one of
`AccessStream`): the constants are of
their kind, the null values are distinct from the values, and the delays and bounds are natural
numbers, zero included. `RegistryAssumption` says that a relative URL is the page's own.
`GateAssumption` also says that there is a household, that links carry
no `_from`, and that there is room for one session.

**`BffAccessProofs`**: `TypeCorrect`, `StalenessBounded`, `EndedSessionsBounded`, `ViewsAreOwn`,
`ForwardedAllowed`, `RefusalsRecent`, `OnlyOvertakenStale`, `PruningSparesLive`. The last is about
steps: a request goes from its write to its decision by `StoreView` alone, and that prunes what
has expired and nothing else. Of the others none is inductive: that a
decision is recent depends on when its entry was stored, that on when the answer was read,
that on when the call began. `Inv` follows a view through these stations and bounds its age at
each: `UpstreamTimeout` when answered, plus `StoreDelay` when stored, plus `Ttl` in the cache
(`EntryInv`), `MaxAge` at the decision. `TimingInv` says that no call outlives its limit;
`GatewayInv` carries "the state that was read allowed the app" to the forwarding, and
"identity-service has refused, so the view is not of the current version" to the invalidation;
`ToldInv`
that webhooks announce versions that exist. The lemmas are about histories: a state that was
current at some time stays so when a history grows, or ceases to be current now.

**`AccessStreamProofs`**: `StreamInvariance`, `StreamTypeCorrect`, `EventsInOrder`,
`ListenersDoNotLeak`. The invariant, per stream: what was sent, then the batch, then what is
pending is what the stream was owed, and the batch is empty wherever the loop is not writing.

**`AccessTrackerProofs`**: `TrackerTypeCorrect`, `SnapshotsMatch`, `StatusIsNeverStuck`,
`OneConnectionAtMost`. Beyond the properties the invariant needs that a load of the current
generation is one for the open household (`LoadsInv`), and that whatever listens is what
`disconnect()` would close (`DisconnectReaches`): the only open stream is `source`, the only
timer `reconnectTimer`, and its stream has closed. The second is why switching households
while a reconnect is due leaves neither behind.

**`BffSessionsProofs`**: `SpecTypeOK`, `SpecLogoutIsFinal`, `SpecRevokedIsCutOff`,
`SpecNeverOutlives`, `SpecEndedForAReason`. That a stored cookie is one of
identity-service's needs to know it of every answer a request still holds (`Known`): a cookie
is 0 or the number of a session, not 0 where a new row or challenge is made of it, and the
list of sessions only grows. `LogoutIsFinal` rests on two facts: syncs and rotations update
rows and never insert one, and a new row's id is beyond every id that was logged out, since
logout deletes only rows it had found.

Of the other three: what
a sync marks is what identity-service said of the cookie *it* was asked with; meanwhile another
request may have had that cookie rotated, and its own `UPDATE` of the row may come before or
after. Taken one by one the writes prove nothing, so the invariant (`SafetyInv`) is about the
chain of cookies a session goes through. A request that holds a cookie other than the row's
holds a revoked one (`SessionInv`), or the newest, which it was just given (`Fresh`); then the
row still has the cookie it replaced (`FreshInv`), and no other request holds a newest one for
that row (`OneFresh`), for a second rotation would have needed the revoked cookie to be alive.
So `StoreCookie` only ever writes a cookie over the one it replaced, never an older one back.
A cookie's heir is alive whenever the replaced one was and expires no earlier (`HeirLives`), so
what an overtaken sync still marks - the expiry and the time of an answer about the replaced
cookie - is true of its heir as well (`SyncInv`). The three properties follow: a row is true of
identity-service (`RowInv`), the request admitted with it inherits that (`TrustInv`), and an
answer that ends a session was one about a session that is over (`EndInv`). What makes it all
inductive is `Evolves`: in every step, what is over at identity-service stays as it was, and
what is alive lives on no shorter or ends now.

**`SlotProofs`**: `SlotCorrect`, `SlotTypeCorrect`, `OneAppInSlot`, `NavOwnedBySlot`,
`DeniedIsUnloaded`, `RouteIsShown`. The code compares generations after some of its awaits and
not after others, so the invariant must say who is at work in the slot meanwhile. As long as no
open began while another call was at work and no host was orphaned (`RaceFree`), calls take
turns (`TurnsInv`): beside the current `openApp` nobody has anything left to do in the slot, a
call that mounts has it to itself even after it was superseded, and whoever unmounts unmounts
what the entry names, or named. Then the hosts in the slot are the entry's and the mounting
call's (`HostsInv`), which is at most one; only its app may publish (`OwnerInv`); and an entry
nobody wants any more is being unmounted (`WantedInv`), so once all is quiet there is none. For
`ShowsRoute` the app of the address is on its way while anything runs (`ComingInv`) and there
once nothing does (`ThereInv`).

**`SessionGateProofs`**: `GateCorrect`, `GateTypeCorrect`, `RulesComeToRest`, `PersonReturns`,
`LogoutKeepsNothing`, `GateIsTrue`, and `HidSurvives`.

* The redirect rules. Every address is one of the route tree's or a sign-in page with a return
  address that neither is public nor bare (`AddressInv`). Signed in, the first hop leaves the
  sign-in page or makes the segment canonical, one of the next makes it canonical or opens the
  first section of the settings, and these two commute and need no repetition (`HopsInv`,
  `WayAgain`): the fourth hop finds nothing to do.
* The way back. `LeftInv` keeps, through expiry, sign-in page, late answers and every redirect,
  that the page in `_from`, or the address once signed in, is on the way the rules take from
  the address that was left; where they come to rest on that way is one place (`Settles`). Here
  the proof asked for less than the property had excused: an expiry that overlaps a logout, and
  stopping at the address itself, are no exceptions, and `ReturnsWhereLeft` now says so.
* A clean logout. While the answer to a logout is under way the address keeps no return address,
  since only a gate that signs out some other way would write one (`CleanInv`).
* The truth. `TruthInv` says what the calls under way know of the sessions: which calls can be
  under way in each state (`CallsInv`), that the session an app's old call still carries is
  not that of whoever enters (`ApartInv`), that whoever lists the households has the cookie
  (`EnteringInv`), and that the calls of a person who is signed in carry it (`CookieInv`).
  Hence the named doubts are all there are.
* `HidSurvives`. A slug may begin with anything and identifiers have no hyphen, so the first
  hyphen of a segment ends the identifier: an old link to a renamed household finds it.

**`RemoteLoaderProofs`**: `LoaderCorrect`, `LoaderTypeCorrect`, `RetriesRecover`, `StylesAreOwn`,
`PolicyLetsInEveryApp`, `OnlyUrlsLetIn`, `PolicyStaysInStep`. Of the loads of an app at most one
was not rejected; it is the one kept,
and it alone asks for the app's latest URL (`LoadInv`, `KeptInv`), while whatever the runtime
saw fail is an earlier one (`BrokenInv`) - also when a load that timed out fails only after
its successor began. So an attempt made while the servers answer, or one that joins a promise
already kept, can be rejected by nothing but a new fault (`OpenInv`). A style that only one
load or mount has seen is in the head, or where that one took it (`NodeInv`).

The policy. What `resolve` gives is an element of the overridden list, and the policy is a union
over that list; where `originOf` and the browser's `Site` agree, which is on URLs, everything an
app names is let in. They differ on domains, and `OnlyUrlsLetIn` says how: what the policy adds to
`'self'` and `null` comes from absolute URLs alone, so a bare domain is never let in for being
declared. That the document's policy stays in step with the chrome's registry rests on an
invariant (`PageInv`): while nobody strayed the address has the document's query, in `_from`
where it is a sign-in page, and no redirect loses it (`RedirectedKeeps`); a logout leaves none to
lose; and a mounted chrome has read its registry from that query, so that the policy is the one of
`PolicyLetsInEveryApp`.

**`EmbeddedAppProofs`**: `CoreCorrect`, `EmbeddedTypeCorrect`, `PortsReachFrames`,
`LeftAppsWriteNothing`, `AnswersBalance`, `FramesAgree`, `RoutersFollow`, for histories and
queues of any length and for all four ways to build the app.

* The port. That a ready message which opens a channel comes from the frame now in the page
  needs to know what the other messages may be: while the shell waits, a current one means that
  this frame is waiting too or has given up, and no ack is left from before (`HandshakeInv`).
* The history. What is on the port are messages and what the history holds is a history
  (`CoreInv`); of the steps that write entries each is the person's, or passes `Navigate`'s guard.
* Answers. `AnswerInv` counts, for each identifier, the requests and responses on both queues and
  what the shell serves: one if somebody waits for it, none otherwise (`Balanced`). Identifiers
  that are waited for were given away before, so the next one is nobody's yet and a new request
  keeps the balance. The lemmas say how the count of a queue changes when a message is appended
  or taken.
* Agreement. For each thing the shell pushes, the last message about it on the queue tells the
  truth; if there is none, the frame's copy, or the ack's snapshot, does, except for the place
  while it is not the app's or a navigation of the frame is still to be told (`Knows`,
  `BeliefInv`). An empty queue leaves only the copy.
* The router. While the flag is up, the echo it waits for is still to come, as a navigation to be
  told or as a push (`Echoes`); once it is down and nothing is to come, the router shows the
  place (`Follows`). So the flag swallows its own echo, or a push that is followed by it.
* Types. That identifiers stay within the bounds is the only part of `TypeOK` that is not
  immediate: those the shell gave away, the traversals the browser owes and the requests of the
  app under way together never exceed the moves and calls that were made (`SpentInv`).

**Only model-checked**: the liveness properties (`AllDelivered`, `AbortEnds`,
`QuietLogoutCloses`, `KeptLive`, `NeverLoadsForever`, `RequestsSettle`: TLAPS does not reason
about fairness), and most facts of the pure modules, which TLC evaluates on bounded inputs:
many rest on recursive functions over data, and what these compute for every input takes an
induction the provers do not do; the others are still to be proved.

## 6. What is not modelled

`PROJECT.json` lists every component with its status. Not modelled and not planned: rendering,
theme and forms, text, logging and observability, migrations and environment parsing, the
parsing of `registry.json`, the development-only `historyGuard.ts`, type-only packages, the
development harness and the demo apps. Bodies of proxied requests pass unread. identity-service, the
browser, the federation runtime and the apps are external and are modelled from how the code
uses them. `PagePolicy` leaves out what the development server adds to `script-src`, and a person
without a household; identity-service is assumed to send no new cookie with a 401
(`PassRefusal`).
