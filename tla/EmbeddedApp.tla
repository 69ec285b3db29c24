----------------------------- MODULE EmbeddedApp -----------------------------
(***************************************************************************)
(* One app and the shell that embeds it: over Module Federation, where the *)
(* app calls the shell's sdk directly, or in an iframe, where the sdk is a *)
(* proxy at the other end of a MessagePort.                                *)
(*                                                                         *)
(*   shell: createIframeAppModule, bridgeChannelToSdk, sdk.router/access   *)
(*      |  ready ->          (window.postMessage)                          *)
(*      |  <- ack with a port                                              *)
(*      |  toHost ->  <- toApp   (createMessagePortChannel, FIFO)          *)
(*   frame: connectToHost, createSdkProxy                                  *)
(*      |                                                                  *)
(*   the framework's router: createReactRouterHistory or                   *)
(*   createVueRouterHistory                                                *)
(*                                                                         *)
(* The channel carries requests and responses with an identifier; a        *)
(* message is handled by one action.  The shell's answers that wait for    *)
(* the network (api.request, share, requestAccess) come in any order.      *)
(***************************************************************************)
EXTENDS HostHistory, FiniteSets

CONSTANTS Rights,       \* what sdk.access can say
          FirstRights,  \* bound: what it says at first
          None,         \* null
          MaxMoves,     \* bound: what the person does, and changes of access
          MaxCalls      \* bound: what the app asks for

\* What the app may ask of the shell, and the shell of the app.
AppMethods == {"router.navigate", "router.back", "api.request", "unknown"}
HostMethods == {"router.locationChanged", "access.changed"}

\* What the ack carries.
Snapshot == [location : Paths, access : Rights]

ASSUME EmbeddedAssumption ==
  /\ FirstRights \in Rights /\ MaxMoves \in Nat /\ MaxCalls \in Nat
  /\ None \notin AppMethods \cup HostMethods /\ None \notin Snapshot

VARIABLES
  app,          \* how this app is built: chosen once
  hist,         \* the shell's history
  access,       \* the shell's sdk.access
  mount,        \* the promise of module.mount()
  frame,        \* the script inside the iframe
  ready, ack,   \* the messages of the handshake that are under way
  toApp, toHost,      \* the port, in each direction
  pending,      \* each side's requests without an answer
  nextId,       \* each side's next identifier
  serving,      \* the app's requests the shell has not settled
  traversals,   \* back() asked of the browser and not done
  proxy,        \* the frame's copies: currentLocation and access
  router,       \* the framework's history adapter
  moves, calls, \* used up of their bounds
  refused       \* a navigation was refused since the app was mounted

shell == <<hist, access, traversals>>
handshake == <<mount, frame, ready, ack>>
channel == <<toApp, toHost, pending, nextId, serving>>
bounds == <<moves, calls>>
vars == <<app, shell, handshake, channel, proxy, router, bounds, refused>>

Ends == {"host", "app"}

Ids == 0 .. MaxMoves + MaxCalls

Request(id, method, arg) == [kind |-> "request", id |-> id, method |-> method, arg |-> arg]

Response(id) == [kind |-> "response", id |-> id, method |-> None, arg |-> None]

InFrame == app.transport = "iframe"

Bridged == InFrame /\ mount = "mounted"

Alive == IF InFrame THEN frame = "connected" ELSE mount = "mounted"

\* sdk.router.location and sdk.access, as the app reads them.
SdkLocation == IF InFrame THEN proxy.location ELSE RelativeLocation(hist)

TypeOK ==
  /\ app \in [transport : {"federation", "iframe"}, framework : {"react", "vue"},
              sound : BOOLEAN]
  /\ hist.entries \in Seq(Address) /\ hist.pos \in 1 .. Len(hist.entries)
  /\ access \in Rights
  /\ mount \in {"off", "waiting", "mounted", "failed"}
  /\ frame \in {"none", "loading", "connecting", "connected", "gaveUp"}
  /\ ready \in SUBSET {"current", "former"}
  /\ ack \in Snapshot \cup {None}
  /\ \A q \in {toApp, toHost} : \A i \in 1 .. Len(q) :
       /\ q[i].kind \in {"request", "response"} /\ q[i].id \in Ids
       /\ q[i].kind = "request" => q[i].method \in AppMethods \cup HostMethods
  /\ pending \in [Ends -> SUBSET Ids]
  /\ nextId \in [Ends -> Ids]
  /\ serving \subseteq Ids
  /\ traversals \in 0 .. MaxCalls
  /\ proxy \in Snapshot
  /\ router \in [suppress : BOOLEAN, shown : Paths, current : Paths]
  /\ moves \in 0 .. MaxMoves /\ calls \in 0 .. MaxCalls
  /\ refused \in BOOLEAN

Fresh(location) == [suppress |-> FALSE, shown |-> location, current |-> location]

Init ==
  /\ app \in [transport : {"federation", "iframe"}, framework : {"react", "vue"},
              sound : BOOLEAN]
  /\ app.transport = "federation" => app.sound
  /\ \E p \in Paths : hist = StartAt([app |-> Me, path |-> p])
  /\ access = FirstRights
  /\ mount = "off" /\ frame = "none" /\ ready = {} /\ ack = None
  /\ toApp = <<>> /\ toHost = <<>>
  /\ pending = [e \in Ends |-> {}] /\ nextId = [e \in Ends |-> 0]
  /\ serving = {} /\ traversals = 0
  /\ proxy = [location |-> Root, access |-> access]
  /\ router = Fresh(Root)
  /\ moves = 0 /\ calls = 0
  /\ refused = FALSE

-----------------------------------------------------------------------------
(* The framework's history adapter.                                        *)

\* Mutant: the flag stays up after the notification it was raised for.
ReactKeepsFlag(r, location) == IF r.suppress THEN r ELSE [r EXCEPT !.shown = location]

\* react-router: history.location reads sdk.router, nothing is copied.
ReactNotified(r, location) ==
  IF r.suppress THEN [r EXCEPT !.suppress = FALSE] ELSE [r EXCEPT !.shown = location]

\* vue-router: history.location is a copy that every notification renews.
VueNotified(r, location) ==
  [r EXCEPT !.suppress = FALSE,
            !.current = location,
            !.shown = IF r.suppress THEN r.shown ELSE location]

Notified(r, location) ==
  IF app.framework = "react" THEN ReactNotified(r, location) ELSE VueNotified(r, location)

\* push and replace: the shell is expected to notify the app of its own move.
Expecting(r) == [r EXCEPT !.suppress = TRUE]

ReactPushed(r, location) == [r EXCEPT !.shown = location]

VuePushed(r, location) == [r EXCEPT !.shown = location, !.current = location]

Pushed(r, location) ==
  IF app.framework = "react" THEN ReactPushed(r, location) ELSE VuePushed(r, location)

HistoryLocation == IF app.framework = "react" THEN SdkLocation ELSE router.current

-----------------------------------------------------------------------------
(* The channel.                                                            *)

\* channel.request(method, payload) at one end, put behind the messages of queue.
Asked(queue, end, method, arg) == Append(queue, Request(nextId[end], method, arg))

Waiting(end) ==
  /\ pending' = [pending EXCEPT ![end] = @ \cup {nextId[end]}]
  /\ nextId' = [nextId EXCEPT ![end] = @ + 1]

\* Mutant: only the latest request is remembered.
SettledLatest(end, id) ==
  pending' = [pending EXCEPT ![end] = IF id = nextId[end] - 1 THEN @ \ {id} ELSE @]

\* handleResponse: an identifier nobody waits for is dropped.
Settled(end, id) == pending' = [pending EXCEPT ![end] = @ \ {id}]

\* port.close(), and the next mount's new MessageChannel.  What the frame still
\* waited for goes with the frame; what the shell waited for - answers to its own
\* notifications - stays pending in the closed channel, where nothing reads it.
NoChannel ==
  /\ toApp' = <<>> /\ toHost' = <<>>
  /\ pending' = [e \in Ends |-> {}] /\ nextId' = [e \in Ends |-> 0]
  /\ serving' = {}

-----------------------------------------------------------------------------
(* What the shell tells the app.                                           *)

\* Mutant: the bridge subscribes when the frame has answered.
HistoryBecomesForConnected(h) ==
  /\ hist' = h
  /\ router' = IF Alive /\ ~InFrame THEN Notified(router, RelativeLocation(h)) ELSE router
  /\ IF Bridged /\ Alive
     THEN /\ toApp' = Asked(toApp, "host", "router.locationChanged", RelativeLocation(h))
          /\ Waiting("host")
     ELSE UNCHANGED <<toApp, pending, nextId>>
  /\ UNCHANGED <<toHost, serving>>

(***************************************************************************)
(* The history notifies its subscribers: over the bridge as a request, in  *)
(* a federated app the router's adapter at once.                           *)
(***************************************************************************)
HistoryBecomes(h) ==
  /\ hist' = h
  /\ router' = IF Alive /\ ~InFrame THEN Notified(router, RelativeLocation(h)) ELSE router
  /\ IF Bridged
     THEN /\ toApp' = Asked(toApp, "host", "router.locationChanged", RelativeLocation(h))
          /\ Waiting("host")
     ELSE UNCHANGED <<toApp, pending, nextId>>
  /\ UNCHANGED <<toHost, serving>>

\* The person opens an address, in the app or elsewhere.
PersonOpens(a) ==
  /\ moves < MaxMoves /\ moves' = moves + 1
  /\ HistoryBecomes(AfterPush(hist, a))
  /\ UNCHANGED <<app, access, traversals, handshake, proxy, calls, refused>>

\* The person's Back or Forward.
PersonTraverses(d) ==
  /\ moves < MaxMoves /\ moves' = moves + 1
  /\ CanGo(hist, d)
  /\ HistoryBecomes(AfterGo(hist, d))
  /\ UNCHANGED <<app, access, traversals, handshake, proxy, calls, refused>>

\* The browser gets to a back() that an app asked for.
Traversed ==
  /\ traversals > 0 /\ traversals' = traversals - 1
  /\ IF CanGo(hist, -1) THEN HistoryBecomes(AfterGo(hist, -1))
                        ELSE UNCHANGED <<hist, router, channel>>
  /\ UNCHANGED <<app, access, handshake, proxy, bounds, refused>>

\* sdk.access.subscribe
AccessChanges(r) ==
  /\ moves < MaxMoves /\ moves' = moves + 1
  /\ r # access /\ access' = r
  /\ IF Bridged
     THEN /\ toApp' = Asked(toApp, "host", "access.changed", r)
          /\ Waiting("host")
     ELSE UNCHANGED <<toApp, pending, nextId>>
  /\ UNCHANGED <<app, hist, traversals, handshake, toHost, serving, proxy, router,
                 calls, refused>>

-----------------------------------------------------------------------------
(* Mounting, and the handshake with the frame.                             *)

(***************************************************************************)
(* openApp's mount.  Each mount of an iframe app makes a new module and a  *)
(* new frame; after a timeout the earlier one is still in the page, and    *)
(* its ready message may be under way or yet to come.                      *)
(***************************************************************************)
Mount ==
  /\ mount \in {"off", "failed"} /\ moves < MaxMoves /\ moves' = moves + 1
  /\ OwnsCurrentRoute(hist)
  /\ refused' = FALSE
  /\ ready' = IF ready # {} \/ frame = "loading" THEN {"former"} ELSE {}
  /\ NoChannel
  /\ IF InFrame
     THEN mount' = "waiting" /\ frame' = "loading" /\ UNCHANGED router
     ELSE mount' = "mounted" /\ router' = Fresh(SdkLocation) /\ UNCHANGED frame
  /\ UNCHANGED <<app, shell, ack, proxy, calls>>

\* connectToHost
EmbedStarts ==
  /\ frame = "loading" /\ frame' = "connecting"
  /\ ready' = ready \cup {"current"}
  /\ UNCHANGED <<app, shell, mount, ack, channel, proxy, router, bounds, refused>>

\* Mutant: the listener does not compare event.source.
HostHearsAnyFrame(r) ==
  /\ mount' = "mounted"
  /\ ack' = [location |-> RelativeLocation(hist), access |-> access]
  /\ UNCHANGED frame

(***************************************************************************)
(* The shell reads ready.  It answers only the frame it waits for; one     *)
(* built for another major version of the contract is removed, the others  *)
(* get the port and a snapshot.                                            *)
(***************************************************************************)
HostHears(r) ==
  IF r = "current" /\ mount = "waiting"
  THEN IF app.sound
       THEN /\ mount' = "mounted"
            /\ ack' = [location |-> RelativeLocation(hist), access |-> access]
            /\ UNCHANGED frame
       ELSE mount' = "failed" /\ frame' = "none" /\ UNCHANGED ack
  ELSE UNCHANGED <<mount, frame, ack>>

HostReadsReady ==
  /\ \E r \in ready : ready' = ready \ {r} /\ HostHears(r)
  /\ UNCHANGED <<app, shell, channel, proxy, router, bounds, refused>>

\* The frame stays where it is.
HostTimesOut ==
  /\ mount = "waiting" /\ mount' = "failed"
  /\ UNCHANGED <<app, shell, frame, ready, ack, channel, proxy, router, bounds, refused>>

\* The frame builds its sdk from the snapshot; the framework's router starts.
EmbedReadsAck ==
  /\ ack # None /\ ack' = None
  /\ IF frame = "connecting"
     THEN /\ frame' = "connected" /\ proxy' = ack
          /\ router' = Fresh(ack.location)
     ELSE UNCHANGED <<frame, proxy, router>>
  /\ UNCHANGED <<app, shell, mount, ready, channel, bounds, refused>>

EmbedTimesOut ==
  /\ frame = "connecting" /\ frame' = "gaveUp"
  /\ UNCHANGED <<app, shell, mount, ready, ack, channel, proxy, router, bounds, refused>>

\* module.unmount(): the port is closed and the frame removed.
Unmount ==
  /\ mount = "mounted" /\ mount' = "off"
  /\ frame' = "none" /\ ack' = None
  /\ NoChannel
  /\ UNCHANGED <<app, shell, ready, proxy, router, bounds, refused>>

-----------------------------------------------------------------------------
(* What the app asks of the shell.                                         *)

FrameAsks(method, arg) ==
  /\ toHost' = Asked(toHost, "app", method, arg)
  /\ Waiting("app")
  /\ UNCHANGED <<toApp, serving>>

\* history.push and replace of a federated app: the echo comes within navigate.
FederatedNavigates(to, replace) ==
  LET h == Navigate(hist, to, replace)
      told == IF OwnsCurrentRoute(hist) THEN Notified(Expecting(router), to)
                                        ELSE Expecting(router)
  IN /\ hist' = h
     /\ router' = Pushed(told, RelativeLocation(h))
     /\ refused' = (refused \/ ~OwnsCurrentRoute(hist))
     /\ UNCHANGED <<proxy, channel>>

\* history.push and replace in a frame: the location is believed at once.  The
\* adapters pass absolute paths, which parseToLocation keeps.
FrameNavigates(to, replace) ==
  /\ proxy' = [proxy EXCEPT !.location = to]
  /\ FrameAsks("router.navigate", [to |-> to, replace |-> replace])
  /\ router' = Pushed(Expecting(router), to)
  /\ UNCHANGED <<hist, refused>>

AppNavigates(to, replace) ==
  /\ Alive /\ calls < MaxCalls /\ calls' = calls + 1
  /\ IF InFrame THEN FrameNavigates(to, replace) ELSE FederatedNavigates(to, replace)
  /\ UNCHANGED <<app, access, traversals, handshake, moves>>

\* sdk.router.back()
AppGoesBack ==
  /\ Alive /\ calls < MaxCalls /\ calls' = calls + 1
  /\ IF InFrame
     THEN FrameAsks("router.back", None) /\ UNCHANGED traversals
     ELSE traversals' = traversals + 1 /\ UNCHANGED channel
  /\ UNCHANGED <<app, hist, access, handshake, proxy, router, moves, refused>>

\* sdk.api.request, and a method only a newer shell knows.
AppRequests(method) ==
  /\ InFrame /\ Alive /\ calls < MaxCalls /\ calls' = calls + 1
  /\ FrameAsks(method, None)
  /\ UNCHANGED <<app, shell, handshake, proxy, router, moves, refused>>

-----------------------------------------------------------------------------
(* Each end reads the port.                                                *)

(***************************************************************************)
(* bridgeChannelToSdk's router.navigate: the notification of the new       *)
(* location is under way before the answer.                                *)
(***************************************************************************)
HostNavigates(m) ==
  LET h == Navigate(hist, m.arg.to, m.arg.replace)
  IN IF OwnsCurrentRoute(hist)
     THEN /\ hist' = h
          /\ toApp' = Append(Asked(toApp, "host", "router.locationChanged",
                                   RelativeLocation(h)), Response(m.id))
          /\ Waiting("host")
          /\ UNCHANGED refused
     ELSE /\ toApp' = Append(toApp, Response(m.id))
          /\ refused' = TRUE
          /\ UNCHANGED <<hist, pending, nextId>>

HostHandles ==
  /\ Bridged /\ toHost # <<>> /\ toHost' = Tail(toHost)
  /\ LET m == Head(toHost) IN
       \/ /\ m.kind = "response" /\ Settled("host", m.id)
          /\ UNCHANGED <<hist, traversals, toApp, nextId, serving, refused>>
       \/ /\ m.method = "router.navigate" /\ HostNavigates(m)
          /\ UNCHANGED <<traversals, serving>>
       \/ /\ m.method = "router.back" /\ traversals' = traversals + 1
          /\ toApp' = Append(toApp, Response(m.id))
          /\ UNCHANGED <<hist, pending, nextId, serving, refused>>
       \/ /\ m.method = "api.request" /\ serving' = serving \cup {m.id}
          /\ UNCHANGED <<hist, traversals, toApp, pending, nextId, refused>>
       \/ /\ m.method = "unknown" /\ toApp' = Append(toApp, Response(m.id))
          /\ UNCHANGED <<hist, traversals, pending, nextId, serving, refused>>
  /\ UNCHANGED <<app, access, handshake, proxy, router, bounds>>

\* Mutant: a handler that throws is not answered.
HostAnswersSuccess(id) == toApp' \in {toApp, Append(toApp, Response(id))}

\* A handler's promise settles, one way or the other: both are answered.
HostAnswers(id) == toApp' = Append(toApp, Response(id))

HostSettles ==
  /\ \E id \in serving : serving' = serving \ {id} /\ HostAnswers(id)
  /\ UNCHANGED <<app, shell, handshake, toHost, pending, nextId, proxy, router, bounds, refused>>

\* createSdkProxy's handlers; each answers.
AppHandles ==
  /\ frame = "connected" /\ toApp # <<>> /\ toApp' = Tail(toApp)
  /\ LET m == Head(toApp) IN
       \/ /\ m.kind = "response" /\ Settled("app", m.id)
          /\ UNCHANGED <<toHost, proxy, router>>
       \/ /\ m.method = "router.locationChanged"
          /\ proxy' = [proxy EXCEPT !.location = m.arg]
          /\ router' = Notified(router, m.arg)
          /\ toHost' = Append(toHost, Response(m.id))
          /\ UNCHANGED pending
       \/ /\ m.method = "access.changed"
          /\ proxy' = [proxy EXCEPT !.access = m.arg]
          /\ toHost' = Append(toHost, Response(m.id))
          /\ UNCHANGED <<pending, router>>
  /\ UNCHANGED <<app, shell, handshake, nextId, serving, bounds, refused>>

-----------------------------------------------------------------------------

Next ==
  \/ \E a \in Address : PersonOpens(a)
  \/ \E d \in {-1, 1} : PersonTraverses(d)
  \/ \E r \in Rights : AccessChanges(r)
  \/ \E to \in Paths, replace \in BOOLEAN : AppNavigates(to, replace)
  \/ \E method \in {"api.request", "unknown"} : AppRequests(method)
  \/ AppGoesBack
  \/ Traversed
  \/ Mount \/ Unmount
  \/ EmbedStarts \/ HostReadsReady \/ HostTimesOut \/ EmbedReadsAck \/ EmbedTimesOut
  \/ HostHandles \/ HostSettles \/ AppHandles

(***************************************************************************)
(* The port delivers what was posted, and a handler's promise settles.     *)
(***************************************************************************)
Spec ==
  /\ Init /\ [][Next]_vars
  /\ WF_vars(HostHandles) /\ WF_vars(AppHandles)
  /\ \A id \in Ids : WF_vars(id \in serving /\ HostSettles)

-----------------------------------------------------------------------------
(* Properties.                                                             *)

Quiet == toApp = <<>> /\ toHost = <<>> /\ mount = "mounted" /\ Alive

(***************************************************************************)
(* What the frame believes is what the shell says, once nothing is under   *)
(* way and the address is the app's: the optimistic location of a          *)
(* navigation, the snapshot of the ack and the pushes that cross them end  *)
(* in agreement, and no push falls between the snapshot and the            *)
(* subscription (createSdkProxy.ts:42-52, createIframeAppModule.ts:84-110).*)
(***************************************************************************)
FrameAgrees ==
  InFrame /\ Quiet /\ OwnsCurrentRoute(hist) =>
    proxy = [location |-> RelativeLocation(hist), access |-> access]

(***************************************************************************)
(* The framework's router shows sdk.router.location when all is quiet: the *)
(* flag that keeps the app from hearing of its own navigation has by then  *)
(* cost it no other notification whose location it still needs             *)
(* (createReactRouterHistory.ts:48-59).  The named exception is a          *)
(* navigation the shell refused, after which the flag stays up.            *)
(***************************************************************************)
RouterFollows ==
  Quiet /\ OwnsCurrentRoute(hist) /\ ~refused =>
    router.shown = SdkLocation /\ HistoryLocation = SdkLocation

\* The messages of a queue that ask, or answer, this.
Carries(queue, kind, id) ==
  Cardinality({ i \in DOMAIN queue : queue[i].kind = kind /\ queue[i].id = id })

(***************************************************************************)
(* Whoever waits for an answer has it coming, and whoever does not has     *)
(* none: a pending request is on its way, being served or answered, in one *)
(* place only (createMessagePortChannel.ts:37-109).                        *)
(***************************************************************************)
EachHasItsAnswer ==
  Bridged => \A id \in Ids :
    /\ Carries(toHost, "request", id) + Carries(toApp, "response", id)
         + (IF id \in serving THEN 1 ELSE 0) = (IF id \in pending["app"] THEN 1 ELSE 0)
    /\ Carries(toApp, "request", id) + Carries(toHost, "response", id)
         = (IF id \in pending["host"] THEN 1 ELSE 0)

(***************************************************************************)
(* A shell that holds the app mounted holds a frame that has the port, is  *)
(* about to have it, or gave up waiting for it; a frame that has the port  *)
(* is the one mounted.  A ready message from a frame that an earlier mount *)
(* left behind opens no channel (createIframeAppModule.ts:26-37).          *)
(***************************************************************************)
PortReachesFrame ==
  InFrame =>
    /\ mount = "mounted" => \/ frame \in {"connected", "gaveUp"}
                            \/ frame = "connecting" /\ ack # None
    /\ frame = "connected" => mount = "mounted"

(***************************************************************************)
(* A request of the app is answered in the end, or its frame is gone with  *)
(* whoever waited (createMessagePortChannel.ts:39-66).                     *)
(***************************************************************************)
RequestsSettle == \A id \in 0 .. MaxCalls - 1 : id \in pending["app"] ~> id \notin pending["app"]

(***************************************************************************)
(* Once the address has left the app, only the person writes the history:  *)
(* a navigation of the app that is still mounted, or that crosses the      *)
(* person's own on the port, does not reach it (createSdkRouter.ts:60-64). *)
(***************************************************************************)
LeftAppWritesNothing ==
  [][~OwnsCurrentRoute(hist) /\ hist'.entries # hist.entries => moves' # moves]_vars
=============================================================================
