-------------------------- MODULE EmbeddedAppProofs --------------------------
(***************************************************************************)
(* Proofs about EmbeddedApp, however long its histories and queues: a port *)
(* reaches the frame the shell holds, an app the person has left writes no *)
(* history, every request has one answer coming, and a frame and its       *)
(* router end up where the shell says they are.                            *)
(***************************************************************************)
EXTENDS EmbeddedApp, FiniteSetTheorems, SequenceTheorems, TLAPS

-----------------------------------------------------------------------------
(* The history.                                                            *)

IsHistory(h) ==
  /\ h \in [entries : Seq(Address), pos : Nat]
  /\ h.pos \in 1 .. Len(h.entries)

\* A history stays one when an address is pushed or replaced.
LEMMA WrittenIsHistory ==
  ASSUME NEW h, NEW a \in Address, IsHistory(h)
  PROVE  IsHistory(AfterPush(h, a)) /\ IsHistory(AfterReplace(h, a))
<1> DEFINE kept == SubSeq(h.entries, 1, h.pos)
<1>1. kept \in Seq(Address) /\ Len(kept) = h.pos
  BY DEF IsHistory
<1>2. Append(kept, a) \in Seq(Address) /\ Len(Append(kept, a)) = h.pos + 1
  BY <1>1 DEF IsHistory
<1>3. IsHistory(AfterPush(h, a))
  BY <1>2 DEF IsHistory, AfterPush
<1>4. [h.entries EXCEPT ![h.pos] = a] \in Seq(Address)
      /\ Len([h.entries EXCEPT ![h.pos] = a]) = Len(h.entries)
  BY DEF IsHistory
<1>5. IsHistory(AfterReplace(h, a))
  BY <1>4 DEF IsHistory, AfterReplace
<1> QED
  BY <1>3, <1>5

\* A traversal finds a history with the same entries.
LEMMA TraversedIsHistory ==
  ASSUME NEW h, NEW d \in {-1, 1}, IsHistory(h), CanGo(h, d)
  PROVE  IsHistory(AfterGo(h, d)) /\ AfterGo(h, d).entries = h.entries
BY DEF IsHistory, AfterGo, CanGo

\* sdk.router.navigate keeps a history one, and as it is for an app that is left.
LEMMA NavigatedIsHistory ==
  ASSUME NEW h, NEW to \in Paths, NEW replace, IsHistory(h)
  PROVE  /\ IsHistory(Navigate(h, to, replace))
         /\ ~OwnsCurrentRoute(h) => Navigate(h, to, replace) = h
<1> DEFINE a == [app |-> Me, path |-> to]
<1>1. a \in Address
  BY HistoryAssumption DEF Address
<1>2. Navigate(h, to, replace) \in {h, AfterReplace(h, a), AfterPush(h, a)}
  BY DEF Navigate
<1>3. IsHistory(Navigate(h, to, replace))
  BY <1>1, <1>2, WrittenIsHistory
<1> QED
  BY <1>3 DEF Navigate

\* A navigation of the app's leads where it says.
LEMMA NavigatedLeads ==
  ASSUME NEW h, NEW to \in Paths, NEW replace, IsHistory(h), OwnsCurrentRoute(h)
  PROVE  Here(Navigate(h, to, replace)) = [app |-> Me, path |-> to]
<1> DEFINE a == [app |-> Me, path |-> to]
<1>1. a \in Address
  BY HistoryAssumption DEF Address
<1> HIDE DEF a
<1>2. Here(AfterPush(h, a)) = a
  <2>1. SubSeq(h.entries, 1, h.pos) \in Seq(Address) /\ Len(SubSeq(h.entries, 1, h.pos)) = h.pos
    BY DEF IsHistory
  <2> QED
    BY <1>1, <2>1 DEF Here, AfterPush, IsHistory
<1>3. Here(AfterReplace(h, a)) = a
  BY DEF Here, AfterReplace, IsHistory
<1>4. Navigate(h, to, replace) \in {AfterReplace(h, a), AfterPush(h, a)}
  BY DEF Navigate, a
<1> QED
  BY <1>2, <1>3, <1>4 DEF a

\* Where the app is told it is, is one of its addresses.
LEMMA RelativeIsPath ==
  ASSUME NEW h, IsHistory(h)
  PROVE  RelativeLocation(h) \in Paths
<1>1. Here(h) \in Address
  BY DEF IsHistory, Here
<1> QED
  BY <1>1, HistoryAssumption DEF RelativeLocation, Address

-----------------------------------------------------------------------------
(* What travels on the port.                                               *)

Going == [to : Paths, replace : BOOLEAN]

AppSays ==
  { Request(id, "router.navigate", arg) : id \in Nat, arg \in Going } \cup
  { Request(id, method, None) : id \in Nat, method \in AppMethods \ {"router.navigate"} } \cup
  { Response(id) : id \in Nat }

HostSays ==
  { Request(id, "router.locationChanged", arg) : id \in Nat, arg \in Paths } \cup
  { Request(id, "access.changed", arg) : id \in Nat, arg \in Rights } \cup
  { Response(id) : id \in Nat }

ChannelInv ==
  /\ toHost \in Seq(AppSays) /\ toApp \in Seq(HostSays)
  /\ nextId \in [Ends -> Nat] /\ serving \subseteq Nat

CoreInv == IsHistory(hist) /\ access \in Rights /\ moves \in Nat /\ ChannelInv

\* Every message has an identifier, and a navigation says where to.
LEMMA MessagesSay ==
  /\ \A m \in AppSays \cup HostSays : m.id \in Nat
  /\ \A m \in AppSays : m.method = "router.navigate" => m.arg \in Going
<1>1. \A m \in AppSays \cup HostSays : m.id \in Nat
  BY DEF AppSays, HostSays, Request, Response
<1>2. None # "router.navigate"
  BY EmbeddedAssumption DEF AppMethods
<1>3. \A m \in AppSays : m.method = "router.navigate" => m.arg \in Going
  BY <1>2 DEF AppSays, Request, Response
<1> QED
  BY <1>1, <1>3

\* A push of the shell's, and a request of the app's, are messages.
LEMMA AskedIsSaid ==
  ASSUME ChannelInv
  PROVE  /\ \A p \in Paths : Asked(toApp, "host", "router.locationChanged", p) \in Seq(HostSays)
         /\ \A r \in Rights : Asked(toApp, "host", "access.changed", r) \in Seq(HostSays)
         /\ \A g \in Going : Asked(toHost, "app", "router.navigate", g) \in Seq(AppSays)
         /\ \A method \in AppMethods \ {"router.navigate"} :
              Asked(toHost, "app", method, None) \in Seq(AppSays)
<1>1. nextId["host"] \in Nat /\ nextId["app"] \in Nat
  BY DEF ChannelInv, Ends
<1>2. \A p \in Paths : Request(nextId["host"], "router.locationChanged", p) \in HostSays
  BY <1>1 DEF HostSays
<1>3. \A r \in Rights : Request(nextId["host"], "access.changed", r) \in HostSays
  BY <1>1 DEF HostSays
<1>4. \A g \in Going : Request(nextId["app"], "router.navigate", g) \in AppSays
  BY <1>1 DEF AppSays
<1>5. \A method \in AppMethods \ {"router.navigate"} :
        Request(nextId["app"], method, None) \in AppSays
  BY <1>1 DEF AppSays
<1> QED
  BY <1>2, <1>3, <1>4, <1>5 DEF Asked, ChannelInv

\* Waiting for an answer takes the next identifier.
LEMMA WaitingCounts ==
  ASSUME NEW end \in Ends, ChannelInv, Waiting(end)
  PROVE  nextId' \in [Ends -> Nat]
BY DEF ChannelInv, Waiting

\* What the history's subscribers do keeps the channel and the history.
LEMMA BecomesKeeps ==
  ASSUME NEW h, CoreInv, IsHistory(h), HistoryBecomes(h)
  PROVE  IsHistory(hist') /\ ChannelInv'
<1>1. hist' = h /\ UNCHANGED <<toHost, serving>>
  BY DEF HistoryBecomes
<1>2. CASE Bridged
  <2>1. toApp' = Asked(toApp, "host", "router.locationChanged", RelativeLocation(h))
        /\ Waiting("host")
    BY <1>2 DEF HistoryBecomes
  <2>2. toApp' \in Seq(HostSays) /\ nextId' \in [Ends -> Nat]
    BY <2>1, RelativeIsPath, AskedIsSaid, WaitingCounts DEF CoreInv, Ends
  <2> QED
    BY <1>1, <2>2 DEF CoreInv, ChannelInv
<1>3. CASE ~Bridged
  BY <1>1, <1>3 DEF HistoryBecomes, CoreInv, ChannelInv
<1> QED
  BY <1>2, <1>3

\* A request of the frame's keeps the channel.
LEMMA FrameAsksKeeps ==
  ASSUME NEW method, NEW arg, ChannelInv, FrameAsks(method, arg),
         \/ method = "router.navigate" /\ arg \in Going
         \/ method \in AppMethods \ {"router.navigate"} /\ arg = None
  PROVE  ChannelInv'
<1>1. toHost' \in Seq(AppSays)
  BY AskedIsSaid DEF FrameAsks
<1>2. nextId' \in [Ends -> Nat]
  BY WaitingCounts DEF FrameAsks, Ends
<1> QED
  BY <1>1, <1>2 DEF FrameAsks, ChannelInv

-----------------------------------------------------------------------------
(* The core invariant.                                                     *)

LEMMA CoreInit == Init => CoreInv
<1> SUFFICES ASSUME Init PROVE CoreInv
  OBVIOUS
<1>1. PICK p \in Paths : hist = StartAt([app |-> Me, path |-> p])
  BY DEF Init
<1>2. [app |-> Me, path |-> p] \in Address
  BY HistoryAssumption DEF Address
<1>3. IsHistory(hist)
  BY <1>1, <1>2 DEF IsHistory, StartAt
<1>4. ChannelInv
  BY DEF Init, ChannelInv, Ends
<1> QED
  BY <1>3, <1>4, EmbeddedAssumption DEF Init, CoreInv

\* The person's moves and those of access.
LEMMA CoreMoves ==
  ASSUME CoreInv,
         \/ \E a \in Address : PersonOpens(a)
         \/ \E d \in {-1, 1} : PersonTraverses(d)
         \/ \E r \in Rights : AccessChanges(r)
         \/ Traversed
  PROVE  CoreInv'
<1>1. CASE \E a \in Address : PersonOpens(a)
  <2>1. PICK a \in Address : PersonOpens(a)
    BY <1>1
  <2>2. IsHistory(AfterPush(hist, a))
    BY WrittenIsHistory DEF CoreInv
  <2>3. IsHistory(hist') /\ ChannelInv'
    BY <2>1, <2>2, BecomesKeeps DEF PersonOpens
  <2> QED
    BY <2>1, <2>3 DEF PersonOpens, CoreInv
<1>2. CASE \E d \in {-1, 1} : PersonTraverses(d)
  <2>1. PICK d \in {-1, 1} : PersonTraverses(d)
    BY <1>2
  <2>2. IsHistory(AfterGo(hist, d))
    BY <2>1, TraversedIsHistory DEF CoreInv, PersonTraverses
  <2>3. IsHistory(hist') /\ ChannelInv'
    BY <2>1, <2>2, BecomesKeeps DEF PersonTraverses
  <2> QED
    BY <2>1, <2>3 DEF PersonTraverses, CoreInv
<1>3. CASE \E r \in Rights : AccessChanges(r)
  <2>1. PICK r \in Rights : AccessChanges(r)
    BY <1>3
  <2>2. CASE Bridged
    <3>1. toApp' = Asked(toApp, "host", "access.changed", r) /\ Waiting("host")
      BY <2>1, <2>2 DEF AccessChanges
    <3>2. toApp' \in Seq(HostSays) /\ nextId' \in [Ends -> Nat]
      BY <3>1, AskedIsSaid, WaitingCounts DEF CoreInv, Ends
    <3> QED
      BY <2>1, <3>2 DEF AccessChanges, CoreInv, ChannelInv
  <2>3. CASE ~Bridged
    BY <2>1, <2>3 DEF AccessChanges, CoreInv, ChannelInv
  <2> QED
    BY <2>2, <2>3
<1>4. CASE Traversed
  <2>1. CASE CanGo(hist, -1)
    <3>1. IsHistory(AfterGo(hist, -1))
      BY <2>1, TraversedIsHistory DEF CoreInv
    <3>2. IsHistory(hist') /\ ChannelInv'
      BY <1>4, <2>1, <3>1, BecomesKeeps DEF Traversed
    <3> QED
      BY <1>4, <3>2 DEF Traversed, CoreInv, bounds
  <2>2. CASE ~CanGo(hist, -1)
    BY <1>4, <2>2 DEF Traversed, CoreInv, ChannelInv, channel, bounds
  <2> QED
    BY <2>1, <2>2
<1> QED
  BY <1>1, <1>2, <1>3, <1>4

\* The handshake, which touches no message of the port but starts it anew.
LEMMA CoreHandshake ==
  ASSUME CoreInv,
         \/ Mount \/ Unmount \/ EmbedStarts \/ HostReadsReady
         \/ HostTimesOut \/ EmbedReadsAck \/ EmbedTimesOut
  PROVE  CoreInv'
<1>1. ASSUME NoChannel PROVE ChannelInv'
  BY <1>1 DEF NoChannel, ChannelInv, Ends
<1>2. CASE Mount
  BY <1>1, <1>2 DEF Mount, CoreInv, shell
<1>3. CASE Unmount
  BY <1>1, <1>3 DEF Unmount, CoreInv, shell, bounds
<1>4. CASE EmbedStarts \/ HostReadsReady \/ HostTimesOut \/ EmbedReadsAck \/ EmbedTimesOut
  BY <1>4 DEF EmbedStarts, HostReadsReady, HostTimesOut, EmbedReadsAck, EmbedTimesOut,
              CoreInv, ChannelInv, shell, channel, bounds
<1> QED
  BY <1>2, <1>3, <1>4

\* What the app does.
LEMMA CoreApp ==
  ASSUME CoreInv,
         \/ \E to \in Paths, replace \in BOOLEAN : AppNavigates(to, replace)
         \/ \E method \in {"api.request", "unknown"} : AppRequests(method)
         \/ AppGoesBack
  PROVE  CoreInv'
<1>1. CASE \E to \in Paths, replace \in BOOLEAN : AppNavigates(to, replace)
  <2>1. PICK to \in Paths, replace \in BOOLEAN : AppNavigates(to, replace)
    BY <1>1
  <2>2. CASE InFrame
    <3>1. FrameNavigates(to, replace)
      BY <2>1, <2>2 DEF AppNavigates
    <3>2. [to |-> to, replace |-> replace] \in Going
      BY DEF Going
    <3>3. ChannelInv'
      BY <3>1, <3>2, FrameAsksKeeps DEF FrameNavigates, CoreInv
    <3> QED
      BY <2>1, <3>1, <3>3 DEF AppNavigates, FrameNavigates, CoreInv
  <2>3. CASE ~InFrame
    <3>1. hist' = Navigate(hist, to, replace) /\ UNCHANGED channel
      BY <2>1, <2>3 DEF AppNavigates, FederatedNavigates
    <3>2. IsHistory(hist')
      BY <3>1, NavigatedIsHistory DEF CoreInv
    <3> QED
      BY <2>1, <3>1, <3>2 DEF AppNavigates, CoreInv, ChannelInv, channel
  <2> QED
    BY <2>2, <2>3
<1>2. CASE \E method \in {"api.request", "unknown"} : AppRequests(method)
  <2>1. PICK method \in {"api.request", "unknown"} : AppRequests(method)
    BY <1>2
  <2>2. ChannelInv'
    BY <2>1, FrameAsksKeeps DEF AppRequests, CoreInv, AppMethods
  <2> QED
    BY <2>1, <2>2 DEF AppRequests, CoreInv, shell
<1>3. CASE AppGoesBack
  <2>1. ChannelInv'
    <3>1. CASE InFrame
      BY <1>3, <3>1, FrameAsksKeeps DEF AppGoesBack, CoreInv, AppMethods
    <3>2. CASE ~InFrame
      BY <1>3, <3>2 DEF AppGoesBack, CoreInv, ChannelInv, channel
    <3> QED
      BY <3>1, <3>2
  <2> QED
    BY <1>3, <2>1 DEF AppGoesBack, CoreInv
<1> QED
  BY <1>1, <1>2, <1>3

\* The shell reads the port, and a handler's promise settles.
LEMMA CoreHost ==
  ASSUME CoreInv, HostHandles \/ HostSettles
  PROVE  CoreInv'
<1>1. ASSUME NEW id \in Nat
      PROVE  Response(id) \in HostSays /\ Append(toApp, Response(id)) \in Seq(HostSays)
  <2>1. Response(id) \in HostSays
    BY <1>1 DEF HostSays
  <2> QED
    BY <2>1 DEF CoreInv, ChannelInv
<1>2. CASE HostHandles
  <2> DEFINE m == Head(toHost)
  <2>1. m \in AppSays /\ toHost' \in Seq(AppSays)
    BY <1>2 DEF HostHandles, CoreInv, ChannelInv
  <2>2. m.id \in Nat /\ (m.method = "router.navigate" => m.arg \in Going)
    BY <2>1, MessagesSay
  <2> HIDE DEF m
  <2>3. Append(toApp, Response(m.id)) \in Seq(HostSays)
    BY <1>1, <2>2
  <2>4. access' = access /\ moves' = moves
    BY <1>2 DEF HostHandles, bounds
  <2>5. CASE m.method = "router.navigate" /\ HostNavigates(m) /\ UNCHANGED serving
    <3> DEFINE h == Navigate(hist, m.arg.to, m.arg.replace)
    <3>1. m.arg.to \in Paths
      BY <2>2, <2>5 DEF Going
    <3>2. IsHistory(h)
      BY <3>1, NavigatedIsHistory DEF CoreInv
    <3> HIDE DEF h
    <3>3. CASE OwnsCurrentRoute(hist)
      <4>1. /\ hist' = h
            /\ toApp' = Append(Asked(toApp, "host", "router.locationChanged",
                                     RelativeLocation(h)), Response(m.id))
            /\ Waiting("host")
        BY <2>5, <3>3 DEF HostNavigates, h
      <4>2. Asked(toApp, "host", "router.locationChanged", RelativeLocation(h)) \in Seq(HostSays)
        BY <3>2, RelativeIsPath, AskedIsSaid DEF CoreInv
      <4>3. toApp' \in Seq(HostSays)
        BY <1>1, <2>2, <4>1, <4>2
      <4>4. nextId' \in [Ends -> Nat]
        BY <4>1, WaitingCounts DEF CoreInv, Ends
      <4> QED
        BY <2>1, <2>4, <2>5, <3>2, <4>1, <4>3, <4>4 DEF CoreInv, ChannelInv
    <3>4. CASE ~OwnsCurrentRoute(hist)
      BY <2>1, <2>3, <2>4, <2>5, <3>4 DEF HostNavigates, CoreInv, ChannelInv
    <3> QED
      BY <3>3, <3>4
  <2>6. CASE hist' = hist /\ nextId' = nextId /\ serving' \in {serving, serving \cup {m.id}}
             /\ toApp' \in {toApp, Append(toApp, Response(m.id))}
    BY <2>1, <2>2, <2>3, <2>4, <2>6 DEF CoreInv, ChannelInv
  <2>7. \/ m.method = "router.navigate" /\ HostNavigates(m) /\ UNCHANGED serving
        \/ /\ hist' = hist /\ nextId' = nextId /\ serving' \in {serving, serving \cup {m.id}}
           /\ toApp' \in {toApp, Append(toApp, Response(m.id))}
    BY <1>2, Zenon DEF HostHandles, Settled, m
  <2> QED
    BY <2>5, <2>6, <2>7
<1>3. CASE HostSettles
  <2>1. PICK id \in serving : serving' = serving \ {id} /\ HostAnswers(id)
    BY <1>3 DEF HostSettles
  <2>2. toApp' \in Seq(HostSays)
    BY <1>1, <2>1 DEF HostAnswers, CoreInv, ChannelInv
  <2> QED
    BY <1>3, <2>1, <2>2 DEF HostSettles, CoreInv, ChannelInv, shell, bounds
<1> QED
  BY <1>2, <1>3

\* The frame reads the port.
LEMMA CoreFrame ==
  ASSUME CoreInv, AppHandles
  PROVE  CoreInv'
<1> DEFINE m == Head(toApp)
<1>1. m \in HostSays /\ toApp' \in Seq(HostSays)
  BY DEF AppHandles, CoreInv, ChannelInv
<1>2. Response(m.id) \in AppSays
  BY <1>1, MessagesSay DEF AppSays
<1> HIDE DEF m
<1>3. toHost' \in {toHost, Append(toHost, Response(m.id))}
  BY DEF AppHandles, m
<1>4. toHost' \in Seq(AppSays)
  <2>1. Append(toHost, Response(m.id)) \in Seq(AppSays)
    BY <1>2 DEF CoreInv, ChannelInv
  <2> QED
    BY <1>3, <2>1 DEF CoreInv, ChannelInv
<1> QED
  BY <1>1, <1>4 DEF AppHandles, CoreInv, ChannelInv, shell, bounds

LEMMA CoreStep == CoreInv /\ [Next]_vars => CoreInv'
<1> SUFFICES ASSUME CoreInv, [Next]_vars PROVE CoreInv'
  OBVIOUS
<1>1. CASE UNCHANGED vars
  BY <1>1 DEF vars, shell, channel, bounds, CoreInv, ChannelInv
<1>2. CASE Next
  BY <1>2, CoreMoves, CoreHandshake, CoreApp, CoreHost, CoreFrame DEF Next
<1> QED
  BY <1>1, <1>2

\* The core invariant holds throughout.
THEOREM CoreCorrect == Spec => []CoreInv
BY CoreInit, CoreStep, PTL DEF Spec

-----------------------------------------------------------------------------
(* The handshake.                                                          *)

(***************************************************************************)
(* What PortReachesFrame rests on.  An ack under way is for the frame that *)
(* is mounted; and while the shell waits, the ready message it would       *)
(* answer was sent by the frame in the page, which waits or has given up.  *)
(***************************************************************************)
HandshakeInv ==
  InFrame =>
    /\ mount = "mounted" => \/ frame \in {"connected", "gaveUp"}
                            \/ frame = "connecting" /\ ack # None
    /\ frame = "connected" => mount = "mounted"
    /\ ack # None => mount = "mounted"
    /\ mount = "waiting" /\ "current" \in ready => frame \in {"connecting", "gaveUp"}

\* Before the first mount there is no frame and no message.
LEMMA HandshakeInit == Init => HandshakeInv
BY DEF Init, HandshakeInv

\* A step that leaves the handshake alone leaves its invariant alone.
LEMMA HandshakeAlone ==
  ASSUME HandshakeInv, UNCHANGED <<app, handshake>>
  PROVE  HandshakeInv'
BY DEF HandshakeInv, handshake, InFrame

\* Reading a ready message keeps the handshake in order.
LEMMA HandshakeReads ==
  ASSUME CoreInv, HandshakeInv, HostReadsReady
  PROVE  HandshakeInv'
<1> SUFFICES ASSUME InFrame' PROVE HandshakeInv'
  BY DEF HandshakeInv
<1>1. app' = app /\ InFrame
  BY DEF HostReadsReady, InFrame
<1>2. PICK r \in ready : ready' = ready \ {r} /\ HostHears(r)
  BY DEF HostReadsReady
<1>3. CASE r = "current" /\ mount = "waiting" /\ app.sound
  <2>1. frame \in {"connecting", "gaveUp"} /\ mount' = "mounted" /\ frame' = frame
    BY <1>1, <1>2, <1>3 DEF HandshakeInv, HostHears
  <2>2. ack' = [location |-> RelativeLocation(hist), access |-> access]
    BY <1>2, <1>3 DEF HostHears
  <2>3. ack' # None
    BY <2>2, RelativeIsPath, EmbeddedAssumption DEF CoreInv, Snapshot
  <2> QED
    BY <2>1, <2>3 DEF HandshakeInv
<1>4. CASE r = "current" /\ mount = "waiting" /\ ~app.sound
  <2>1. mount' = "failed" /\ frame' = "none" /\ ack' = ack
    BY <1>2, <1>4 DEF HostHears
  <2>2. ack = None
    BY <1>1, <1>4 DEF HandshakeInv
  <2> QED
    BY <2>1, <2>2 DEF HandshakeInv
<1>5. CASE ~(r = "current" /\ mount = "waiting")
  <2>1. UNCHANGED <<mount, frame, ack>> /\ ready' \subseteq ready
    BY <1>2, <1>5 DEF HostHears
  <2> QED
    BY <1>1, <2>1 DEF HandshakeInv
<1> QED
  BY <1>3, <1>4, <1>5

\* The other steps of the handshake.
LEMMA HandshakeGoesOn ==
  ASSUME HandshakeInv,
         Mount \/ Unmount \/ EmbedStarts \/ HostTimesOut \/ EmbedReadsAck \/ EmbedTimesOut
  PROVE  HandshakeInv'
<1>1. CASE Mount
  <2>1. CASE InFrame
    <3>1. mount' = "waiting" /\ frame' = "loading" /\ ack' = ack /\ "current" \notin ready'
      BY <1>1, <2>1 DEF Mount
    <3>2. ack = None
      BY <1>1, <2>1 DEF Mount, HandshakeInv
    <3> QED
      BY <3>1, <3>2 DEF HandshakeInv
  <2>2. CASE ~InFrame
    BY <1>1, <2>2 DEF Mount, HandshakeInv, InFrame
  <2> QED
    BY <2>1, <2>2
<1>2. CASE Unmount
  BY <1>2 DEF Unmount, HandshakeInv, InFrame
<1>3. CASE EmbedStarts
  BY <1>3 DEF EmbedStarts, HandshakeInv, InFrame
<1>4. CASE HostTimesOut
  BY <1>4 DEF HostTimesOut, HandshakeInv, InFrame
<1>5. CASE EmbedReadsAck
  BY <1>5 DEF EmbedReadsAck, HandshakeInv, InFrame
<1>6. CASE EmbedTimesOut
  BY <1>6 DEF EmbedTimesOut, HandshakeInv, InFrame
<1> QED
  BY <1>1, <1>2, <1>3, <1>4, <1>5, <1>6

LEMMA HandshakeStep == CoreInv /\ HandshakeInv /\ [Next]_vars => HandshakeInv'
<1> SUFFICES ASSUME CoreInv, HandshakeInv, [Next]_vars PROVE HandshakeInv'
  OBVIOUS
<1>1. CASE UNCHANGED vars
  BY <1>1, HandshakeAlone DEF vars
<1>2. CASE \/ \E a \in Address : PersonOpens(a)
           \/ \E d \in {-1, 1} : PersonTraverses(d)
           \/ \E r \in Rights : AccessChanges(r)
           \/ \E to \in Paths, replace \in BOOLEAN : AppNavigates(to, replace)
           \/ \E method \in {"api.request", "unknown"} : AppRequests(method)
           \/ AppGoesBack \/ Traversed
           \/ HostHandles \/ HostSettles \/ AppHandles
  BY <1>2, HandshakeAlone DEF PersonOpens, PersonTraverses, AccessChanges, AppNavigates,
       AppRequests, AppGoesBack, Traversed, HostHandles, HostSettles, AppHandles
<1>3. CASE HostReadsReady
  BY <1>3, HandshakeReads
<1>4. CASE Mount \/ Unmount \/ EmbedStarts \/ HostTimesOut \/ EmbedReadsAck \/ EmbedTimesOut
  BY <1>4, HandshakeGoesOn
<1> QED
  BY <1>1, <1>2, <1>3, <1>4 DEF Next

(***************************************************************************)
(* However mounts, timeouts at either end and late ready messages          *)
(* interleave, a shell that holds the app mounted holds a frame that has   *)
(* the port, will have it or gave up, and no other frame has one           *)
(* (createIframeAppModule.ts:26-37).                                       *)
(***************************************************************************)
THEOREM PortsReachFrames == Spec => []PortReachesFrame
<1>1. HandshakeInv => PortReachesFrame
  BY DEF HandshakeInv, PortReachesFrame
<1> QED
  BY <1>1, HandshakeInit, HandshakeStep, CoreCorrect, PTL DEF Spec

-----------------------------------------------------------------------------
(* Who writes the history.                                                 *)

\* A step that is no move of the person writes no entry where the app is not.
LEMMA LeftWritesNothing ==
  ASSUME CoreInv, [Next]_vars, ~OwnsCurrentRoute(hist), moves' = moves
  PROVE  hist'.entries = hist.entries
<1> SUFFICES ASSUME hist' # hist PROVE hist'.entries = hist.entries
  OBVIOUS
<1>1. moves' # moves + 1
  BY DEF CoreInv
<1>2. ~\E a \in Address : PersonOpens(a)
  BY <1>1 DEF PersonOpens
<1>3. ~\E d \in {-1, 1} : PersonTraverses(d)
  BY <1>1 DEF PersonTraverses
<1>4. ~\E to \in Paths, replace \in BOOLEAN : AppNavigates(to, replace)
  <2> SUFFICES ASSUME NEW to \in Paths, NEW replace \in BOOLEAN, AppNavigates(to, replace)
               PROVE  hist' = hist
    OBVIOUS
  <2>1. CASE InFrame
    BY <2>1 DEF AppNavigates, FrameNavigates
  <2>2. CASE ~InFrame
    BY <2>2 DEF AppNavigates, FederatedNavigates, Navigate
  <2> QED
    BY <2>1, <2>2
<1>5. ~HostHandles
  BY DEF HostHandles, HostNavigates
<1>6. ~(\/ \E r \in Rights : AccessChanges(r)
        \/ \E method \in {"api.request", "unknown"} : AppRequests(method)
        \/ AppGoesBack \/ HostSettles \/ AppHandles \/ UNCHANGED vars)
  BY DEF AccessChanges, AppRequests, AppGoesBack, HostSettles, AppHandles, vars, shell
<1>7. ~(\/ Mount \/ Unmount \/ EmbedStarts \/ HostReadsReady
        \/ HostTimesOut \/ EmbedReadsAck \/ EmbedTimesOut)
  BY DEF Mount, Unmount, EmbedStarts, HostReadsReady, HostTimesOut, EmbedReadsAck,
         EmbedTimesOut, shell
<1>8. Traversed
  BY <1>2, <1>3, <1>4, <1>5, <1>6, <1>7 DEF Next
<1>9. CanGo(hist, -1) /\ hist' = AfterGo(hist, -1)
  BY <1>8 DEF Traversed, HistoryBecomes
<1> QED
  BY <1>9, TraversedIsHistory DEF CoreInv

(***************************************************************************)
(* Once the address has left the app, the entries of the history change    *)
(* with the person's moves only, whether the app is still mounted or its   *)
(* navigation is on the port (createSdkRouter.ts:60-64).                   *)
(***************************************************************************)
THEOREM LeftAppsWriteNothing == Spec => LeftAppWritesNothing
<1>1. CoreInv /\ [Next]_vars =>
        [~OwnsCurrentRoute(hist) /\ hist'.entries # hist.entries => moves' # moves]_vars
  BY LeftWritesNothing
<1> QED
  BY <1>1, CoreCorrect, PTL DEF Spec, LeftAppWritesNothing

-----------------------------------------------------------------------------
(* What a queue holds.                                                     *)

CountIn(q, S) == Cardinality({ i \in DOMAIN q : q[i] \in S })

\* No message of q calls this method; the last one that does says this.
Silent(q, method) == \A i \in 1 .. Len(q) : q[i].method # method

LastSays(q, method, arg) ==
  \A i \in 1 .. Len(q) :
    q[i].method = method /\ (\A j \in i + 1 .. Len(q) : q[j].method # method)
      => q[i].arg = arg

\* The places of a queue are finitely many.
LEMMA PlacesFinite ==
  ASSUME NEW T, NEW q \in Seq(T), NEW S
  PROVE  /\ IsFiniteSet({ i \in DOMAIN q : q[i] \in S })
         /\ CountIn(q, S) \in Nat
<1>1. DOMAIN q = 1 .. Len(q) /\ IsFiniteSet(1 .. Len(q))
  BY FS_Interval
<1>2. { i \in DOMAIN q : q[i] \in S } \in SUBSET (1 .. Len(q))
  BY <1>1
<1> QED
  BY <1>1, <1>2, FS_Subset, FS_CardinalityType DEF CountIn

\* None of a queue is among S exactly when it counts none.
LEMMA CountsNone ==
  ASSUME NEW T, NEW q \in Seq(T), NEW S
  PROVE  /\ CountIn(q, S) = 0 <=> \A i \in 1 .. Len(q) : q[i] \notin S
         /\ q = <<>> => CountIn(q, S) = 0
<1> DEFINE P == { i \in DOMAIN q : q[i] \in S }
<1>1. CountIn(q, S) = 0 <=> P = {}
  BY PlacesFinite, FS_EmptySet DEF CountIn
<1>2. P = {} <=> \A i \in 1 .. Len(q) : q[i] \notin S
  OBVIOUS
<1> QED
  BY <1>1, <1>2

\* A message put behind a queue counts once, if it counts.
LEMMA CountAppend ==
  ASSUME NEW T, NEW q \in Seq(T), NEW m \in T, NEW S
  PROVE  CountIn(Append(q, m), S) = CountIn(q, S) + (IF m \in S THEN 1 ELSE 0)
<1> DEFINE P == { i \in DOMAIN q : q[i] \in S }
           n == Len(q) + 1
           A == Append(q, m)
           Q == { i \in DOMAIN A : A[i] \in S }
<1>1. A \in Seq(T) /\ DOMAIN A = 1 .. n /\ A[n] = m /\ \A i \in 1 .. Len(q) : A[i] = q[i]
  OBVIOUS
<1>2. DOMAIN q = 1 .. Len(q) /\ Len(q) \in Nat
  OBVIOUS
<1>3. Q = IF m \in S THEN P \cup {n} ELSE P
  BY <1>1, <1>2
<1>4. n \notin P
  BY <1>2
<1>5. IsFiniteSet(P) /\ Cardinality(P) \in Nat
  BY PlacesFinite, FS_CardinalityType
<1> HIDE DEF P, Q, A, n
<1>6. Cardinality(P \cup {n}) = Cardinality(P) + 1
  BY <1>4, <1>5, FS_AddElement
<1>7. Cardinality(Q) = Cardinality(P) + (IF m \in S THEN 1 ELSE 0)
  BY <1>3, <1>5, <1>6
<1> QED
  BY <1>7 DEF CountIn, P, Q, A

\* A message taken from a queue counted once, if it counted.
LEMMA CountTail ==
  ASSUME NEW T, NEW q \in Seq(T), NEW S, q # <<>>
  PROVE  CountIn(q, S) = CountIn(Tail(q), S) + (IF Head(q) \in S THEN 1 ELSE 0)
<1> DEFINE t == Tail(q)
           P == { i \in DOMAIN t : t[i] \in S }
           R == { i \in 2 .. Len(q) : q[i] \in S }
           Q == { i \in DOMAIN q : q[i] \in S }
           f == [i \in P |-> i + 1]
<1>1. /\ t \in Seq(T) /\ Len(q) \in Nat \ {0} /\ Len(t) = Len(q) - 1
      /\ DOMAIN t = 1 .. Len(t) /\ DOMAIN q = 1 .. Len(q)
  OBVIOUS
<1>2. \A i \in 1 .. Len(t) : t[i] = q[i + 1]
  OBVIOUS
<1>3. f \in Bijection(P, R)
  <2>1. \A i \in P : i + 1 \in R
    BY <1>1, <1>2
  <2>2. \A j \in R : j - 1 \in P /\ (j - 1) + 1 = j
    BY <1>1, <1>2
  <2>3. P \subseteq Nat
    BY <1>1
  <2> HIDE DEF P, R
  <2>4. f \in [P -> R]
    BY <2>1
  <2>5. \A a, b \in P : f[a] = f[b] => a = b
    BY <2>3
  <2>6. \A j \in R : \E i \in P : f[i] = j
    BY <2>2
  <2> QED
    BY <2>4, <2>5, <2>6 DEF Bijection, Injection, Surjection, IsInjective
<1>4. IsFiniteSet(P) /\ Cardinality(P) \in Nat
  BY <1>1, PlacesFinite, FS_CardinalityType
<1>5. IsFiniteSet(R) /\ Cardinality(R) = Cardinality(P)
  BY <1>3, <1>4, FS_Bijection DEF ExistsBijection
<1>6. Head(q) = q[1]
  OBVIOUS
<1>7. Q = IF Head(q) \in S THEN R \cup {1} ELSE R
  BY <1>1, <1>6
<1>8. 1 \notin R
  OBVIOUS
<1> HIDE DEF P, Q, R, f, t
<1>9. Cardinality(R \cup {1}) = Cardinality(R) + 1
  BY <1>5, <1>8, FS_AddElement
<1>10. Cardinality(Q) = Cardinality(P) + (IF Head(q) \in S THEN 1 ELSE 0)
  BY <1>4, <1>5, <1>7, <1>9
<1> QED
  BY <1>10 DEF CountIn, P, Q, t

\* What the last message says of a method, and that none does, when one is put
\* behind the queue.
LEMMA LastAppended ==
  ASSUME NEW T, NEW q \in Seq(T), NEW m \in T, NEW method, NEW arg
  PROVE  /\ m.method = method /\ m.arg = arg => LastSays(Append(q, m), method, arg)
         /\ m.method # method /\ LastSays(q, method, arg) => LastSays(Append(q, m), method, arg)
         /\ Silent(Append(q, m), method) <=> Silent(q, method) /\ m.method # method
<1> DEFINE A == Append(q, m)
<1>1. /\ Len(q) \in Nat /\ Len(A) = Len(q) + 1 /\ A[Len(q) + 1] = m
      /\ \A i \in 1 .. Len(q) : A[i] = q[i]
  OBVIOUS
<1> HIDE DEF A
<1>2. Silent(A, method) <=> Silent(q, method) /\ m.method # method
  BY <1>1 DEF Silent
<1>3. ASSUME m.method = method, m.arg = arg PROVE LastSays(A, method, arg)
  <2> SUFFICES ASSUME NEW i \in 1 .. Len(A), A[i].method = method,
                      \A j \in i + 1 .. Len(A) : A[j].method # method
               PROVE  A[i].arg = arg
    BY DEF LastSays
  <2>1. i = Len(q) + 1
    BY <1>1, <1>3
  <2> QED
    BY <1>1, <1>3, <2>1
<1>4. ASSUME m.method # method, LastSays(q, method, arg) PROVE LastSays(A, method, arg)
  <2> SUFFICES ASSUME NEW i \in 1 .. Len(A), A[i].method = method,
                      \A j \in i + 1 .. Len(A) : A[j].method # method
               PROVE  A[i].arg = arg
    BY DEF LastSays
  <2>1. i \in 1 .. Len(q)
    BY <1>1, <1>4
  <2>2. \A j \in i + 1 .. Len(q) : q[j].method # method
    BY <1>1, <2>1
  <2> QED
    BY <1>1, <1>4, <2>1, <2>2 DEF LastSays
<1> QED
  BY <1>2, <1>3, <1>4 DEF A

\* The same when the first is taken.
LEMMA LastTaken ==
  ASSUME NEW T, NEW q \in Seq(T), q # <<>>, NEW method, NEW arg, LastSays(q, method, arg)
  PROVE  /\ LastSays(Tail(q), method, arg)
         /\ Silent(Tail(q), method) => \/ Head(q).method = method /\ Head(q).arg = arg
                                       \/ Head(q).method # method /\ Silent(q, method)
<1> DEFINE t == Tail(q)
<1>1. /\ Len(q) \in Nat \ {0} /\ Len(t) = Len(q) - 1 /\ Head(q) = q[1]
      /\ \A i \in 1 .. Len(t) : t[i] = q[i + 1]
  OBVIOUS
<1> HIDE DEF t
<1>2. LastSays(t, method, arg)
  <2> SUFFICES ASSUME NEW i \in 1 .. Len(t), t[i].method = method,
                      \A j \in i + 1 .. Len(t) : t[j].method # method
               PROVE  t[i].arg = arg
    BY DEF LastSays
  <2>1. i + 1 \in 1 .. Len(q) /\ q[i + 1].method = method
    BY <1>1
  <2>2. ASSUME NEW j \in (i + 1) + 1 .. Len(q) PROVE q[j].method # method
    <3>1. j - 1 \in i + 1 .. Len(t) /\ j - 1 \in 1 .. Len(t) /\ (j - 1) + 1 = j
      BY <1>1, <2>2
    <3> QED
      BY <1>1, <3>1
  <2>3. q[i + 1].arg = arg
    BY <2>1, <2>2 DEF LastSays
  <2> QED
    BY <1>1, <2>3
<1>3. ASSUME Silent(t, method)
      PROVE  \A j \in 2 .. Len(q) : q[j].method # method
  <2> SUFFICES ASSUME NEW j \in 2 .. Len(q) PROVE q[j].method # method
    OBVIOUS
  <2>1. j - 1 \in 1 .. Len(t) /\ (j - 1) + 1 = j
    BY <1>1
  <2> QED
    BY <1>1, <1>3, <2>1 DEF Silent
<1>4. ASSUME Silent(t, method), q[1].method = method PROVE q[1].arg = arg
  BY <1>1, <1>3, <1>4 DEF LastSays
<1>5. ASSUME Silent(t, method), q[1].method # method PROVE Silent(q, method)
  BY <1>1, <1>3, <1>5 DEF Silent
<1> QED
  BY <1>1, <1>2, <1>4, <1>5 DEF t

-----------------------------------------------------------------------------
(* Who waits for an answer.                                                *)

\* The messages that ask, or answer, this.
Of(kind, id) == { m \in AppSays \cup HostSays : m.kind = kind /\ m.id = id }

Balanced(id) ==
  /\ CountIn(toHost, Of("request", id)) + CountIn(toApp, Of("response", id))
       + (IF id \in serving THEN 1 ELSE 0) = (IF id \in pending["app"] THEN 1 ELSE 0)
  /\ CountIn(toApp, Of("request", id)) + CountIn(toHost, Of("response", id))
       = (IF id \in pending["host"] THEN 1 ELSE 0)

(***************************************************************************)
(* What EachHasItsAnswer rests on: the requests that wait were made, so    *)
(* the next identifier is nobody's yet.  It holds while no port is open as *)
(* well: the queues are empty then.                                        *)
(***************************************************************************)
AnswerInv ==
  /\ pending \in [Ends -> SUBSET Nat]
  /\ \A end \in Ends : \A id \in pending[end] : id < nextId[end]
  /\ \A id \in Nat : Balanced(id)

\* A request is not an answer.
LEMMA KindsOf ==
  /\ \A id \in Nat : \A method, arg : Request(id, method, arg) \in AppSays \cup HostSays =>
       \A n \in Nat : /\ Request(id, method, arg) \in Of("request", n) <=> n = id
                      /\ Request(id, method, arg) \notin Of("response", n)
  /\ \A id \in Nat : \A n \in Nat : /\ Response(id) \in Of("response", n) <=> n = id
                                    /\ Response(id) \notin Of("request", n)
  /\ \A m \in AppSays \cup HostSays :
       /\ m.kind \in {"request", "response"}
       /\ m.kind = "request" => m.method \in AppMethods \cup HostMethods
       /\ m.kind = "response" => m.method = None
<1>1. \A id \in Nat : Response(id) \in AppSays
  BY DEF AppSays
<1>2. \A m \in AppSays \cup HostSays :
        /\ m.kind \in {"request", "response"}
        /\ m.kind = "request" => m.method \in AppMethods \cup HostMethods
        /\ m.kind = "response" => m.method = None
  BY DEF AppSays, HostSays, Request, Response, AppMethods, HostMethods
<1>3. \A id \in Nat : \A n \in Nat : /\ Response(id) \in Of("response", n) <=> n = id
                                     /\ Response(id) \notin Of("request", n)
  BY <1>1 DEF Of, Response
<1> QED
  BY <1>2, <1>3 DEF Of, Request

\* The counts are numbers.
LEMMA CountsAreNat ==
  ASSUME ChannelInv, NEW S
  PROVE  CountIn(toHost, S) \in Nat /\ CountIn(toApp, S) \in Nat
BY PlacesFinite DEF ChannelInv

\* A request of one end, its identifier being nobody's.
LEMMA AskedBalances ==
  ASSUME ChannelInv, AnswerInv, NEW end \in Ends, Waiting(end), UNCHANGED serving,
         NEW m, m.kind = "request", m.id = nextId[end],
         \/ end = "host" /\ m \in HostSays /\ toApp' = Append(toApp, m) /\ toHost' = toHost
         \/ end = "app" /\ m \in AppSays /\ toHost' = Append(toHost, m) /\ toApp' = toApp
  PROVE  AnswerInv'
<1>1. /\ nextId \in [Ends -> Nat] /\ pending \in [Ends -> SUBSET Nat]
      /\ "host" \in Ends /\ "app" \in Ends
  BY DEF ChannelInv, AnswerInv, Ends
<1>2. /\ pending' \in [Ends -> SUBSET Nat]
      /\ \A e \in Ends : \A id \in pending'[e] : id < nextId'[e]
  BY <1>1 DEF Waiting, AnswerInv
<1>3. ASSUME NEW id \in Nat PROVE Balanced(id)'
  <2>1. /\ CountIn(toHost, Of("request", id)) \in Nat /\ CountIn(toApp, Of("request", id)) \in Nat
        /\ CountIn(toHost, Of("response", id)) \in Nat /\ CountIn(toApp, Of("response", id)) \in Nat
    BY CountsAreNat
  <2>2. Balanced(id)
    BY DEF AnswerInv
  <2>3. m \in Of("request", id) <=> id = nextId[end]
    BY DEF Of
  <2>4. m \notin Of("response", id)
    BY DEF Of
  <2>5. nextId[end] \notin pending[end]
    BY <1>1 DEF AnswerInv
  <2>6. CASE end = "host"
    <3>1. m \in HostSays /\ toApp' = Append(toApp, m) /\ toHost' = toHost
      BY <2>6
    <3>2. /\ CountIn(toApp', Of("request", id)) =
               CountIn(toApp, Of("request", id)) + (IF id = nextId[end] THEN 1 ELSE 0)
          /\ CountIn(toApp', Of("response", id)) = CountIn(toApp, Of("response", id))
      BY <2>1, <2>3, <2>4, <3>1, CountAppend DEF ChannelInv
    <3>3. /\ pending'["app"] = pending["app"]
          /\ id \in pending'["host"] <=> id \in pending["host"] \/ id = nextId[end]
      BY <1>1, <2>6 DEF Waiting
    <3>4. CountIn(toApp, Of("request", id)) + CountIn(toHost, Of("response", id))
            = (IF id \in pending["host"] THEN 1 ELSE 0)
      BY <2>2 DEF Balanced
    <3>5. id = nextId[end] => id \notin pending["host"]
      BY <2>5, <2>6
    <3>6. CountIn(toApp', Of("request", id)) + CountIn(toHost', Of("response", id))
            = (IF id \in pending'["host"] THEN 1 ELSE 0)
      BY <2>1, <3>1, <3>2, <3>3, <3>4, <3>5
    <3> QED
      BY <2>2, <3>1, <3>2, <3>3, <3>6 DEF Balanced
  <2>7. CASE end = "app"
    <3>1. m \in AppSays /\ toHost' = Append(toHost, m) /\ toApp' = toApp
      BY <2>7
    <3>2. /\ CountIn(toHost', Of("request", id)) =
               CountIn(toHost, Of("request", id)) + (IF id = nextId[end] THEN 1 ELSE 0)
          /\ CountIn(toHost', Of("response", id)) = CountIn(toHost, Of("response", id))
      BY <2>1, <2>3, <2>4, <3>1, CountAppend DEF ChannelInv
    <3>3. /\ pending'["host"] = pending["host"]
          /\ id \in pending'["app"] <=> id \in pending["app"] \/ id = nextId[end]
      BY <1>1, <2>7 DEF Waiting
    <3> QED
      BY <2>1, <2>2, <2>5, <2>7, <3>1, <3>2, <3>3 DEF Balanced
  <2> QED
    BY <2>6, <2>7 DEF Ends
<1> QED
  BY <1>2, <1>3 DEF AnswerInv

\* An end that has no port has no message and no request that waits.
LEMMA NoneBalances ==
  ASSUME NoChannel
  PROVE  AnswerInv'
<1>1. /\ toApp' = <<>> /\ toHost' = <<>> /\ serving' = {}
      /\ pending' = [e \in Ends |-> {}]
  BY DEF NoChannel
<1>2. \A S : CountIn(<<>>, S) = 0
  <2>1. <<>> \in Seq({})
    OBVIOUS
  <2> QED
    BY <2>1, CountsNone
<1>3. \A id \in Nat : Balanced(id)'
  BY <1>1, <1>2 DEF Balanced, Ends
<1> QED
  BY <1>1, <1>3 DEF AnswerInv

\* The first message of a queue, taken, counted where it belongs.
LEMMA TakenCounts ==
  ASSUME NEW T \in SUBSET (AppSays \cup HostSays), NEW q \in Seq(T), q # <<>>, NEW id \in Nat
  PROVE  /\ Head(q) \in T /\ Head(q).id \in Nat
         /\ CountIn(Tail(q), Of("request", id)) \in Nat
         /\ CountIn(Tail(q), Of("response", id)) \in Nat
         /\ Head(q).kind = "request" =>
              /\ CountIn(q, Of("request", id)) = CountIn(Tail(q), Of("request", id))
                   + (IF id = Head(q).id THEN 1 ELSE 0)
              /\ CountIn(q, Of("response", id)) = CountIn(Tail(q), Of("response", id))
         /\ Head(q).kind = "response" =>
              /\ CountIn(q, Of("response", id)) = CountIn(Tail(q), Of("response", id))
                   + (IF id = Head(q).id THEN 1 ELSE 0)
              /\ CountIn(q, Of("request", id)) = CountIn(Tail(q), Of("request", id))
<1>1. Head(q) \in T /\ Tail(q) \in Seq(T)
  OBVIOUS
<1>2. /\ CountIn(Tail(q), Of("request", id)) \in Nat
      /\ CountIn(Tail(q), Of("response", id)) \in Nat
  BY <1>1, PlacesFinite
<1>3. \A S : CountIn(q, S) = CountIn(Tail(q), S) + (IF Head(q) \in S THEN 1 ELSE 0)
  BY <1>1, CountTail
<1>4. \A kind : Head(q) \in Of(kind, id) <=> Head(q).kind = kind /\ Head(q).id = id
  BY <1>1 DEF Of
<1>5. Head(q).id \in Nat
  BY <1>1, MessagesSay
<1> QED
  BY <1>1, <1>2, <1>3, <1>4, <1>5

\* A step that leaves the channel alone leaves its answers alone.
LEMMA AnswerAlone ==
  ASSUME AnswerInv, UNCHANGED channel
  PROVE  AnswerInv'
BY DEF AnswerInv, Balanced, channel

\* What the shell tells the app.
LEMMA AnswerPushes ==
  ASSUME CoreInv, AnswerInv,
         \/ \E h : IsHistory(h) /\ HistoryBecomes(h)
         \/ \E r \in Rights : AccessChanges(r)
  PROVE  AnswerInv'
<1>1. CASE Bridged
  <2>1. PICK m : /\ m.kind = "request" /\ m.id = nextId["host"]
                 /\ m \in HostSays /\ toApp' = Append(toApp, m)
                 /\ Waiting("host") /\ UNCHANGED <<toHost, serving>>
    <3>1. nextId["host"] \in Nat
      BY DEF CoreInv, ChannelInv, Ends
    <3>2. CASE \E h : IsHistory(h) /\ HistoryBecomes(h)
      <4>1. PICK h : IsHistory(h) /\ HistoryBecomes(h)
        BY <3>2
      <4> DEFINE m == Request(nextId["host"], "router.locationChanged", RelativeLocation(h))
      <4>2. m \in HostSays /\ m.kind = "request" /\ m.id = nextId["host"]
        BY <3>1, <4>1, RelativeIsPath DEF HostSays, Request
      <4>3. toApp' = Append(toApp, m) /\ Waiting("host") /\ UNCHANGED <<toHost, serving>>
        BY <1>1, <4>1 DEF HistoryBecomes, Asked
      <4> QED
        BY <4>2, <4>3
    <3>3. CASE \E r \in Rights : AccessChanges(r)
      <4>1. PICK r \in Rights : AccessChanges(r)
        BY <3>3
      <4> DEFINE m == Request(nextId["host"], "access.changed", r)
      <4>2. m \in HostSays /\ m.kind = "request" /\ m.id = nextId["host"]
        BY <3>1 DEF HostSays, Request
      <4>3. toApp' = Append(toApp, m) /\ Waiting("host") /\ UNCHANGED <<toHost, serving>>
        BY <1>1, <4>1 DEF AccessChanges, Asked
      <4> QED
        BY <4>2, <4>3
    <3> QED
      BY <3>2, <3>3
  <2> QED
    BY <2>1, AskedBalances DEF CoreInv, Ends
<1>2. CASE ~Bridged
  BY <1>2, AnswerAlone DEF HistoryBecomes, AccessChanges, channel
<1> QED
  BY <1>1, <1>2

\* What the frame asks.
LEMMA AnswerAsks ==
  ASSUME CoreInv, AnswerInv, NEW method, NEW arg, FrameAsks(method, arg),
         \/ method = "router.navigate" /\ arg \in Going
         \/ method \in AppMethods \ {"router.navigate"} /\ arg = None
  PROVE  AnswerInv'
<1> DEFINE m == Request(nextId["app"], method, arg)
<1>1. nextId["app"] \in Nat
  BY DEF CoreInv, ChannelInv, Ends
<1>2. m \in AppSays /\ m.kind = "request" /\ m.id = nextId["app"]
  BY <1>1 DEF AppSays, Request
<1>3. toHost' = Append(toHost, m) /\ Waiting("app") /\ UNCHANGED <<toApp, serving>>
  BY DEF FrameAsks, Asked
<1> QED
  BY <1>2, <1>3, AskedBalances DEF CoreInv, Ends

\* The shell reads its end: it settles, or serves, or answers, with a push before
\* the answer to a navigation.
LEMMA HostHandlesOne ==
  ASSUME CoreInv, HostHandles
  PROVE  LET m == Head(toHost) IN
         /\ toHost # <<>> /\ toHost' = Tail(toHost) /\ toHost \in Seq(AppSays)
         /\ m \in AppSays
         /\ \/ /\ m.kind = "response" /\ Settled("host", m.id)
               /\ UNCHANGED <<toApp, nextId, serving>>
            \/ /\ m.kind = "request" /\ serving' = serving \cup {m.id}
               /\ UNCHANGED <<toApp, pending, nextId>>
            \/ /\ m.kind = "request" /\ toApp' = Append(toApp, Response(m.id))
               /\ UNCHANGED <<pending, nextId, serving>>
            \/ /\ m.kind = "request" /\ UNCHANGED serving /\ Waiting("host")
               /\ \E p \in Paths :
                    toApp' = Append(Asked(toApp, "host", "router.locationChanged", p),
                                    Response(m.id))
<1> DEFINE m == Head(toHost)
<1>1. toHost # <<>> /\ toHost' = Tail(toHost) /\ toHost \in Seq(AppSays) /\ m \in AppSays
  BY DEF HostHandles, CoreInv, ChannelInv
<1> HIDE DEF m
<1>2. m.method \in AppMethods => m.kind = "request"
  BY <1>1, KindsOf, EmbeddedAssumption
<1>3. m.method = "router.navigate" => m.arg \in Going
  BY <1>1, MessagesSay
<1>4. CASE /\ m.method = "router.navigate" /\ HostNavigates(m) /\ UNCHANGED serving
           /\ OwnsCurrentRoute(hist)
  <2> DEFINE h == Navigate(hist, m.arg.to, m.arg.replace)
  <2>1. IsHistory(h)
    BY <1>3, <1>4, NavigatedIsHistory DEF CoreInv, Going
  <2>2. RelativeLocation(h) \in Paths
    BY <2>1, RelativeIsPath
  <2>3. /\ Waiting("host")
        /\ toApp' = Append(Asked(toApp, "host", "router.locationChanged",
                                 RelativeLocation(h)), Response(m.id))
    BY <1>4 DEF HostNavigates
  <2> QED
    BY <1>1, <1>2, <1>4, <2>2, <2>3 DEF AppMethods, m
<1>5. CASE /\ m.method = "router.navigate" /\ HostNavigates(m) /\ UNCHANGED serving
           /\ ~OwnsCurrentRoute(hist)
  BY <1>1, <1>2, <1>5 DEF HostNavigates, AppMethods, m
<1>6. CASE \/ /\ m.kind = "response" /\ Settled("host", m.id)
              /\ UNCHANGED <<toApp, nextId, serving>>
           \/ /\ m.method \in {"router.back", "unknown"} /\ toApp' = Append(toApp, Response(m.id))
              /\ UNCHANGED <<pending, nextId, serving>>
           \/ /\ m.method = "api.request" /\ serving' = serving \cup {m.id}
              /\ UNCHANGED <<toApp, pending, nextId>>
  BY <1>1, <1>2, <1>6, Zenon DEF AppMethods, m
<1> QED
  BY <1>4, <1>5, <1>6, Zenon DEF HostHandles, m

LEMMA AnswerHost ==
  ASSUME CoreInv, AnswerInv, HostHandles
  PROVE  AnswerInv'
<1> DEFINE m == Head(toHost)
<1>1. /\ toHost # <<>> /\ toHost' = Tail(toHost) /\ toHost \in Seq(AppSays) /\ m \in AppSays
      /\ \/ /\ m.kind = "response" /\ Settled("host", m.id)
            /\ UNCHANGED <<toApp, nextId, serving>>
         \/ /\ m.kind = "request" /\ serving' = serving \cup {m.id}
            /\ UNCHANGED <<toApp, pending, nextId>>
         \/ /\ m.kind = "request" /\ toApp' = Append(toApp, Response(m.id))
            /\ UNCHANGED <<pending, nextId, serving>>
         \/ /\ m.kind = "request" /\ UNCHANGED serving /\ Waiting("host")
            /\ \E p \in Paths :
                 toApp' = Append(Asked(toApp, "host", "router.locationChanged", p), Response(m.id))
  BY HostHandlesOne
<1>2. \A id \in Nat :
        /\ m.id \in Nat
        /\ CountIn(toHost', Of("request", id)) \in Nat
        /\ CountIn(toHost', Of("response", id)) \in Nat
        /\ m.kind = "request" =>
             /\ CountIn(toHost, Of("request", id)) = CountIn(toHost', Of("request", id))
                  + (IF id = m.id THEN 1 ELSE 0)
             /\ CountIn(toHost, Of("response", id)) = CountIn(toHost', Of("response", id))
        /\ m.kind = "response" =>
             /\ CountIn(toHost, Of("response", id)) = CountIn(toHost', Of("response", id))
                  + (IF id = m.id THEN 1 ELSE 0)
             /\ CountIn(toHost, Of("request", id)) = CountIn(toHost', Of("request", id))
  BY <1>1, TakenCounts
<1> HIDE DEF m
<1>3. \A S : CountIn(toApp, S) \in Nat /\ CountIn(toHost, S) \in Nat
  BY CountsAreNat DEF CoreInv
<1>4. /\ nextId \in [Ends -> Nat] /\ pending \in [Ends -> SUBSET Nat]
      /\ "host" \in Ends /\ "app" \in Ends
      /\ \A end \in Ends : \A id \in pending[end] : id < nextId[end]
  BY DEF CoreInv, ChannelInv, AnswerInv, Ends
<1>5. m.id \in Nat
  BY <1>2
<1>6. toApp \in Seq(HostSays) /\ Response(m.id) \in HostSays
  BY <1>5 DEF CoreInv, ChannelInv, HostSays
<1>7. \A id \in Nat : Balanced(id)
  BY DEF AnswerInv
<1>8. CASE m.kind = "response" /\ Settled("host", m.id) /\ UNCHANGED <<toApp, nextId, serving>>
  <2>1. /\ pending'["app"] = pending["app"] /\ pending'["host"] = pending["host"] \ {m.id}
        /\ pending' \in [Ends -> SUBSET Nat]
    BY <1>4, <1>8 DEF Settled
  <2>2. ASSUME NEW id \in Nat PROVE Balanced(id)'
    <3>1. /\ CountIn(toHost, Of("request", id)) \in Nat /\ CountIn(toApp, Of("request", id)) \in Nat
          /\ CountIn(toHost, Of("response", id)) \in Nat /\ CountIn(toApp, Of("response", id)) \in Nat
      BY <1>3
    <3>2. /\ CountIn(toHost', Of("request", id)) \in Nat /\ CountIn(toHost', Of("response", id)) \in Nat
          /\ CountIn(toHost, Of("response", id)) = CountIn(toHost', Of("response", id))
               + (IF id = m.id THEN 1 ELSE 0)
          /\ CountIn(toHost, Of("request", id)) = CountIn(toHost', Of("request", id))
      BY <1>2, <1>8
    <3>3. Balanced(id)
      BY <1>7
    <3> QED
      BY <1>8, <2>1, <3>1, <3>2, <3>3 DEF Balanced
  <2> QED
    BY <1>4, <1>8, <2>1, <2>2 DEF AnswerInv, Ends
<1>9. CASE m.kind = "request" /\ serving' = serving \cup {m.id} /\ UNCHANGED <<toApp, pending, nextId>>
  <2>1. ASSUME NEW id \in Nat PROVE Balanced(id)'
    <3>1. /\ CountIn(toHost, Of("request", id)) \in Nat /\ CountIn(toApp, Of("request", id)) \in Nat
          /\ CountIn(toHost, Of("response", id)) \in Nat /\ CountIn(toApp, Of("response", id)) \in Nat
      BY <1>3
    <3>2. /\ CountIn(toHost', Of("request", id)) \in Nat /\ CountIn(toHost', Of("response", id)) \in Nat
          /\ CountIn(toHost, Of("request", id)) = CountIn(toHost', Of("request", id))
               + (IF id = m.id THEN 1 ELSE 0)
          /\ CountIn(toHost, Of("response", id)) = CountIn(toHost', Of("response", id))
      BY <1>2, <1>9
    <3>3. Balanced(id)
      BY <1>7
    <3> QED
      BY <1>9, <3>1, <3>2, <3>3 DEF Balanced
  <2> QED
    BY <1>4, <1>9, <2>1 DEF AnswerInv
<1>10. CASE /\ m.kind = "request" /\ toApp' = Append(toApp, Response(m.id))
            /\ UNCHANGED <<pending, nextId, serving>>
  <2>1. ASSUME NEW id \in Nat PROVE Balanced(id)'
    <3>1. /\ CountIn(toHost, Of("request", id)) \in Nat /\ CountIn(toApp, Of("request", id)) \in Nat
          /\ CountIn(toHost, Of("response", id)) \in Nat /\ CountIn(toApp, Of("response", id)) \in Nat
      BY <1>3
    <3>2. /\ CountIn(toHost', Of("request", id)) \in Nat /\ CountIn(toHost', Of("response", id)) \in Nat
          /\ CountIn(toHost, Of("request", id)) = CountIn(toHost', Of("request", id))
               + (IF id = m.id THEN 1 ELSE 0)
          /\ CountIn(toHost, Of("response", id)) = CountIn(toHost', Of("response", id))
      BY <1>2, <1>10
    <3>3. Balanced(id)
      BY <1>7
    <3>4. /\ Response(m.id) \in Of("response", id) <=> id = m.id
          /\ Response(m.id) \notin Of("request", id)
      BY <1>5, KindsOf
    <3>5. \A S : CountIn(toApp', S) = CountIn(toApp, S) + (IF Response(m.id) \in S THEN 1 ELSE 0)
      BY <1>6, <1>10, CountAppend
    <3>6. /\ CountIn(toApp', Of("response", id)) =
               CountIn(toApp, Of("response", id)) + (IF id = m.id THEN 1 ELSE 0)
          /\ CountIn(toApp', Of("request", id)) = CountIn(toApp, Of("request", id))
      BY <3>1, <3>4, <3>5
    <3> QED
      BY <1>10, <3>1, <3>2, <3>3, <3>6 DEF Balanced
  <2> QED
    BY <1>4, <1>10, <2>1 DEF AnswerInv
<1>11. CASE /\ m.kind = "request" /\ UNCHANGED serving /\ Waiting("host")
            /\ \E p \in Paths :
                 toApp' = Append(Asked(toApp, "host", "router.locationChanged", p), Response(m.id))
  <2>1. PICK p \in Paths :
          toApp' = Append(Asked(toApp, "host", "router.locationChanged", p), Response(m.id))
    BY <1>11
  <2> DEFINE push == Request(nextId["host"], "router.locationChanged", p)
             q == Append(toApp, push)
  <2>2. push \in HostSays
    BY <1>4 DEF HostSays
  <2>3. q \in Seq(HostSays) /\ toApp' = Append(q, Response(m.id))
    BY <1>6, <2>1, <2>2 DEF Asked
  <2>4. /\ pending'["app"] = pending["app"]
        /\ pending'["host"] = pending["host"] \cup {nextId["host"]}
        /\ pending' \in [Ends -> SUBSET Nat]
        /\ \A end \in Ends : \A id \in pending'[end] : id < nextId'[end]
    BY <1>4, <1>11 DEF Waiting
  <2>5. nextId["host"] \notin pending["host"]
    BY <1>4
  <2>6. ASSUME NEW id \in Nat PROVE Balanced(id)'
    <3>1. /\ push \in Of("request", id) <=> id = nextId["host"]
          /\ push \notin Of("response", id)
      BY <1>4, <2>2, KindsOf
    <3>2. /\ CountIn(q, Of("request", id)) =
               CountIn(toApp, Of("request", id)) + (IF id = nextId["host"] THEN 1 ELSE 0)
          /\ CountIn(q, Of("response", id)) = CountIn(toApp, Of("response", id))
      <4> HIDE DEF push
      <4> QED
        BY <1>3, <1>6, <2>2, <3>1, CountAppend
    <3>3. \A S : CountIn(q, S) \in Nat
      BY <2>3, PlacesFinite
    <3> HIDE DEF q
    <3>4. /\ CountIn(toApp', Of("response", id)) =
               CountIn(q, Of("response", id)) + (IF id = m.id THEN 1 ELSE 0)
          /\ CountIn(toApp', Of("request", id)) = CountIn(q, Of("request", id))
      BY <1>5, <1>6, <2>3, <3>3, CountAppend, KindsOf
    <3>5. CountIn(toApp, Of("request", id)) + CountIn(toHost, Of("response", id))
            = (IF id \in pending["host"] THEN 1 ELSE 0)
      BY <1>7 DEF Balanced
    <3>6. /\ CountIn(toHost, Of("request", id)) \in Nat /\ CountIn(toApp, Of("request", id)) \in Nat
          /\ CountIn(toHost, Of("response", id)) \in Nat /\ CountIn(toApp, Of("response", id)) \in Nat
      BY <1>3
    <3>7. /\ CountIn(toHost', Of("request", id)) \in Nat /\ CountIn(toHost', Of("response", id)) \in Nat
           /\ CountIn(toHost, Of("request", id)) = CountIn(toHost', Of("request", id))
                + (IF id = m.id THEN 1 ELSE 0)
           /\ CountIn(toHost, Of("response", id)) = CountIn(toHost', Of("response", id))
      BY <1>2, <1>11
    <3>8. CountIn(toApp', Of("request", id)) + CountIn(toHost', Of("response", id))
            = (IF id \in pending'["host"] THEN 1 ELSE 0)
      BY <2>4, <2>5, <3>2, <3>4, <3>5, <3>6, <3>7
    <3>9. CountIn(toHost, Of("request", id)) + CountIn(toApp, Of("response", id))
            + (IF id \in serving THEN 1 ELSE 0) = (IF id \in pending["app"] THEN 1 ELSE 0)
      BY <1>7 DEF Balanced
    <3>10. CountIn(toHost', Of("request", id)) + CountIn(toApp', Of("response", id))
            + (IF id \in serving' THEN 1 ELSE 0) = (IF id \in pending'["app"] THEN 1 ELSE 0)
      BY <1>11, <2>4, <3>2, <3>4, <3>9, <3>6, <3>7
    <3> QED
      BY <3>8, <3>10 DEF Balanced
  <2> QED
    BY <2>4, <2>6 DEF AnswerInv
<1> QED
  BY <1>1, <1>8, <1>9, <1>10, <1>11

\* A handler's promise settles: what was served is answered.
LEMMA AnswerSettles ==
  ASSUME CoreInv, AnswerInv, HostSettles
  PROVE  AnswerInv'
<1>1. PICK n \in serving : serving' = serving \ {n} /\ toApp' = Append(toApp, Response(n))
  BY DEF HostSettles, HostAnswers
<1>2. UNCHANGED <<toHost, pending, nextId>>
  BY DEF HostSettles
<1>3. n \in Nat /\ toApp \in Seq(HostSays) /\ Response(n) \in HostSays
  BY DEF CoreInv, ChannelInv, HostSays
<1>4. ASSUME NEW id \in Nat PROVE Balanced(id)'
  <2>1. /\ CountIn(toHost, Of("request", id)) \in Nat /\ CountIn(toApp, Of("request", id)) \in Nat
        /\ CountIn(toHost, Of("response", id)) \in Nat /\ CountIn(toApp, Of("response", id)) \in Nat
    BY CountsAreNat DEF CoreInv
  <2>2. /\ CountIn(toApp', Of("response", id)) =
             CountIn(toApp, Of("response", id)) + (IF id = n THEN 1 ELSE 0)
        /\ CountIn(toApp', Of("request", id)) = CountIn(toApp, Of("request", id))
    BY <1>1, <1>3, <2>1, CountAppend, KindsOf
  <2>3. Balanced(id)
    BY DEF AnswerInv
  <2> QED
    BY <1>1, <1>2, <2>1, <2>2, <2>3 DEF Balanced
<1> QED
  BY <1>2, <1>4 DEF AnswerInv

\* The frame reads its end: it settles, or answers.
LEMMA AnswerFrame ==
  ASSUME CoreInv, AnswerInv, AppHandles
  PROVE  AnswerInv'
<1> DEFINE m == Head(toApp)
<1>1. toApp # <<>> /\ toApp' = Tail(toApp) /\ toApp \in Seq(HostSays) /\ m \in HostSays
  BY DEF AppHandles, CoreInv, ChannelInv
<1>2. \A id \in Nat :
        /\ m.id \in Nat
        /\ CountIn(toApp', Of("request", id)) \in Nat
        /\ CountIn(toApp', Of("response", id)) \in Nat
        /\ m.kind = "request" =>
             /\ CountIn(toApp, Of("request", id)) = CountIn(toApp', Of("request", id))
                  + (IF id = m.id THEN 1 ELSE 0)
             /\ CountIn(toApp, Of("response", id)) = CountIn(toApp', Of("response", id))
        /\ m.kind = "response" =>
             /\ CountIn(toApp, Of("response", id)) = CountIn(toApp', Of("response", id))
                  + (IF id = m.id THEN 1 ELSE 0)
             /\ CountIn(toApp, Of("request", id)) = CountIn(toApp', Of("request", id))
  BY <1>1, TakenCounts
<1> HIDE DEF m
<1>3. \A S : CountIn(toApp, S) \in Nat /\ CountIn(toHost, S) \in Nat
  BY CountsAreNat DEF CoreInv
<1>4. /\ nextId \in [Ends -> Nat] /\ pending \in [Ends -> SUBSET Nat]
      /\ "host" \in Ends /\ "app" \in Ends
      /\ \A end \in Ends : \A id \in pending[end] : id < nextId[end]
  BY DEF CoreInv, ChannelInv, AnswerInv, Ends
<1>5. m.id \in Nat
  BY <1>2
<1>6. toHost \in Seq(AppSays) /\ Response(m.id) \in AppSays
  BY <1>5 DEF CoreInv, ChannelInv, AppSays
<1>7. \A id \in Nat : Balanced(id)
  BY DEF AnswerInv
<1>8. m.method \in HostMethods => m.kind = "request"
  BY <1>1, KindsOf, EmbeddedAssumption
<1>9. CASE m.kind = "response" /\ Settled("app", m.id) /\ UNCHANGED <<toHost, nextId, serving>>
  <2>1. /\ pending'["host"] = pending["host"] /\ pending'["app"] = pending["app"] \ {m.id}
        /\ pending' \in [Ends -> SUBSET Nat]
    BY <1>4, <1>9 DEF Settled
  <2>2. ASSUME NEW id \in Nat PROVE Balanced(id)'
    <3>1. /\ CountIn(toHost, Of("request", id)) \in Nat /\ CountIn(toApp, Of("request", id)) \in Nat
          /\ CountIn(toHost, Of("response", id)) \in Nat /\ CountIn(toApp, Of("response", id)) \in Nat
      BY <1>3
    <3>2. /\ CountIn(toApp', Of("request", id)) \in Nat /\ CountIn(toApp', Of("response", id)) \in Nat
          /\ CountIn(toApp, Of("response", id)) = CountIn(toApp', Of("response", id))
               + (IF id = m.id THEN 1 ELSE 0)
          /\ CountIn(toApp, Of("request", id)) = CountIn(toApp', Of("request", id))
      BY <1>2, <1>9
    <3>3. Balanced(id)
      BY <1>7
    <3> QED
      BY <1>9, <2>1, <3>1, <3>2, <3>3 DEF Balanced
  <2> QED
    BY <1>4, <1>9, <2>1, <2>2 DEF AnswerInv, Ends
<1>10. CASE /\ m.kind = "request" /\ toHost' = Append(toHost, Response(m.id))
            /\ UNCHANGED <<pending, nextId, serving>>
  <2>1. ASSUME NEW id \in Nat PROVE Balanced(id)'
    <3>1. /\ CountIn(toHost, Of("request", id)) \in Nat /\ CountIn(toApp, Of("request", id)) \in Nat
          /\ CountIn(toHost, Of("response", id)) \in Nat /\ CountIn(toApp, Of("response", id)) \in Nat
      BY <1>3
    <3>2. /\ CountIn(toApp', Of("request", id)) \in Nat /\ CountIn(toApp', Of("response", id)) \in Nat
          /\ CountIn(toApp, Of("request", id)) = CountIn(toApp', Of("request", id))
               + (IF id = m.id THEN 1 ELSE 0)
          /\ CountIn(toApp, Of("response", id)) = CountIn(toApp', Of("response", id))
      BY <1>2, <1>10
    <3>3. Balanced(id)
      BY <1>7
    <3>4. /\ Response(m.id) \in Of("response", id) <=> id = m.id
          /\ Response(m.id) \notin Of("request", id)
      BY <1>5, KindsOf
    <3>5. \A S : CountIn(toHost', S) = CountIn(toHost, S) + (IF Response(m.id) \in S THEN 1 ELSE 0)
      BY <1>6, <1>10, CountAppend
    <3>6. /\ CountIn(toHost', Of("response", id)) =
               CountIn(toHost, Of("response", id)) + (IF id = m.id THEN 1 ELSE 0)
          /\ CountIn(toHost', Of("request", id)) = CountIn(toHost, Of("request", id))
      BY <3>1, <3>4, <3>5
    <3> QED
      BY <1>10, <3>1, <3>2, <3>3, <3>6 DEF Balanced
  <2> QED
    BY <1>4, <1>10, <2>1 DEF AnswerInv
<1>11. \/ m.kind = "response" /\ Settled("app", m.id) /\ UNCHANGED <<toHost, nextId, serving>>
       \/ /\ m.kind = "request" /\ toHost' = Append(toHost, Response(m.id))
          /\ UNCHANGED <<pending, nextId, serving>>
  BY <1>8 DEF AppHandles, HostMethods, m
<1> QED
  BY <1>9, <1>10, <1>11

LEMMA AnswerStep == CoreInv /\ AnswerInv /\ [Next]_vars => AnswerInv'
<1> SUFFICES ASSUME CoreInv, AnswerInv, [Next]_vars PROVE AnswerInv'
  OBVIOUS
<1>1. CASE \/ UNCHANGED vars \/ EmbedStarts \/ HostReadsReady
           \/ HostTimesOut \/ EmbedReadsAck \/ EmbedTimesOut
  BY <1>1, AnswerAlone DEF vars, EmbedStarts, HostReadsReady, HostTimesOut, EmbedReadsAck,
       EmbedTimesOut
<1>2. CASE Mount \/ Unmount
  BY <1>2, NoneBalances DEF Mount, Unmount
<1>3. CASE \E a \in Address : PersonOpens(a)
  <2>1. PICK a \in Address : PersonOpens(a)
    BY <1>3
  <2>2. IsHistory(AfterPush(hist, a))
    BY WrittenIsHistory DEF CoreInv
  <2> QED
    BY <2>1, <2>2, AnswerPushes DEF PersonOpens
<1>4. CASE \E d \in {-1, 1} : PersonTraverses(d)
  <2>1. PICK d \in {-1, 1} : PersonTraverses(d)
    BY <1>4
  <2>2. IsHistory(AfterGo(hist, d))
    BY <2>1, TraversedIsHistory DEF CoreInv, PersonTraverses
  <2> QED
    BY <2>1, <2>2, AnswerPushes DEF PersonTraverses
<1>5. CASE Traversed
  <2>1. CASE CanGo(hist, -1)
    <3>1. IsHistory(AfterGo(hist, -1))
      BY <2>1, TraversedIsHistory DEF CoreInv
    <3> QED
      BY <1>5, <2>1, <3>1, AnswerPushes DEF Traversed
  <2>2. CASE ~CanGo(hist, -1)
    BY <1>5, <2>2, AnswerAlone DEF Traversed
  <2> QED
    BY <2>1, <2>2
<1>6. CASE \E r \in Rights : AccessChanges(r)
  BY <1>6, AnswerPushes
<1>7. CASE \E to \in Paths, replace \in BOOLEAN : AppNavigates(to, replace)
  <2>1. PICK to \in Paths, replace \in BOOLEAN : AppNavigates(to, replace)
    BY <1>7
  <2>2. CASE InFrame
    <3>1. [to |-> to, replace |-> replace] \in Going
      BY DEF Going
    <3>2. FrameAsks("router.navigate", [to |-> to, replace |-> replace])
      BY <2>1, <2>2 DEF AppNavigates, FrameNavigates
    <3> QED
      BY <3>1, <3>2, AnswerAsks
  <2>3. CASE ~InFrame
    BY <2>1, <2>3, AnswerAlone DEF AppNavigates, FederatedNavigates
  <2> QED
    BY <2>2, <2>3
<1>8. CASE \E method \in {"api.request", "unknown"} : AppRequests(method)
  BY <1>8, AnswerAsks DEF AppRequests, AppMethods
<1>9. CASE AppGoesBack
  <2>1. CASE InFrame
    BY <1>9, <2>1, AnswerAsks DEF AppGoesBack, AppMethods
  <2>2. CASE ~InFrame
    BY <1>9, <2>2, AnswerAlone DEF AppGoesBack
  <2> QED
    BY <2>1, <2>2
<1>10. CASE HostHandles \/ HostSettles \/ AppHandles
  BY <1>10, AnswerHost, AnswerSettles, AnswerFrame
<1> QED
  BY <1>1, <1>2, <1>3, <1>4, <1>5, <1>6, <1>7, <1>8, <1>9, <1>10 DEF Next

LEMMA AnswerInit == Init => AnswerInv
<1> SUFFICES ASSUME Init PROVE AnswerInv
  OBVIOUS
<1>1. toApp = <<>> /\ toHost = <<>> /\ serving = {} /\ pending = [e \in Ends |-> {}]
  BY DEF Init
<1>2. \A S : CountIn(<<>>, S) = 0
  <2>1. <<>> \in Seq({})
    OBVIOUS
  <2> QED
    BY <2>1, CountsNone
<1>3. \A id \in Nat : Balanced(id)
  BY <1>1, <1>2 DEF Balanced, Ends
<1> QED
  BY <1>1, <1>3 DEF AnswerInv

\* The places where a queue carries a message are those that count it.
LEMMA CarriesCounts ==
  ASSUME ChannelInv, NEW kind, NEW id \in Nat
  PROVE  /\ Carries(toHost, kind, id) = CountIn(toHost, Of(kind, id))
         /\ Carries(toApp, kind, id) = CountIn(toApp, Of(kind, id))
<1>1. /\ \A i \in DOMAIN toHost : toHost[i] \in AppSays
      /\ \A i \in DOMAIN toApp : toApp[i] \in HostSays
  BY DEF ChannelInv
<1>2. { i \in DOMAIN toHost : toHost[i].kind = kind /\ toHost[i].id = id }
        = { i \in DOMAIN toHost : toHost[i] \in Of(kind, id) }
  BY <1>1 DEF Of
<1>3. { i \in DOMAIN toApp : toApp[i].kind = kind /\ toApp[i].id = id }
        = { i \in DOMAIN toApp : toApp[i] \in Of(kind, id) }
  BY <1>1 DEF Of
<1> QED
  BY <1>2, <1>3 DEF Carries, CountIn

(***************************************************************************)
(* Whoever waits for an answer has it coming, in one place only, and an    *)
(* answer under way is awaited: however many requests of both ends are     *)
(* under way at a time, and whatever order the shell settles them in       *)
(* (createMessagePortChannel.ts:37-109).                                   *)
(***************************************************************************)
THEOREM AnswersBalance == Spec => []EachHasItsAnswer
<1>1. CoreInv /\ AnswerInv => EachHasItsAnswer
  <2> SUFFICES ASSUME CoreInv, AnswerInv PROVE EachHasItsAnswer
    OBVIOUS
  <2>1. Ids \subseteq Nat
    BY EmbeddedAssumption DEF Ids
  <2> QED
    BY <2>1, CarriesCounts DEF CoreInv, AnswerInv, Balanced, EachHasItsAnswer
<1> QED
  BY <1>1, AnswerInit, AnswerStep, CoreCorrect, PTL DEF Spec

-----------------------------------------------------------------------------
(* What the frame believes.                                                *)

(***************************************************************************)
(* Messages are under way on an open port only, those of the frame only    *)
(* from one that is connected; a federated app has neither frame nor port. *)
(***************************************************************************)
WiringInv ==
  /\ InFrame =>
       /\ frame = "connected" => ack = None
       /\ mount # "mounted" => toApp = <<>> /\ toHost = <<>> /\ serving = {}
       /\ frame # "connected" => toHost = <<>>
  /\ ~InFrame =>
       /\ frame = "none" /\ ack = None /\ ready = {} /\ mount \in {"off", "mounted"}
       /\ toApp = <<>> /\ toHost = <<>> /\ serving = {}

LEMMA WiringInit == Init => WiringInv
BY DEF Init, WiringInv

LEMMA WiringStep == HandshakeInv /\ WiringInv /\ [Next]_vars => WiringInv'
<1> SUFFICES ASSUME HandshakeInv, WiringInv, [Next]_vars PROVE WiringInv'
  OBVIOUS
<1>1. CASE UNCHANGED vars
  BY <1>1 DEF vars, handshake, channel, WiringInv, InFrame
<1>2. CASE \/ \E a \in Address : PersonOpens(a)
           \/ \E d \in {-1, 1} : PersonTraverses(d)
           \/ \E r \in Rights : AccessChanges(r)
           \/ Traversed
  <2>1. /\ UNCHANGED <<app, handshake, toHost, serving>>
        /\ ~Bridged => toApp' = toApp
    BY <1>2 DEF PersonOpens, PersonTraverses, AccessChanges, Traversed, HistoryBecomes, channel
  <2> QED
    BY <2>1 DEF WiringInv, handshake, InFrame, Bridged
<1>3. CASE \/ \E to \in Paths, replace \in BOOLEAN : AppNavigates(to, replace)
           \/ \E method \in {"api.request", "unknown"} : AppRequests(method)
           \/ AppGoesBack
  <2>1. /\ UNCHANGED <<app, handshake, toApp, serving>> /\ Alive
        /\ ~InFrame => toHost' = toHost
    BY <1>3 DEF AppNavigates, AppRequests, AppGoesBack, FrameNavigates, FederatedNavigates,
         FrameAsks, channel
  <2> QED
    BY <2>1 DEF WiringInv, HandshakeInv, handshake, InFrame, Alive
<1>4. CASE Mount
  BY <1>4 DEF Mount, NoChannel, WiringInv, HandshakeInv, InFrame
<1>5. CASE Unmount
  BY <1>5 DEF Unmount, NoChannel, WiringInv, InFrame
<1>6. CASE EmbedStarts \/ HostTimesOut \/ EmbedReadsAck \/ EmbedTimesOut
  BY <1>6 DEF EmbedStarts, HostTimesOut, EmbedReadsAck, EmbedTimesOut, channel,
       WiringInv, HandshakeInv, InFrame
<1>7. CASE HostReadsReady
  <2>1. PICK r \in ready : ready' = ready \ {r} /\ HostHears(r)
    BY <1>7 DEF HostReadsReady
  <2>2. UNCHANGED <<app, toApp, toHost, serving>> /\ InFrame
    BY <1>7, <2>1 DEF HostReadsReady, channel, WiringInv
  <2> QED
    BY <2>1, <2>2 DEF HostHears, WiringInv, HandshakeInv, InFrame
<1>8. CASE HostHandles
  <2>1. /\ UNCHANGED <<app, handshake>> /\ InFrame /\ mount = "mounted"
        /\ toHost # <<>>
    BY <1>8 DEF HostHandles, Bridged
  <2> QED
    BY <2>1 DEF WiringInv, handshake, InFrame
<1>9. CASE HostSettles
  <2>1. UNCHANGED <<app, handshake, toHost>> /\ serving # {}
    BY <1>9 DEF HostSettles
  <2> QED
    BY <2>1 DEF WiringInv, handshake, InFrame
<1>10. CASE AppHandles
  <2>1. UNCHANGED <<app, handshake, serving>> /\ frame = "connected"
    BY <1>10 DEF AppHandles
  <2> QED
    BY <2>1 DEF WiringInv, HandshakeInv, handshake, InFrame
<1> QED
  BY <1>1, <1>2, <1>3, <1>4, <1>5, <1>6, <1>7, <1>8, <1>9, <1>10 DEF Next

\* The access an end knows, with the shell's messages in q still to come, is r.
KnowsAccess(known, q, r) ==
  /\ LastSays(q, "access.changed", r)
  /\ Silent(q, "access.changed") => known.access = r

(***************************************************************************)
(* The same of the place in the history, unless that is not the app's, or  *)
(* a navigation is still to be told about.                                 *)
(***************************************************************************)
KnowsPlace(known, q, asked, h) ==
  /\ LastSays(q, "router.locationChanged", RelativeLocation(h))
  /\ Silent(q, "router.locationChanged") =>
       \/ known.location = RelativeLocation(h)
       \/ ~OwnsCurrentRoute(h)
       \/ ~Silent(asked, "router.navigate")

Knows(known, q, asked, h, r) == KnowsAccess(known, q, r) /\ KnowsPlace(known, q, asked, h)

BeliefInv ==
  InFrame =>
    /\ ack # None => Knows(ack, toApp, toHost, hist, access)
    /\ frame = "connected" => Knows(proxy, toApp, toHost, hist, access)

\* Another message of the shell's: a push of the place, or of access, or an answer.
LEMMA KnowsPushed ==
  ASSUME NEW known, NEW q \in Seq(HostSays), NEW m \in HostSays,
         NEW asked, NEW h, NEW r, NEW asked0, NEW h0, NEW r0,
         Knows(known, q, asked0, h0, r0),
         \/ m.method = "router.locationChanged" /\ m.arg = RelativeLocation(h) /\ r = r0
         \/ m.method = "access.changed" /\ m.arg = r /\ h = h0 /\ asked = asked0
         \/ m.method = None /\ h = h0 /\ r = r0 /\ asked = asked0
  PROVE  Knows(known, Append(q, m), asked, h, r)
<1>1. None \notin HostMethods
  BY EmbeddedAssumption
<1>2. CASE m.method = "router.locationChanged" /\ m.arg = RelativeLocation(h) /\ r = r0
  BY <1>2, LastAppended DEF Knows, KnowsAccess, KnowsPlace
<1>3. CASE m.method = "access.changed" /\ m.arg = r /\ h = h0 /\ asked = asked0
  BY <1>3, LastAppended DEF Knows, KnowsAccess, KnowsPlace
<1>4. CASE m.method = None /\ h = h0 /\ r = r0 /\ asked = asked0
  BY <1>1, <1>4, LastAppended DEF Knows, KnowsAccess, KnowsPlace, HostMethods
<1> QED
  BY <1>2, <1>3, <1>4

\* Another message of the app's: after a navigation its own place is its own guess.
LEMMA KnowsAsked ==
  ASSUME NEW known, NEW q, NEW asked \in Seq(AppSays), NEW m \in AppSays, NEW h, NEW r,
         Knows(known, q, asked, h, r),
         NEW guess, \/ guess = known
                    \/ m.method = "router.navigate" /\ guess.access = known.access
  PROVE  Knows(guess, q, Append(asked, m), h, r)
<1>1. /\ Silent(Append(asked, m), "router.navigate") =>
           Silent(asked, "router.navigate") /\ m.method # "router.navigate"
  BY LastAppended
<1> QED
  BY <1>1 DEF Knows, KnowsAccess, KnowsPlace

\* The shell takes a message that is no navigation, or one it refuses.
LEMMA KnowsHeard ==
  ASSUME NEW known, NEW q, NEW asked \in Seq(AppSays), asked # <<>>, NEW h, NEW r,
         Knows(known, q, asked, h, r),
         Head(asked).method # "router.navigate" \/ ~OwnsCurrentRoute(h)
  PROVE  Knows(known, q, Tail(asked), h, r)
<1>1. CASE ~OwnsCurrentRoute(h)
  BY <1>1 DEF Knows, KnowsPlace
<1>2. CASE Head(asked).method # "router.navigate"
  <2>1. Silent(Tail(asked), "router.navigate") => Silent(asked, "router.navigate")
    <3> SUFFICES ASSUME Silent(Tail(asked), "router.navigate"), NEW i \in 1 .. Len(asked)
                 PROVE  asked[i].method # "router.navigate"
      BY DEF Silent
    <3>1. CASE i = 1
      BY <1>2, <3>1
    <3>2. CASE i # 1
      <4>1. i - 1 \in 1 .. Len(Tail(asked)) /\ Tail(asked)[i - 1] = asked[i]
        BY <3>2
      <4> QED
        BY <4>1 DEF Silent
    <3> QED
      BY <3>1, <3>2
  <2> QED
    BY <2>1 DEF Knows, KnowsPlace
<1> QED
  BY <1>1, <1>2

\* The frame takes a message and believes it.
LEMMA KnowsTold ==
  ASSUME NEW known \in Snapshot, NEW q \in Seq(HostSays), q # <<>>, NEW asked, NEW h, NEW r,
         Knows(known, q, asked, h, r),
         NEW told,
         \/ /\ Head(q).method = "router.locationChanged"
            /\ told = [known EXCEPT !.location = Head(q).arg]
         \/ /\ Head(q).method = "access.changed"
            /\ told = [known EXCEPT !.access = Head(q).arg]
         \/ Head(q).method = None /\ told = known
  PROVE  Knows(told, Tail(q), asked, h, r)
<1> DEFINE m == Head(q)
<1>1. None \notin HostMethods
  BY EmbeddedAssumption
<1>2. /\ LastSays(Tail(q), "access.changed", r)
      /\ Silent(Tail(q), "access.changed") =>
           \/ m.method = "access.changed" /\ m.arg = r
           \/ m.method # "access.changed" /\ Silent(q, "access.changed")
  BY LastTaken DEF Knows, KnowsAccess
<1>3. /\ LastSays(Tail(q), "router.locationChanged", RelativeLocation(h))
      /\ Silent(Tail(q), "router.locationChanged") =>
           \/ m.method = "router.locationChanged" /\ m.arg = RelativeLocation(h)
           \/ m.method # "router.locationChanged" /\ Silent(q, "router.locationChanged")
  BY LastTaken DEF Knows, KnowsPlace
<1> HIDE DEF m
<1>4. CASE m.method = "router.locationChanged" /\ told = [known EXCEPT !.location = m.arg]
  <2>1. told.location = m.arg /\ told.access = known.access
    BY <1>4 DEF Snapshot
  <2> QED
    BY <1>2, <1>3, <1>4, <2>1 DEF Knows, KnowsAccess, KnowsPlace
<1>5. CASE m.method = "access.changed" /\ told = [known EXCEPT !.access = m.arg]
  <2>1. told.access = m.arg /\ told.location = known.location
    BY <1>5 DEF Snapshot
  <2> QED
    BY <1>2, <1>3, <1>5, <2>1 DEF Knows, KnowsAccess, KnowsPlace
<1>6. CASE m.method = None /\ told = known
  BY <1>1, <1>2, <1>3, <1>6 DEF Knows, KnowsAccess, KnowsPlace, HostMethods
<1> QED
  BY <1>4, <1>5, <1>6 DEF m

-----------------------------------------------------------------------------
(* The frame's copies.                                                     *)

RouterState == [suppress : BOOLEAN, shown : Paths, current : Paths]

CopiesInv ==
  /\ proxy \in Snapshot /\ ack \in Snapshot \cup {None}
  /\ router \in RouterState

\* What the shell's messages carry.
LEMMA HostSaysWhat ==
  \A m \in HostSays :
    /\ m.method \in HostMethods \cup {None}
    /\ m.method = "router.locationChanged" => m.arg \in Paths
    /\ m.method = "access.changed" => m.arg \in Rights
    /\ m.kind = "request" <=> m.method \in HostMethods
<1>1. None \notin HostMethods
  BY EmbeddedAssumption
<1> QED
  BY <1>1 DEF HostSays, Request, Response, HostMethods

\* Every adapter keeps the kind of state it has.
LEMMA RoutersAre ==
  ASSUME NEW r \in RouterState, NEW p \in Paths
  PROVE  /\ Notified(r, p) \in RouterState
         /\ Expecting(r) \in RouterState
         /\ Pushed(r, p) \in RouterState
         /\ Fresh(p) \in RouterState
BY DEF RouterState, Notified, ReactNotified, VueNotified, Expecting, Pushed, ReactPushed, VuePushed,
       Fresh

\* The history's subscribers keep it so.
LEMMA CopiesBecome ==
  ASSUME CopiesInv, NEW h, IsHistory(h), HistoryBecomes(h), UNCHANGED <<proxy, ack>>
  PROVE  CopiesInv'
BY RelativeIsPath, RoutersAre DEF HistoryBecomes, CopiesInv

LEMMA CopiesInit == Init => CopiesInv
BY HistoryAssumption, EmbeddedAssumption DEF Init, CopiesInv, RouterState, Snapshot, Fresh

LEMMA CopiesStep == CoreInv /\ CopiesInv /\ [Next]_vars => CopiesInv'
<1> SUFFICES ASSUME CoreInv, CopiesInv, [Next]_vars PROVE CopiesInv'
  OBVIOUS
<1>1. CASE \/ UNCHANGED vars \/ Unmount \/ EmbedStarts \/ HostTimesOut \/ EmbedTimesOut
           \/ \E r \in Rights : AccessChanges(r)
           \/ \E method \in {"api.request", "unknown"} : AppRequests(method)
           \/ AppGoesBack \/ HostHandles \/ HostSettles
  <2>1. UNCHANGED <<proxy, router>> /\ ack' \in {ack, None}
    BY <1>1 DEF vars, handshake, Unmount, EmbedStarts, HostTimesOut, EmbedTimesOut,
         AccessChanges, AppRequests, AppGoesBack, HostHandles, HostSettles
  <2> QED
    BY <2>1 DEF CopiesInv
<1>2. CASE \E a \in Address : PersonOpens(a)
  <2>1. PICK a \in Address : PersonOpens(a)
    BY <1>2
  <2>2. IsHistory(AfterPush(hist, a))
    BY WrittenIsHistory DEF CoreInv
  <2> QED
    BY <2>1, <2>2, CopiesBecome DEF PersonOpens, handshake
<1>3. CASE \E d \in {-1, 1} : PersonTraverses(d)
  <2>1. PICK d \in {-1, 1} : PersonTraverses(d)
    BY <1>3
  <2>2. IsHistory(AfterGo(hist, d))
    BY <2>1, TraversedIsHistory DEF CoreInv, PersonTraverses
  <2> QED
    BY <2>1, <2>2, CopiesBecome DEF PersonTraverses, handshake
<1>4. CASE Traversed
  <2>1. UNCHANGED <<proxy, ack>>
    BY <1>4 DEF Traversed, handshake
  <2>2. CASE CanGo(hist, -1)
    <3>1. IsHistory(AfterGo(hist, -1))
      BY <2>2, TraversedIsHistory DEF CoreInv
    <3> QED
      BY <1>4, <2>1, <2>2, <3>1, CopiesBecome DEF Traversed
  <2>3. CASE ~CanGo(hist, -1)
    BY <1>4, <2>1, <2>3 DEF Traversed, CopiesInv
  <2> QED
    BY <2>2, <2>3
<1>5. CASE Mount
  <2>1. UNCHANGED <<proxy, ack>> /\ (router' = router \/ (~InFrame /\ router' = Fresh(SdkLocation)))
    BY <1>5 DEF Mount
  <2>2. ~InFrame => SdkLocation \in Paths
    BY RelativeIsPath DEF SdkLocation, CoreInv
  <2>3. ~InFrame => Fresh(SdkLocation) \in RouterState
    BY <2>2 DEF Fresh, RouterState
  <2> QED
    BY <2>1, <2>3 DEF CopiesInv
<1>6. CASE HostReadsReady
  <2>1. UNCHANGED <<proxy, router>>
    BY <1>6 DEF HostReadsReady
  <2>2. ack' \in {ack, [location |-> RelativeLocation(hist), access |-> access]}
    BY <1>6 DEF HostReadsReady, HostHears
  <2>3. [location |-> RelativeLocation(hist), access |-> access] \in Snapshot
    BY RelativeIsPath DEF CoreInv, Snapshot
  <2> QED
    BY <2>1, <2>2, <2>3 DEF CopiesInv
<1>7. CASE EmbedReadsAck
  <2>1. ack \in Snapshot /\ ack.location \in Paths
    BY <1>7 DEF EmbedReadsAck, CopiesInv, Snapshot
  <2> QED
    BY <1>7, <2>1, RoutersAre DEF EmbedReadsAck, CopiesInv
<1>8. CASE \E to \in Paths, replace \in BOOLEAN : AppNavigates(to, replace)
  <2>1. PICK to \in Paths, replace \in BOOLEAN : AppNavigates(to, replace)
    BY <1>8
  <2>2. ack' = ack
    BY <2>1 DEF AppNavigates, handshake
  <2>3. CASE InFrame
    <3>1. /\ proxy' = [proxy EXCEPT !.location = to]
          /\ router' = Pushed(Expecting(router), to)
      BY <2>1, <2>3 DEF AppNavigates, FrameNavigates
    <3>2. proxy' \in Snapshot
      BY <3>1 DEF CopiesInv, Snapshot
    <3> QED
      BY <2>2, <3>1, <3>2, RoutersAre DEF CopiesInv
  <2>4. CASE ~InFrame
    <3> DEFINE h == Navigate(hist, to, replace)
    <3>1. RelativeLocation(h) \in Paths
      BY NavigatedIsHistory, RelativeIsPath DEF CoreInv
    <3> HIDE DEF h
    <3>2. /\ proxy' = proxy
          /\ router' \in { Pushed(Notified(Expecting(router), to), RelativeLocation(h)),
                           Pushed(Expecting(router), RelativeLocation(h)) }
      BY <2>1, <2>4 DEF AppNavigates, FederatedNavigates, h
    <3>3. Expecting(router) \in RouterState
      BY RoutersAre DEF CopiesInv
    <3>4. Notified(Expecting(router), to) \in RouterState
      BY <3>3, RoutersAre
    <3>5. router' \in RouterState
      BY <3>1, <3>2, <3>3, <3>4, RoutersAre
    <3> QED
      BY <2>2, <3>2, <3>5 DEF CopiesInv
  <2> QED
    BY <2>3, <2>4
<1>9. CASE AppHandles
  <2> DEFINE m == Head(toApp)
  <2>1. m \in HostSays
    BY <1>9 DEF AppHandles, CoreInv, ChannelInv
  <2>2. ack' = ack
    BY <1>9 DEF AppHandles, handshake
  <2> HIDE DEF m
  <2>3. CASE UNCHANGED <<proxy, router>>
    BY <2>2, <2>3 DEF CopiesInv
  <2>4. CASE /\ m.method = "router.locationChanged"
             /\ proxy' = [proxy EXCEPT !.location = m.arg] /\ router' = Notified(router, m.arg)
    <3>1. m.arg \in Paths
      BY <2>1, <2>4, HostSaysWhat
    <3>2. proxy' \in Snapshot
      BY <2>4, <3>1 DEF CopiesInv, Snapshot
    <3> QED
      BY <2>2, <2>4, <3>1, <3>2, RoutersAre DEF CopiesInv
  <2>5. CASE /\ m.method = "access.changed"
             /\ proxy' = [proxy EXCEPT !.access = m.arg] /\ router' = router
    <3>1. m.arg \in Rights
      BY <2>1, <2>5, HostSaysWhat
    <3>2. proxy' \in Snapshot
      BY <2>5, <3>1 DEF CopiesInv, Snapshot
    <3> QED
      BY <2>2, <2>5, <3>2 DEF CopiesInv
  <2> QED
    BY <1>9, <2>3, <2>4, <2>5 DEF AppHandles, m
<1> QED
  BY <1>1, <1>2, <1>3, <1>4, <1>5, <1>6, <1>7, <1>8, <1>9 DEF Next

-----------------------------------------------------------------------------
(* What the frame believes, kept.                                          *)

LEMMA BeliefInit == Init => BeliefInv
BY DEF Init, BeliefInv

\* A step that changes nothing the frame may have a belief about.
LEMMA BeliefAlone ==
  ASSUME BeliefInv, UNCHANGED <<app, hist, access, toApp, toHost>>,
         ack' \in {ack, None} /\ (ack' = None \/ ack' = ack),
         \/ frame' # "connected"
         \/ frame = "connected" /\ proxy' = proxy
         \/ ack # None /\ proxy' = ack
  PROVE  BeliefInv'
BY DEF BeliefInv, InFrame

\* What the shell tells, once it may be heard.
LEMMA BeliefPushes ==
  ASSUME CoreInv, HandshakeInv, BeliefInv, UNCHANGED <<app, handshake, proxy, toHost>>,
         \/ HistoryBecomes(hist') /\ IsHistory(hist') /\ access' = access
         \/ /\ hist' = hist
            /\ \E r \in Rights : AccessChanges(r)
  PROVE  BeliefInv'
<1> SUFFICES ASSUME InFrame, ack # None \/ frame = "connected" PROVE BeliefInv'
  BY DEF BeliefInv, InFrame, handshake
<1>1. Bridged
  BY DEF HandshakeInv, Bridged
<1>2. nextId["host"] \in Nat /\ toApp \in Seq(HostSays)
  BY DEF CoreInv, ChannelInv, Ends
<1>3. PICK m \in HostSays :
        /\ toApp' = Append(toApp, m)
        /\ \/ /\ m.method = "router.locationChanged" /\ m.arg = RelativeLocation(hist')
              /\ access' = access
           \/ m.method = "access.changed" /\ m.arg = access' /\ hist' = hist
  <2>1. CASE HistoryBecomes(hist') /\ IsHistory(hist') /\ access' = access
    <3> DEFINE m == Request(nextId["host"], "router.locationChanged", RelativeLocation(hist'))
    <3>1. m \in HostSays
      BY <1>2, <2>1, RelativeIsPath DEF HostSays
    <3>2. toApp' = Append(toApp, m)
      BY <1>1, <2>1 DEF HistoryBecomes, Asked
    <3>3. m.method = "router.locationChanged" /\ m.arg = RelativeLocation(hist')
      BY DEF Request
    <3> QED
      BY <2>1, <3>1, <3>2, <3>3
  <2>2. CASE hist' = hist /\ \E r \in Rights : AccessChanges(r)
    <3>1. PICK r \in Rights : AccessChanges(r)
      BY <2>2
    <3> DEFINE m == Request(nextId["host"], "access.changed", r)
    <3>2. m \in HostSays
      BY <1>2 DEF HostSays
    <3>3. toApp' = Append(toApp, m) /\ access' = r
      BY <1>1, <3>1 DEF AccessChanges, Asked
    <3>4. m.method = "access.changed" /\ m.arg = access'
      BY <3>3 DEF Request
    <3> QED
      BY <2>2, <3>2, <3>3, <3>4
  <2> QED
    BY <2>1, <2>2
<1>4. ASSUME NEW known, Knows(known, toApp, toHost, hist, access)
      PROVE  Knows(known, toApp', toHost', hist', access')
  BY <1>2, <1>3, <1>4, KnowsPushed
<1> QED
  BY <1>4 DEF BeliefInv, handshake

\* What the frame asks: after a navigation it believes its own.
LEMMA BeliefAsks ==
  ASSUME CoreInv, WiringInv, CopiesInv, BeliefInv,
         \/ \E to \in Paths, replace \in BOOLEAN : AppNavigates(to, replace)
         \/ \E method \in {"api.request", "unknown"} : AppRequests(method)
         \/ AppGoesBack
  PROVE  BeliefInv'
<1>1. UNCHANGED <<app, access, handshake>> /\ Alive
  BY DEF AppNavigates, AppRequests, AppGoesBack, shell
<1> SUFFICES ASSUME InFrame PROVE BeliefInv'
  BY <1>1 DEF BeliefInv, InFrame
<1>2. frame = "connected" /\ ack = None /\ Knows(proxy, toApp, toHost, hist, access)
  BY <1>1 DEF Alive, WiringInv, BeliefInv
<1>3. nextId["app"] \in Nat /\ toHost \in Seq(AppSays)
  BY DEF CoreInv, ChannelInv, Ends
<1>4. hist' = hist /\ toApp' = toApp
  BY DEF AppNavigates, FrameNavigates, AppRequests, AppGoesBack, FrameAsks, shell
<1>5. \E m \in AppSays :
        /\ toHost' = Append(toHost, m)
        /\ \/ proxy' = proxy
           \/ m.method = "router.navigate" /\ proxy'.access = proxy.access
  <2>1. CASE \E to \in Paths, replace \in BOOLEAN : AppNavigates(to, replace)
    <3>1. PICK to \in Paths, replace \in BOOLEAN : AppNavigates(to, replace)
      BY <2>1
    <3> DEFINE m == Request(nextId["app"], "router.navigate", [to |-> to, replace |-> replace])
    <3>2. [to |-> to, replace |-> replace] \in Going
      BY DEF Going
    <3>3. m \in AppSays
      BY <1>3, <3>2 DEF AppSays
    <3>4. m.method = "router.navigate"
      BY DEF Request
    <3>5. toHost' = Append(toHost, m) /\ proxy' = [proxy EXCEPT !.location = to]
      BY <3>1 DEF AppNavigates, FrameNavigates, FrameAsks, Asked
    <3>6. proxy'.access = proxy.access
      BY <3>5 DEF CopiesInv, Snapshot
    <3> HIDE DEF m
    <3> QED
      BY <3>3, <3>4, <3>5, <3>6
  <2>2. CASE \E method \in {"api.request", "unknown"} : AppRequests(method)
    <3>1. PICK method \in {"api.request", "unknown"} : AppRequests(method)
      BY <2>2
    <3>2. method \in AppMethods \ {"router.navigate"}
      BY DEF AppMethods
    <3>3. Request(nextId["app"], method, None) \in AppSays
      BY <1>3, <3>2 DEF AppSays
    <3>4. toHost' = Append(toHost, Request(nextId["app"], method, None)) /\ proxy' = proxy
      BY <3>1 DEF AppRequests, FrameAsks, Asked
    <3> QED
      BY <3>3, <3>4
  <2>3. CASE AppGoesBack
    <3>1. Request(nextId["app"], "router.back", None) \in AppSays
      BY <1>3 DEF AppSays, AppMethods
    <3>2. toHost' = Append(toHost, Request(nextId["app"], "router.back", None)) /\ proxy' = proxy
      BY <2>3 DEF AppGoesBack, FrameAsks, Asked
    <3> QED
      BY <3>1, <3>2
  <2> QED
    BY <2>1, <2>2, <2>3
<1>6. Knows(proxy', toApp', toHost', hist', access')
  BY <1>1, <1>2, <1>3, <1>4, <1>5, KnowsAsked
<1> QED
  BY <1>1, <1>2, <1>6 DEF BeliefInv, handshake

\* What the shell does with a message is to change nothing the frame is told of,
\* or to tell it the place, before the answer.
LEMMA HostHandlesPlace ==
  ASSUME CoreInv, HostHandles
  PROVE  /\ toHost # <<>> /\ toHost' = Tail(toHost) /\ toHost \in Seq(AppSays)
         /\ access' = access
         /\ \/ /\ hist' = hist
               /\ \/ Head(toHost).method # "router.navigate" /\ refused' = refused
                  \/ ~OwnsCurrentRoute(hist) /\ refused'
               /\ \/ toApp' = toApp
                  \/ toApp' = Append(toApp, Response(Head(toHost).id))
            \/ /\ OwnsCurrentRoute(hist) /\ OwnsCurrentRoute(hist') /\ IsHistory(hist')
               /\ refused' = refused /\ Head(toHost).method = "router.navigate"
               /\ RelativeLocation(hist') = Head(toHost).arg.to
               /\ toApp' = Append(Asked(toApp, "host", "router.locationChanged",
                                        RelativeLocation(hist')), Response(Head(toHost).id))
<1> DEFINE m == Head(toHost)
<1>1. toHost # <<>> /\ toHost' = Tail(toHost) /\ toHost \in Seq(AppSays) /\ m \in AppSays
  BY DEF HostHandles, CoreInv, ChannelInv
<1>2. access' = access
  BY DEF HostHandles
<1> HIDE DEF m
<1>3. m.method = "router.navigate" => m.arg \in Going
  BY <1>1, MessagesSay
<1>4. m.kind = "response" => m.method # "router.navigate"
  BY <1>1, KindsOf, EmbeddedAssumption DEF AppMethods
<1>5. CASE m.method = "router.navigate" /\ HostNavigates(m) /\ OwnsCurrentRoute(hist)
  <2> DEFINE h == Navigate(hist, m.arg.to, m.arg.replace)
  <2>1. /\ hist' = h /\ refused' = refused
        /\ toApp' = Append(Asked(toApp, "host", "router.locationChanged",
                                 RelativeLocation(h)), Response(m.id))
    BY <1>5 DEF HostNavigates
  <2>2. m.arg.to \in Paths
    BY <1>3, <1>5 DEF Going
  <2>3. IsHistory(h)
    BY <2>2, NavigatedIsHistory DEF CoreInv
  <2>4. Here(h) = [app |-> Me, path |-> m.arg.to]
    BY <1>5, <2>2, NavigatedLeads DEF CoreInv
  <2> HIDE DEF h
  <2>5. OwnsCurrentRoute(h) /\ RelativeLocation(h) = m.arg.to
    BY <2>4 DEF OwnsCurrentRoute, RelativeLocation
  <2> QED
    BY <1>1, <1>2, <1>5, <2>1, <2>3, <2>5 DEF m
<1>6. CASE m.method = "router.navigate" /\ HostNavigates(m) /\ ~OwnsCurrentRoute(hist)
  BY <1>1, <1>2, <1>6 DEF HostNavigates, m
<1>7. CASE /\ m.method # "router.navigate" /\ hist' = hist /\ refused' = refused
           /\ \/ toApp' = toApp
              \/ toApp' = Append(toApp, Response(m.id))
  BY <1>1, <1>2, <1>7 DEF m
<1>8. \/ m.method = "router.navigate" /\ HostNavigates(m)
      \/ /\ m.method # "router.navigate" /\ hist' = hist /\ refused' = refused
         /\ \/ toApp' = toApp
            \/ toApp' = Append(toApp, Response(m.id))
  BY <1>4, Zenon DEF HostHandles, m
<1> QED
  BY <1>5, <1>6, <1>7, <1>8

\* The shell reads its end.
LEMMA BeliefHost ==
  ASSUME CoreInv, BeliefInv, HostHandles
  PROVE  BeliefInv'
<1> DEFINE m == Head(toHost)
<1>1. /\ toHost # <<>> /\ toHost' = Tail(toHost) /\ toHost \in Seq(AppSays)
      /\ access' = access
      /\ \/ /\ hist' = hist
            /\ m.method # "router.navigate" \/ ~OwnsCurrentRoute(hist)
            /\ \/ toApp' = toApp
               \/ toApp' = Append(toApp, Response(m.id))
         \/ /\ IsHistory(hist')
            /\ toApp' = Append(Asked(toApp, "host", "router.locationChanged",
                                     RelativeLocation(hist')), Response(m.id))
  BY HostHandlesPlace
<1>2. UNCHANGED <<app, handshake, proxy>>
  BY DEF HostHandles
<1>3. m.id \in Nat /\ nextId["host"] \in Nat /\ toApp \in Seq(HostSays)
  BY <1>1, MessagesSay DEF CoreInv, ChannelInv, Ends
<1>4. Response(m.id) \in HostSays /\ Response(m.id).method = None
  BY <1>3 DEF HostSays, Response
<1> HIDE DEF m
<1>5. ASSUME NEW known, Knows(known, toApp, toHost, hist, access)
      PROVE  Knows(known, toApp', toHost', hist', access')
  <2>1. CASE /\ hist' = hist
             /\ m.method # "router.navigate" \/ ~OwnsCurrentRoute(hist)
             /\ \/ toApp' = toApp
                \/ toApp' = Append(toApp, Response(m.id))
    <3>1. Knows(known, toApp, toHost', hist, access)
      BY <1>1, <1>5, <2>1, KnowsHeard DEF m
    <3>2. Knows(known, Append(toApp, Response(m.id)), toHost', hist, access)
      BY <1>3, <1>4, <3>1, KnowsPushed
    <3> QED
      BY <1>1, <2>1, <3>1, <3>2
  <2>2. CASE /\ IsHistory(hist')
             /\ toApp' = Append(Asked(toApp, "host", "router.locationChanged",
                                      RelativeLocation(hist')), Response(m.id))
    <3> DEFINE push == Request(nextId["host"], "router.locationChanged", RelativeLocation(hist'))
    <3>1. push \in HostSays
      BY <1>3, <2>2, RelativeIsPath DEF HostSays
    <3>2. push.method = "router.locationChanged" /\ push.arg = RelativeLocation(hist')
      BY DEF Request
    <3>3. toApp' = Append(Append(toApp, push), Response(m.id))
      BY <2>2 DEF Asked
    <3> HIDE DEF push
    <3>4. Knows(known, Append(toApp, push), toHost', hist', access)
      BY <1>3, <1>5, <3>1, <3>2, KnowsPushed
    <3>5. Append(toApp, push) \in Seq(HostSays)
      BY <1>3, <3>1
    <3>6. Knows(known, Append(Append(toApp, push), Response(m.id)), toHost', hist', access)
      BY <1>4, <3>4, <3>5, KnowsPushed
    <3> QED
      BY <1>1, <3>3, <3>6
  <2> QED
    BY <1>1, <2>1, <2>2
<1> QED
  BY <1>2, <1>5 DEF BeliefInv, handshake, InFrame

\* A handler's promise settles.
LEMMA BeliefSettles ==
  ASSUME CoreInv, BeliefInv, HostSettles
  PROVE  BeliefInv'
<1>1. PICK n \in serving : toApp' = Append(toApp, Response(n))
  BY DEF HostSettles, HostAnswers
<1>2. UNCHANGED <<app, hist, access, handshake, toHost, proxy>>
  BY DEF HostSettles, shell
<1>3. toApp \in Seq(HostSays) /\ Response(n) \in HostSays /\ Response(n).method = None
  <2>1. n \in Nat /\ toApp \in Seq(HostSays)
    BY DEF CoreInv, ChannelInv
  <2> QED
    BY <2>1 DEF HostSays, Response
<1>4. ASSUME NEW known, Knows(known, toApp, toHost, hist, access)
      PROVE  Knows(known, toApp', toHost', hist', access')
  BY <1>1, <1>2, <1>3, <1>4, KnowsPushed
<1> QED
  BY <1>2, <1>4 DEF BeliefInv, handshake, InFrame

\* The frame reads its end, and believes what it is told.
LEMMA BeliefFrame ==
  ASSUME CoreInv, WiringInv, CopiesInv, BeliefInv, AppHandles
  PROVE  BeliefInv'
<1> DEFINE m == Head(toApp)
<1>1. /\ UNCHANGED <<app, hist, access, handshake>> /\ frame = "connected"
      /\ toApp # <<>> /\ toApp' = Tail(toApp) /\ toApp \in Seq(HostSays) /\ m \in HostSays
  BY DEF AppHandles, shell, CoreInv, ChannelInv
<1> SUFFICES ASSUME InFrame PROVE BeliefInv'
  BY <1>1 DEF BeliefInv, InFrame
<1>2. ack = None /\ Knows(proxy, toApp, toHost, hist, access)
  BY <1>1 DEF WiringInv, BeliefInv
<1>3. m.id \in Nat /\ toHost \in Seq(AppSays)
  BY <1>1, MessagesSay DEF CoreInv, ChannelInv
<1>4. Response(m.id) \in AppSays
  BY <1>3 DEF AppSays
<1>5. m.kind = "response" => m.method = None
  BY <1>1, KindsOf
<1>6. \/ m.method = "router.locationChanged" /\ proxy' = [proxy EXCEPT !.location = m.arg]
      \/ m.method = "access.changed" /\ proxy' = [proxy EXCEPT !.access = m.arg]
      \/ m.method = None /\ proxy' = proxy
  BY <1>5 DEF AppHandles, m
<1>7. toHost' = toHost \/ toHost' = Append(toHost, Response(m.id))
  BY DEF AppHandles, m
<1>8. Knows(proxy', toApp', toHost, hist, access)
  BY <1>1, <1>2, <1>6, KnowsTold DEF CopiesInv, m
<1> HIDE DEF m
<1>9. Knows(proxy', toApp', Append(toHost, Response(m.id)), hist, access)
  BY <1>3, <1>4, <1>8, KnowsAsked
<1>10. Knows(proxy', toApp', toHost', hist', access')
  BY <1>1, <1>7, <1>8, <1>9
<1> QED
  BY <1>1, <1>2, <1>10 DEF BeliefInv, handshake

\* The snapshot of the ack is the truth of the moment, and the port is empty.
LEMMA BeliefReads ==
  ASSUME CoreInv, HandshakeInv, WiringInv, BeliefInv, HostReadsReady
  PROVE  BeliefInv'
<1>1. UNCHANGED <<app, hist, access, toApp, toHost, proxy>>
  BY DEF HostReadsReady, shell, channel
<1>2. PICK r \in ready : HostHears(r)
  BY DEF HostReadsReady
<1>3. CASE r = "current" /\ mount = "waiting" /\ app.sound
  <2> SUFFICES ASSUME InFrame PROVE BeliefInv'
    BY <1>1 DEF BeliefInv, InFrame
  <2>1. /\ ack' = [location |-> RelativeLocation(hist), access |-> access]
        /\ frame' = frame /\ frame # "connected"
    BY <1>2, <1>3 DEF HostHears, HandshakeInv
  <2>2. toApp = <<>>
    BY <1>3 DEF WiringInv
  <2>3. Knows(ack', toApp', toHost', hist', access')
    BY <1>1, <2>1, <2>2 DEF Knows, KnowsAccess, KnowsPlace, LastSays, Silent
  <2> QED
    BY <2>1, <2>3 DEF BeliefInv
<1>4. CASE r = "current" /\ mount = "waiting" /\ ~app.sound
  BY <1>1, <1>2, <1>4, BeliefAlone DEF HostHears
<1>5. CASE ~(r = "current" /\ mount = "waiting")
  <2>1. frame' = frame /\ ack' = ack
    BY <1>2, <1>5 DEF HostHears
  <2> QED
    BY <1>1, <2>1, BeliefAlone
<1> QED
  BY <1>3, <1>4, <1>5

\* The other steps of the handshake.
LEMMA BeliefGoesOn ==
  ASSUME HandshakeInv, WiringInv, BeliefInv,
         Mount \/ Unmount \/ EmbedStarts \/ HostTimesOut \/ EmbedReadsAck \/ EmbedTimesOut
  PROVE  BeliefInv'
<1>1. CASE Mount \/ Unmount
  <2> SUFFICES ASSUME InFrame PROVE BeliefInv'
    BY <1>1 DEF Mount, Unmount, BeliefInv, InFrame
  <2>1. ack' = None /\ frame' # "connected"
    BY <1>1 DEF Mount, Unmount, HandshakeInv
  <2> QED
    BY <2>1 DEF BeliefInv
<1>2. CASE EmbedStarts \/ HostTimesOut \/ EmbedTimesOut
  <2>1. /\ UNCHANGED <<app, hist, access, toApp, toHost, ack, proxy>>
        /\ frame' = frame \/ frame' # "connected"
    BY <1>2 DEF EmbedStarts, HostTimesOut, EmbedTimesOut, shell, channel
  <2> QED
    BY <2>1, BeliefAlone
<1>3. CASE EmbedReadsAck
  <2>1. /\ UNCHANGED <<app, hist, access, toApp, toHost>> /\ ack # None /\ ack' = None
        /\ proxy' = ack \/ UNCHANGED <<frame, proxy>>
    BY <1>3 DEF EmbedReadsAck, shell, channel
  <2> QED
    BY <2>1, BeliefAlone
<1> QED
  BY <1>1, <1>2, <1>3

LEMMA BeliefStep ==
  CoreInv /\ HandshakeInv /\ WiringInv /\ CopiesInv /\ BeliefInv /\ [Next]_vars => BeliefInv'
<1> SUFFICES ASSUME CoreInv, HandshakeInv, WiringInv, CopiesInv, BeliefInv, [Next]_vars
             PROVE  BeliefInv'
  OBVIOUS
<1>1. CASE UNCHANGED vars
  BY <1>1, BeliefAlone DEF vars, shell, handshake, channel
<1>2. CASE \E a \in Address : PersonOpens(a)
  <2>1. PICK a \in Address : PersonOpens(a)
    BY <1>2
  <2>2. IsHistory(AfterPush(hist, a))
    BY WrittenIsHistory DEF CoreInv
  <2>3. /\ hist' = AfterPush(hist, a) /\ HistoryBecomes(AfterPush(hist, a))
        /\ UNCHANGED <<app, access, handshake, proxy, toHost>>
    BY <2>1 DEF PersonOpens, HistoryBecomes
  <2> QED
    BY <2>2, <2>3, BeliefPushes
<1>3. CASE \E d \in {-1, 1} : PersonTraverses(d)
  <2>1. PICK d \in {-1, 1} : PersonTraverses(d)
    BY <1>3
  <2>2. IsHistory(AfterGo(hist, d))
    BY <2>1, TraversedIsHistory DEF CoreInv, PersonTraverses
  <2>3. /\ hist' = AfterGo(hist, d) /\ HistoryBecomes(AfterGo(hist, d))
        /\ UNCHANGED <<app, access, handshake, proxy, toHost>>
    BY <2>1 DEF PersonTraverses, HistoryBecomes
  <2> QED
    BY <2>2, <2>3, BeliefPushes
<1>4. CASE Traversed
  <2>1. CASE CanGo(hist, -1)
    <3>1. IsHistory(AfterGo(hist, -1))
      BY <2>1, TraversedIsHistory DEF CoreInv
    <3>2. /\ hist' = AfterGo(hist, -1) /\ HistoryBecomes(AfterGo(hist, -1))
          /\ UNCHANGED <<app, access, handshake, proxy, toHost>>
      BY <1>4, <2>1 DEF Traversed, HistoryBecomes
    <3> QED
      BY <3>1, <3>2, BeliefPushes
  <2>2. CASE ~CanGo(hist, -1)
    BY <1>4, <2>2, BeliefAlone DEF Traversed, channel, handshake
  <2> QED
    BY <2>1, <2>2
<1>5. CASE \E r \in Rights : AccessChanges(r)
  <2>1. hist' = hist /\ UNCHANGED <<app, handshake, proxy, toHost>>
    BY <1>5 DEF AccessChanges
  <2> QED
    BY <1>5, <2>1, BeliefPushes
<1>6. CASE \/ \E to \in Paths, replace \in BOOLEAN : AppNavigates(to, replace)
           \/ \E method \in {"api.request", "unknown"} : AppRequests(method)
           \/ AppGoesBack
  BY <1>6, BeliefAsks
<1>7. CASE HostHandles \/ HostSettles \/ AppHandles
  BY <1>7, BeliefHost, BeliefSettles, BeliefFrame
<1>8. CASE HostReadsReady
  BY <1>8, BeliefReads
<1>9. CASE Mount \/ Unmount \/ EmbedStarts \/ HostTimesOut \/ EmbedReadsAck \/ EmbedTimesOut
  BY <1>9, BeliefGoesOn
<1> QED
  BY <1>1, <1>2, <1>3, <1>4, <1>5, <1>6, <1>7, <1>8, <1>9 DEF Next

(***************************************************************************)
(* What the frame's proofs rest on, all at once.                           *)
(***************************************************************************)
FrameInv == CoreInv /\ HandshakeInv /\ WiringInv /\ CopiesInv /\ BeliefInv

LEMMA FrameCorrect == Spec => []FrameInv
<1>1. Init => FrameInv
  BY CoreInit, HandshakeInit, WiringInit, CopiesInit, BeliefInit DEF FrameInv
<1>2. FrameInv /\ [Next]_vars => FrameInv'
  BY CoreStep, HandshakeStep, WiringStep, CopiesStep, BeliefStep DEF FrameInv
<1> QED
  BY <1>1, <1>2, PTL DEF Spec

(***************************************************************************)
(* What the frame believes is what the shell says once the port is empty   *)
(* and the address is the app's: whatever the snapshot, the pushes and the *)
(* optimistic navigations were that crossed on the way, in histories and   *)
(* queues of any length (createSdkProxy.ts:42-52,                          *)
(* createIframeAppModule.ts:84-110).                                       *)
(***************************************************************************)
THEOREM FramesAgree == Spec => []FrameAgrees
<1>1. FrameInv => FrameAgrees
  <2> SUFFICES ASSUME FrameInv, InFrame, Quiet, OwnsCurrentRoute(hist)
               PROVE  proxy = [location |-> RelativeLocation(hist), access |-> access]
    BY DEF FrameAgrees
  <2>1. frame = "connected" /\ toApp = <<>> /\ toHost = <<>>
    BY DEF Quiet, Alive
  <2>2. Knows(proxy, <<>>, <<>>, hist, access)
    BY <2>1 DEF FrameInv, BeliefInv
  <2>3. \A method : Silent(<<>>, method)
    BY DEF Silent
  <2>4. proxy.access = access /\ proxy.location = RelativeLocation(hist)
    BY <2>2, <2>3 DEF Knows, KnowsAccess, KnowsPlace
  <2> QED
    BY <2>4 DEF FrameInv, CopiesInv, Snapshot
<1> QED
  BY <1>1, FrameCorrect, PTL

-----------------------------------------------------------------------------
(* What the framework's router shows.                                      *)

\* The notification of the app's own navigation there is still to come.
Echoes(shown, q, asked) ==
  \/ \E i \in 1 .. Len(asked) : asked[i].method = "router.navigate" /\ asked[i].arg.to = shown
  \/ \E i \in 1 .. Len(q) : q[i].method = "router.locationChanged" /\ q[i].arg = shown

(***************************************************************************)
(* The flag is up for an echo that is to come, and down the router shows   *)
(* the place unless it is still to be told.                                *)
(***************************************************************************)
Follows(r, place, q, asked) ==
  /\ r.suppress => Echoes(r.shown, q, asked)
  /\ ~r.suppress /\ Silent(q, "router.locationChanged") /\ Silent(asked, "router.navigate")
       => r.shown = place

RouterInv ==
  /\ InFrame /\ frame = "connected" =>
       /\ app.framework = "vue" => router.current = proxy.location
       /\ ~refused => Follows(router, proxy.location, toApp, toHost)
  /\ ~InFrame /\ mount = "mounted" /\ ~refused =>
       /\ ~router.suppress /\ router.shown = RelativeLocation(hist)
       /\ app.framework = "vue" => router.current = RelativeLocation(hist)

\* The places of a queue after its first.
LEMMA TailPlaces ==
  ASSUME NEW T, NEW q \in Seq(T), q # <<>>
  PROVE  /\ \A i \in 1 .. Len(q) :
              \/ i = 1 /\ q[i] = Head(q)
              \/ i - 1 \in 1 .. Len(Tail(q)) /\ Tail(q)[i - 1] = q[i]
         /\ 1 \in 1 .. Len(q) /\ q[1] = Head(q)
OBVIOUS

\* A message more changes nothing of it.
LEMMA FollowsMore ==
  ASSUME NEW r, NEW place, NEW q \in Seq(HostSays), NEW asked \in Seq(AppSays),
         Follows(r, place, q, asked)
  PROVE  /\ \A m \in HostSays : Follows(r, place, Append(q, m), asked)
         /\ \A m \in AppSays : Follows(r, place, q, Append(asked, m))
<1>1. ASSUME NEW m \in HostSays PROVE Follows(r, place, Append(q, m), asked)
  <2>1. /\ \A i \in 1 .. Len(q) : i \in 1 .. Len(Append(q, m)) /\ Append(q, m)[i] = q[i]
    OBVIOUS
  <2>2. Silent(Append(q, m), "router.locationChanged") => Silent(q, "router.locationChanged")
    BY LastAppended
  <2> QED
    BY <2>1, <2>2 DEF Follows, Echoes
<1>2. ASSUME NEW m \in AppSays PROVE Follows(r, place, q, Append(asked, m))
  <2>1. /\ \A i \in 1 .. Len(asked) :
             i \in 1 .. Len(Append(asked, m)) /\ Append(asked, m)[i] = asked[i]
    OBVIOUS
  <2>2. Silent(Append(asked, m), "router.navigate") => Silent(asked, "router.navigate")
    BY LastAppended
  <2> QED
    BY <2>1, <2>2 DEF Follows, Echoes
<1> QED
  BY <1>1, <1>2

\* The app's own navigation raises the flag for its echo.
LEMMA FollowsOwn ==
  ASSUME NEW r, NEW place, NEW q, NEW asked \in Seq(AppSays), NEW m \in AppSays,
         m.method = "router.navigate", r.suppress, r.shown = m.arg.to
  PROVE  Follows(r, place, q, Append(asked, m))
<1>1. /\ Len(asked) + 1 \in 1 .. Len(Append(asked, m))
      /\ Append(asked, m)[Len(asked) + 1] = m
  OBVIOUS
<1> QED
  BY <1>1 DEF Follows, Echoes

\* The shell takes a message that is no navigation.
LEMMA FollowsHeard ==
  ASSUME NEW r, NEW place, NEW q, NEW asked \in Seq(AppSays), asked # <<>>,
         Follows(r, place, q, asked), Head(asked).method # "router.navigate"
  PROVE  Follows(r, place, q, Tail(asked))
<1>1. Silent(Tail(asked), "router.navigate") => Silent(asked, "router.navigate")
  BY TailPlaces DEF Silent
<1>2. Echoes(r.shown, q, asked) => Echoes(r.shown, q, Tail(asked))
  BY TailPlaces DEF Echoes
<1> QED
  BY <1>1, <1>2 DEF Follows

\* The shell takes a navigation, and its echo is under way.
LEMMA FollowsEchoed ==
  ASSUME NEW r, NEW place, NEW q \in Seq(HostSays), NEW asked \in Seq(AppSays), asked # <<>>,
         Follows(r, place, q, asked), NEW m \in HostSays,
         m.method = "router.locationChanged", m.arg = Head(asked).arg.to
  PROVE  Follows(r, place, Append(q, m), Tail(asked))
<1>1. /\ \A i \in 1 .. Len(q) : i \in 1 .. Len(Append(q, m)) /\ Append(q, m)[i] = q[i]
      /\ Len(q) + 1 \in 1 .. Len(Append(q, m)) /\ Append(q, m)[Len(q) + 1] = m
  OBVIOUS
<1>2. ~Silent(Append(q, m), "router.locationChanged")
  BY <1>1 DEF Silent
<1>3. ASSUME Echoes(r.shown, q, asked) PROVE Echoes(r.shown, Append(q, m), Tail(asked))
  <2>1. CASE \E i \in 1 .. Len(q) : q[i].method = "router.locationChanged" /\ q[i].arg = r.shown
    BY <1>1, <2>1 DEF Echoes
  <2>2. CASE \E i \in 1 .. Len(asked) :
               asked[i].method = "router.navigate" /\ asked[i].arg.to = r.shown
    <3>1. PICK i \in 1 .. Len(asked) :
            asked[i].method = "router.navigate" /\ asked[i].arg.to = r.shown
      BY <2>2
    <3>2. CASE i = 1
      <4>1. m.arg = r.shown
        BY <3>1, <3>2, TailPlaces
      <4> QED
        BY <1>1, <4>1 DEF Echoes
    <3>3. CASE i # 1
      BY <3>1, <3>3, TailPlaces DEF Echoes
    <3> QED
      BY <3>2, <3>3
  <2> QED
    BY <1>3, <2>1, <2>2 DEF Echoes
<1> QED
  BY <1>2, <1>3 DEF Follows

\* The frame takes a message: one of the place lowers the flag, or is shown.
LEMMA FollowsTold ==
  ASSUME NEW r \in RouterState, NEW place, NEW q \in Seq(HostSays), q # <<>>, NEW asked,
         Follows(r, place, q, asked)
  PROVE  /\ Head(q).method # "router.locationChanged" => Follows(r, place, Tail(q), asked)
         /\ Head(q).method = "router.locationChanged" =>
              Follows(Notified(r, Head(q).arg), Head(q).arg, Tail(q), asked)
<1> DEFINE m == Head(q)
           n == Notified(r, m.arg)
<1>1. ASSUME m.method # "router.locationChanged" PROVE Follows(r, place, Tail(q), asked)
  <2>1. Silent(Tail(q), "router.locationChanged") => Silent(q, "router.locationChanged")
    BY <1>1, TailPlaces DEF Silent
  <2>2. Echoes(r.shown, q, asked) => Echoes(r.shown, Tail(q), asked)
    BY <1>1, TailPlaces DEF Echoes
  <2> QED
    BY <2>1, <2>2 DEF Follows
<1>2. ASSUME m.method = "router.locationChanged" PROVE Follows(n, m.arg, Tail(q), asked)
  <2>1. ~n.suppress /\ n.shown = IF r.suppress THEN r.shown ELSE m.arg
    BY DEF RouterState, Notified, ReactNotified, VueNotified
  <2>2. ASSUME r.suppress, Silent(Tail(q), "router.locationChanged"),
               Silent(asked, "router.navigate")
        PROVE  r.shown = m.arg
    <3>1. PICK i \in 1 .. Len(q) : q[i].method = "router.locationChanged" /\ q[i].arg = r.shown
      BY <2>2 DEF Follows, Echoes, Silent
    <3>2. i = 1 /\ q[i] = m
      BY <2>2, <3>1, TailPlaces DEF Silent
    <3> QED
      BY <3>1, <3>2
  <2> HIDE DEF n
  <2> QED
    BY <2>1, <2>2 DEF Follows
<1> QED
  BY <1>1, <1>2

LEMMA RouterInit == Init => RouterInv
BY DEF Init, RouterInv

\* A step that touches neither the router nor what it goes by.
LEMMA RouterAlone ==
  ASSUME RouterInv,
         UNCHANGED <<app, hist, router, proxy, refused, toApp, toHost>>,
         frame' = frame \/ frame' # "connected",
         mount' = mount \/ mount' # "mounted" \/ InFrame
  PROVE  RouterInv'
BY DEF RouterInv, InFrame

\* What the shell tells the app: a frame as a message, a federated app at once.
LEMMA RouterBecomes ==
  ASSUME CoreInv, WiringInv, CopiesInv, RouterInv, IsHistory(hist'), HistoryBecomes(hist'),
         UNCHANGED <<app, handshake, proxy, refused>>
  PROVE  RouterInv'
<1>1. CASE InFrame
  <2>1. UNCHANGED <<router, toHost>>
    BY <1>1 DEF HistoryBecomes
  <2>2. toApp' = toApp \/ \E m \in HostSays : toApp' = Append(toApp, m)
    <3>1. CASE Bridged
      <4> DEFINE m == Request(nextId["host"], "router.locationChanged", RelativeLocation(hist'))
      <4>1. m \in HostSays
        <5>1. nextId["host"] \in Nat /\ RelativeLocation(hist') \in Paths
          BY RelativeIsPath DEF CoreInv, ChannelInv, Ends
        <5> QED
          BY <5>1 DEF HostSays
      <4>2. toApp' = Append(toApp, m)
        BY <3>1 DEF HistoryBecomes, Asked
      <4> QED
        BY <4>1, <4>2
    <3>2. CASE ~Bridged
      BY <3>2 DEF HistoryBecomes
    <3> QED
      BY <3>1, <3>2
  <2>3. Follows(router, proxy.location, toApp, toHost) =>
          Follows(router, proxy.location, toApp', toHost)
    BY <2>2, FollowsMore DEF CoreInv, ChannelInv
  <2>4. Follows(router, proxy.location, toApp, toHost) =>
          Follows(router', proxy'.location, toApp', toHost')
    BY <2>1, <2>3
  <2> QED
    BY <1>1, <2>1, <2>4 DEF RouterInv, InFrame, handshake
<1>2. CASE ~InFrame
  <2> SUFFICES ASSUME mount = "mounted", ~refused PROVE RouterInv'
    BY <1>2 DEF RouterInv, InFrame, handshake
  <2> DEFINE p == RelativeLocation(hist')
  <2>1. router' = Notified(router, p)
    BY <1>2 DEF HistoryBecomes, Alive
  <2>2. ~router.suppress
    BY <1>2 DEF RouterInv
  <2> HIDE DEF p
  <2>3. /\ ~router'.suppress /\ router'.shown = p
        /\ app.framework = "vue" => router'.current = p
    BY <2>1, <2>2 DEF Notified, ReactNotified, VueNotified, CopiesInv
  <2> QED
    BY <1>2, <2>3 DEF RouterInv, InFrame, p
<1> QED
  BY <1>1, <1>2

\* More of the shell's messages that are not of the place.
LEMMA RouterMore ==
  ASSUME CoreInv, RouterInv, UNCHANGED <<app, hist, handshake, router, proxy, refused>>,
         \/ UNCHANGED toHost /\ \E m \in HostSays : toApp' = Append(toApp, m)
         \/ UNCHANGED toApp /\ \E m \in AppSays : toHost' = Append(toHost, m)
         \/ UNCHANGED <<toApp, toHost>>
  PROVE  RouterInv'
<1>1. Follows(router, proxy.location, toApp, toHost) =>
        Follows(router, proxy.location, toApp', toHost')
  BY FollowsMore DEF CoreInv, ChannelInv
<1>2. Follows(router, proxy.location, toApp, toHost) =>
        Follows(router', proxy'.location, toApp', toHost')
  BY <1>1
<1> QED
  BY <1>2 DEF RouterInv, InFrame, handshake

\* The app navigates.
LEMMA RouterNavigates ==
  ASSUME CoreInv, WiringInv, CopiesInv, RouterInv, NEW to \in Paths, NEW replace \in BOOLEAN,
         AppNavigates(to, replace)
  PROVE  RouterInv'
<1>1. UNCHANGED <<app, handshake>> /\ Alive
  BY DEF AppNavigates
<1>2. CASE InFrame
  <2> DEFINE m == Request(nextId["app"], "router.navigate", [to |-> to, replace |-> replace])
  <2>1. /\ proxy' = [proxy EXCEPT !.location = to] /\ router' = Pushed(Expecting(router), to)
        /\ toHost' = Append(toHost, m) /\ toApp' = toApp
    BY <1>2 DEF AppNavigates, FrameNavigates, FrameAsks, Asked
  <2>2. m \in AppSays
    <3>1. nextId["app"] \in Nat /\ [to |-> to, replace |-> replace] \in Going
      BY DEF CoreInv, ChannelInv, Ends, Going
    <3> QED
      BY <3>1 DEF AppSays
  <2>3. m.method = "router.navigate" /\ m.arg.to = to
    BY DEF Request
  <2> HIDE DEF m
  <2>4. /\ router'.suppress /\ router'.shown = to
        /\ app.framework = "vue" => router'.current = to
    BY <2>1 DEF Pushed, ReactPushed, VuePushed, Expecting, CopiesInv
  <2>5. proxy'.location = to
    BY <2>1 DEF CopiesInv, Snapshot
  <2>6. \A r, place : r.suppress /\ r.shown = to => Follows(r, place, toApp, Append(toHost, m))
    BY <2>2, <2>3, FollowsOwn DEF CoreInv, ChannelInv
  <2>7. Follows(router', proxy'.location, toApp', toHost')
    BY <2>1, <2>4, <2>6
  <2> QED
    BY <1>1, <1>2, <2>4, <2>5, <2>7 DEF RouterInv, InFrame
<1>3. CASE ~InFrame
  <2> DEFINE h == Navigate(hist, to, replace)
             p == RelativeLocation(h)
  <2>1. /\ hist' = h
        /\ router' = Pushed(IF OwnsCurrentRoute(hist) THEN Notified(Expecting(router), to)
                                                      ELSE Expecting(router), p)
        /\ refused' = (refused \/ ~OwnsCurrentRoute(hist))
    BY <1>3 DEF AppNavigates, FederatedNavigates
  <2> HIDE DEF p
  <2>2. ASSUME OwnsCurrentRoute(hist)
        PROVE  /\ ~router'.suppress /\ router'.shown = p
               /\ app.framework = "vue" => router'.current = p
    BY <2>1, <2>2 DEF Pushed, ReactPushed, VuePushed, Expecting, Notified, ReactNotified,
         VueNotified, CopiesInv
  <2>3. RelativeLocation(hist') = p
    BY <2>1 DEF p
  <2> QED
    BY <1>1, <1>3, <2>1, <2>2, <2>3 DEF RouterInv, InFrame
<1> QED
  BY <1>2, <1>3

\* The shell reads its end.
LEMMA RouterHost ==
  ASSUME CoreInv, RouterInv, HostHandles
  PROVE  RouterInv'
<1> DEFINE m == Head(toHost)
<1>1. /\ toHost # <<>> /\ toHost' = Tail(toHost) /\ toHost \in Seq(AppSays)
      /\ \/ /\ hist' = hist
            /\ \/ m.method # "router.navigate" /\ refused' = refused
               \/ ~OwnsCurrentRoute(hist) /\ refused'
            /\ \/ toApp' = toApp
               \/ toApp' = Append(toApp, Response(m.id))
         \/ /\ refused' = refused /\ IsHistory(hist')
            /\ m.method = "router.navigate" /\ RelativeLocation(hist') = m.arg.to
            /\ toApp' = Append(Asked(toApp, "host", "router.locationChanged",
                                     RelativeLocation(hist')), Response(m.id))
  BY HostHandlesPlace
<1>2. UNCHANGED <<app, handshake, proxy, router>> /\ InFrame
  BY DEF HostHandles, Bridged
<1>3. m.id \in Nat /\ nextId["host"] \in Nat /\ toApp \in Seq(HostSays)
  BY <1>1, MessagesSay DEF CoreInv, ChannelInv, Ends
<1>4. Response(m.id) \in HostSays
  BY <1>3 DEF HostSays
<1>5. toHost' \in Seq(AppSays)
  BY <1>1
<1> SUFFICES ASSUME frame = "connected", ~refused'
             PROVE  Follows(router, proxy.location, toApp', toHost')
  BY <1>2 DEF RouterInv, InFrame, handshake
<1>6. Follows(router, proxy.location, toApp, toHost)
  BY <1>1, <1>2 DEF RouterInv
<1> HIDE DEF m
<1>7. CASE /\ m.method # "router.navigate"
           /\ \/ toApp' = toApp
              \/ toApp' = Append(toApp, Response(m.id))
  <2>1. Follows(router, proxy.location, toApp, toHost')
    BY <1>1, <1>6, <1>7, FollowsHeard DEF m
  <2>2. Follows(router, proxy.location, Append(toApp, Response(m.id)), toHost')
    BY <1>3, <1>4, <1>5, <2>1, FollowsMore
  <2> QED
    BY <1>7, <2>1, <2>2
<1>8. CASE /\ IsHistory(hist') /\ RelativeLocation(hist') = m.arg.to
           /\ toApp' = Append(Asked(toApp, "host", "router.locationChanged",
                                    RelativeLocation(hist')), Response(m.id))
  <2> DEFINE push == Request(nextId["host"], "router.locationChanged", RelativeLocation(hist'))
  <2>1. push \in HostSays
    BY <1>3, <1>8, RelativeIsPath DEF HostSays
  <2>2. push.method = "router.locationChanged" /\ push.arg = m.arg.to
    BY <1>8 DEF Request
  <2>3. toApp' = Append(Append(toApp, push), Response(m.id))
    BY <1>8 DEF Asked
  <2> HIDE DEF push
  <2>4. Follows(router, proxy.location, Append(toApp, push), toHost')
    BY <1>1, <1>3, <1>6, <2>1, <2>2, FollowsEchoed DEF m
  <2>5. Append(toApp, push) \in Seq(HostSays)
    BY <1>3, <2>1
  <2> QED
    BY <1>4, <1>5, <2>3, <2>4, <2>5, FollowsMore
<1> QED
  BY <1>1, <1>7, <1>8

\* The frame reads its end.
LEMMA RouterFrame ==
  ASSUME CoreInv, WiringInv, CopiesInv, RouterInv, AppHandles
  PROVE  RouterInv'
<1> DEFINE m == Head(toApp)
<1>1. /\ UNCHANGED <<app, handshake, refused, hist>> /\ frame = "connected"
      /\ toApp # <<>> /\ toApp' = Tail(toApp) /\ toApp \in Seq(HostSays) /\ m \in HostSays
  BY DEF AppHandles, shell, CoreInv, ChannelInv
<1> SUFFICES ASSUME InFrame PROVE RouterInv'
  BY <1>1 DEF RouterInv, WiringInv, InFrame, handshake
<1>2. m.id \in Nat /\ toHost \in Seq(AppSays) /\ toApp' \in Seq(HostSays)
  BY <1>1, MessagesSay DEF CoreInv, ChannelInv
<1>3. Response(m.id) \in AppSays
  BY <1>2 DEF AppSays
<1>4. m.kind = "response" => m.method # "router.locationChanged"
  BY <1>1, KindsOf, EmbeddedAssumption DEF HostMethods
<1>5. \/ /\ m.method = "router.locationChanged" /\ proxy' = [proxy EXCEPT !.location = m.arg]
         /\ router' = Notified(router, m.arg)
      \/ /\ m.method # "router.locationChanged" /\ router' = router
         /\ proxy' = proxy \/ proxy' = [proxy EXCEPT !.access = m.arg]
  BY <1>4 DEF AppHandles, m
<1>6. toHost' = toHost \/ toHost' = Append(toHost, Response(m.id))
  BY DEF AppHandles, m
<1>7. /\ m.method = "router.locationChanged" => proxy'.location = m.arg
      /\ m.method # "router.locationChanged" => proxy'.location = proxy.location
  BY <1>5 DEF CopiesInv, Snapshot
<1>8. app.framework = "vue" => router'.current = proxy'.location
  <2>1. app.framework = "vue" => router.current = proxy.location
    BY <1>1 DEF RouterInv
  <2>2. CASE m.method = "router.locationChanged"
    BY <1>5, <1>7, <2>2 DEF Notified, VueNotified, CopiesInv, RouterState
  <2>3. CASE m.method # "router.locationChanged"
    BY <1>5, <1>7, <2>1, <2>3
  <2> QED
    BY <2>2, <2>3
<1>9. ASSUME ~refused PROVE Follows(router', proxy'.location, toApp', toHost')
  <2>1. Follows(router, proxy.location, toApp, toHost)
    BY <1>1, <1>9 DEF RouterInv
  <2>2. /\ m.method # "router.locationChanged" =>
             Follows(router, proxy.location, Tail(toApp), toHost)
        /\ m.method = "router.locationChanged" =>
             Follows(Notified(router, m.arg), m.arg, Tail(toApp), toHost)
    BY <1>1, <2>1, FollowsTold DEF CopiesInv, RouterState
  <2>3. Follows(router', proxy'.location, toApp', toHost)
    BY <1>1, <1>5, <1>7, <2>2
  <2>4. Follows(router', proxy'.location, toApp', Append(toHost, Response(m.id)))
    BY <1>2, <1>3, <2>3, FollowsMore
  <2> QED
    BY <1>6, <2>3, <2>4
<1> QED
  BY <1>1, <1>8, <1>9 DEF RouterInv, InFrame, handshake

\* The handshake: a router starts where its sdk says it is.
LEMMA RouterStarts ==
  ASSUME WiringInv, RouterInv,
         \/ Mount \/ Unmount \/ EmbedStarts \/ HostReadsReady
         \/ HostTimesOut \/ EmbedReadsAck \/ EmbedTimesOut
  PROVE  RouterInv'
<1>1. CASE Mount
  <2>1. CASE InFrame
    BY <1>1, <2>1 DEF Mount, RouterInv, InFrame
  <2>2. CASE ~InFrame
    BY <1>1, <2>2 DEF Mount, RouterInv, InFrame, Fresh, SdkLocation, shell
  <2> QED
    BY <2>1, <2>2
<1>2. CASE Unmount
  BY <1>2 DEF Unmount, RouterInv, InFrame
<1>3. CASE EmbedStarts \/ HostTimesOut \/ EmbedTimesOut
  BY <1>3, RouterAlone DEF EmbedStarts, HostTimesOut, EmbedTimesOut, shell, channel
<1>4. CASE HostReadsReady
  <2>1. PICK r \in ready : HostHears(r)
    BY <1>4 DEF HostReadsReady
  <2>2. UNCHANGED <<app, hist, router, proxy, refused, toApp, toHost>> /\ InFrame
    BY <1>4, <2>1 DEF HostReadsReady, shell, channel, WiringInv
  <2>3. frame' = frame \/ frame' # "connected"
    BY <2>1 DEF HostHears
  <2> QED
    BY <2>2, <2>3, RouterAlone
<1>5. CASE EmbedReadsAck
  <2>1. UNCHANGED <<app, hist, refused, toApp, toHost, mount>> /\ InFrame
    BY <1>5 DEF EmbedReadsAck, shell, channel, WiringInv
  <2>2. CASE frame = "connecting"
    <3>1. proxy' = ack /\ router' = Fresh(ack.location)
      BY <1>5, <2>2 DEF EmbedReadsAck
    <3>2. /\ router'.current = proxy'.location
          /\ Follows(router', proxy'.location, toApp', toHost')
      BY <3>1 DEF Follows, Fresh
    <3> QED
      BY <2>1, <3>2 DEF RouterInv, InFrame
  <2>3. CASE frame # "connecting"
    BY <1>5, <2>1, <2>3, RouterAlone DEF EmbedReadsAck
  <2> QED
    BY <2>2, <2>3
<1> QED
  BY <1>1, <1>2, <1>3, <1>4, <1>5

LEMMA RouterStep == FrameInv /\ RouterInv /\ [Next]_vars => RouterInv'
<1> SUFFICES ASSUME CoreInv, WiringInv, CopiesInv, RouterInv, [Next]_vars PROVE RouterInv'
  BY DEF FrameInv
<1>1. CASE UNCHANGED vars
  BY <1>1, RouterAlone DEF vars, shell, handshake, channel
<1>2. CASE \E a \in Address : PersonOpens(a)
  <2>1. PICK a \in Address : PersonOpens(a)
    BY <1>2
  <2>2. IsHistory(AfterPush(hist, a))
    BY WrittenIsHistory DEF CoreInv
  <2>3. /\ hist' = AfterPush(hist, a) /\ HistoryBecomes(AfterPush(hist, a))
        /\ UNCHANGED <<app, handshake, proxy, refused>>
    BY <2>1 DEF PersonOpens, HistoryBecomes
  <2> QED
    BY <2>2, <2>3, RouterBecomes
<1>3. CASE \E d \in {-1, 1} : PersonTraverses(d)
  <2>1. PICK d \in {-1, 1} : PersonTraverses(d)
    BY <1>3
  <2>2. IsHistory(AfterGo(hist, d))
    BY <2>1, TraversedIsHistory DEF CoreInv, PersonTraverses
  <2>3. /\ hist' = AfterGo(hist, d) /\ HistoryBecomes(AfterGo(hist, d))
        /\ UNCHANGED <<app, handshake, proxy, refused>>
    BY <2>1 DEF PersonTraverses, HistoryBecomes
  <2> QED
    BY <2>2, <2>3, RouterBecomes
<1>4. CASE Traversed
  <2>1. CASE CanGo(hist, -1)
    <3>1. IsHistory(AfterGo(hist, -1))
      BY <2>1, TraversedIsHistory DEF CoreInv
    <3>2. /\ hist' = AfterGo(hist, -1) /\ HistoryBecomes(AfterGo(hist, -1))
          /\ UNCHANGED <<app, handshake, proxy, refused>>
      BY <1>4, <2>1 DEF Traversed, HistoryBecomes
    <3> QED
      BY <3>1, <3>2, RouterBecomes
  <2>2. CASE ~CanGo(hist, -1)
    BY <1>4, <2>2, RouterAlone DEF Traversed, channel, handshake
  <2> QED
    BY <2>1, <2>2
<1>5. CASE \E r \in Rights : AccessChanges(r)
  <2>1. PICK r \in Rights : AccessChanges(r)
    BY <1>5
  <2>2. UNCHANGED <<app, hist, handshake, router, proxy, refused, toHost>>
    BY <2>1 DEF AccessChanges
  <2>3. toApp' = toApp \/ \E m \in HostSays : toApp' = Append(toApp, m)
    <3>1. nextId["host"] \in Nat
      BY DEF CoreInv, ChannelInv, Ends
    <3>2. Request(nextId["host"], "access.changed", r) \in HostSays
      BY <3>1 DEF HostSays
    <3> QED
      BY <2>1, <3>2 DEF AccessChanges, Asked
  <2> QED
    BY <2>2, <2>3, RouterMore
<1>6. CASE \E to \in Paths, replace \in BOOLEAN : AppNavigates(to, replace)
  BY <1>6, RouterNavigates
<1>7. CASE \/ \E method \in {"api.request", "unknown"} : AppRequests(method)
           \/ AppGoesBack
  <2>1. UNCHANGED <<app, hist, handshake, router, proxy, refused, toApp>>
    BY <1>7 DEF AppRequests, AppGoesBack, FrameAsks, shell, channel
  <2>2. \A method \in AppMethods \ {"router.navigate"} :
          Request(nextId["app"], method, None) \in AppSays
    <3>1. nextId["app"] \in Nat
      BY DEF CoreInv, ChannelInv, Ends
    <3> QED
      BY <3>1 DEF AppSays
  <2>3. \/ toHost' = toHost
        \/ \E method \in AppMethods \ {"router.navigate"} :
             toHost' = Append(toHost, Request(nextId["app"], method, None))
    BY <1>7 DEF AppRequests, AppGoesBack, FrameAsks, Asked, AppMethods, channel
  <2> QED
    BY <2>1, <2>2, <2>3, RouterMore
<1>8. CASE HostHandles
  BY <1>8, RouterHost
<1>9. CASE HostSettles
  <2>1. PICK n \in serving : toApp' = Append(toApp, Response(n))
    BY <1>9 DEF HostSettles, HostAnswers
  <2>2. n \in Nat
    BY DEF CoreInv, ChannelInv
  <2>3. Response(n) \in HostSays
    BY <2>2 DEF HostSays
  <2>4. UNCHANGED <<app, hist, handshake, router, proxy, refused, toHost>>
    BY <1>9 DEF HostSettles, shell
  <2> QED
    BY <2>1, <2>3, <2>4, RouterMore
<1>10. CASE AppHandles
  BY <1>10, RouterFrame
<1>11. CASE \/ Mount \/ Unmount \/ EmbedStarts \/ HostReadsReady
            \/ HostTimesOut \/ EmbedReadsAck \/ EmbedTimesOut
  BY <1>11, RouterStarts
<1> QED
  BY <1>1, <1>2, <1>3, <1>4, <1>5, <1>6, <1>7, <1>8, <1>9, <1>10, <1>11 DEF Next

LEMMA RouterCorrect == Spec => []RouterInv
BY RouterInit, RouterStep, FrameCorrect, PTL DEF Spec

\* How an app is built is chosen once.
AppIs == app \in [transport : {"federation", "iframe"}, framework : {"react", "vue"},
                  sound : BOOLEAN]

LEMMA AppStays == Spec => []AppIs
<1>1. Init => AppIs
  BY DEF Init, AppIs
<1>2. AppIs /\ [Next]_vars => AppIs'
  <2> SUFFICES ASSUME [Next]_vars PROVE app' = app
    BY DEF AppIs
  <2> QED
    BY DEF Next, vars, PersonOpens, PersonTraverses, Traversed, AccessChanges, Mount, Unmount,
         EmbedStarts, HostReadsReady, HostTimesOut, EmbedReadsAck, EmbedTimesOut,
         AppNavigates, AppRequests, AppGoesBack, HostHandles, HostSettles, AppHandles
<1> QED
  BY <1>1, <1>2, PTL DEF Spec

(***************************************************************************)
(* The framework's router shows sdk.router.location whenever the port is   *)
(* empty, unless the shell refused a navigation: the flag an adapter       *)
(* raises for the echo of its own navigation never swallows the last word  *)
(* on the place, however many navigations, pushes and echoes are under way *)
(* (createReactRouterHistory.ts:52-59).                                    *)
(***************************************************************************)
THEOREM RoutersFollow == Spec => []RouterFollows
<1>1. AppIs /\ RouterInv => RouterFollows
  <2> SUFFICES ASSUME AppIs, RouterInv, Quiet, ~refused
               PROVE  router.shown = SdkLocation /\ HistoryLocation = SdkLocation
    BY DEF RouterFollows
  <2>1. CASE InFrame
    <3>1. frame = "connected" /\ toApp = <<>> /\ toHost = <<>>
      BY <2>1 DEF Quiet, Alive
    <3>2. Follows(router, proxy.location, <<>>, <<>>)
      BY <2>1, <3>1 DEF RouterInv
    <3>3. router.shown = proxy.location
      BY <3>2 DEF Follows, Echoes, Silent
    <3>4. app.framework = "vue" => router.current = proxy.location
      BY <2>1, <3>1 DEF RouterInv
    <3> QED
      BY <2>1, <3>3, <3>4 DEF AppIs, HistoryLocation, SdkLocation
  <2>2. CASE ~InFrame
    BY <2>2 DEF AppIs, RouterInv, Quiet, HistoryLocation, SdkLocation
  <2> QED
    BY <2>1, <2>2
<1> QED
  BY <1>1, AppStays, RouterCorrect, PTL

-----------------------------------------------------------------------------
(* What the person, the app and the network may use up.                    *)

\* The requests of the app among its messages.
Asking == { m \in AppSays : m.kind = "request" }

(***************************************************************************)
(* Every identifier the shell gives away, every request of the app that is *)
(* under way and every back() the browser still owes is one of the moves   *)
(* and calls that were made.                                               *)
(***************************************************************************)
SpentInv ==
  /\ moves \in 0 .. MaxMoves /\ calls \in 0 .. MaxCalls /\ traversals \in Nat
  /\ refused \in BOOLEAN
  /\ mount \in {"off", "waiting", "mounted", "failed"}
  /\ frame \in {"none", "loading", "connecting", "connected", "gaveUp"}
  /\ ready \in SUBSET {"current", "former"}
  /\ nextId["app"] <= calls
  /\ traversals + CountIn(toHost, Asking) <= calls
  /\ nextId["host"] + traversals + CountIn(toHost, Asking) <= moves + calls

LEMMA NoneIsAsked == CountIn(<<>>, Asking) = 0
<1>1. <<>> \in Seq({})
  OBVIOUS
<1> QED
  BY <1>1, CountsNone

LEMMA SpentInit == Init => SpentInv
<1> SUFFICES ASSUME Init PROVE SpentInv
  OBVIOUS
<1>1. /\ moves = 0 /\ calls = 0 /\ traversals = 0 /\ refused = FALSE
      /\ mount = "off" /\ frame = "none" /\ ready = {}
      /\ nextId["app"] = 0 /\ nextId["host"] = 0
  BY DEF Init, Ends
<1>2. CountIn(toHost, Asking) = 0
  BY NoneIsAsked DEF Init
<1>3. /\ nextId["app"] <= calls /\ traversals + CountIn(toHost, Asking) <= calls
      /\ nextId["host"] + traversals + CountIn(toHost, Asking) <= moves + calls
  BY <1>1, <1>2
<1>4. moves \in 0 .. MaxMoves /\ calls \in 0 .. MaxCalls
  BY <1>1, EmbeddedAssumption
<1> QED
  BY <1>1, <1>3, <1>4 DEF SpentInv

\* What is spent stays within what was used up.
LEMMA SpentWithin ==
  ASSUME CoreInv, CoreInv', SpentInv,
         UNCHANGED <<mount, frame, ready>>, refused' \in BOOLEAN,
         moves' \in moves .. MaxMoves, calls' \in calls .. MaxCalls, traversals' \in Nat,
         nextId'["app"] - nextId["app"] <= calls' - calls,
         traversals' + CountIn(toHost', Asking) - (traversals + CountIn(toHost, Asking))
           <= calls' - calls,
         nextId'["host"] + traversals' + CountIn(toHost', Asking)
           - (nextId["host"] + traversals + CountIn(toHost, Asking))
           <= (moves' - moves) + (calls' - calls)
  PROVE  SpentInv'
<1>1. /\ nextId["app"] \in Nat /\ nextId["host"] \in Nat
      /\ nextId'["app"] \in Nat /\ nextId'["host"] \in Nat
  BY DEF CoreInv, ChannelInv, Ends
<1>2. CountIn(toHost, Asking) \in Nat /\ CountIn(toHost', Asking) \in Nat
  BY PlacesFinite DEF CoreInv, ChannelInv
<1>3. /\ moves' \in 0 .. MaxMoves /\ calls' \in 0 .. MaxCalls
      /\ moves \in Nat /\ calls \in Nat /\ traversals \in Nat
  BY EmbeddedAssumption DEF SpentInv
<1>4. /\ nextId'["app"] <= calls'
      /\ traversals' + CountIn(toHost', Asking) <= calls'
      /\ nextId'["host"] + traversals' + CountIn(toHost', Asking) <= moves' + calls'
  BY <1>1, <1>2, <1>3, EmbeddedAssumption DEF SpentInv
<1> QED
  BY <1>3, <1>4 DEF SpentInv

\* A request takes one identifier of one end.
LEMMA WaitingSpends ==
  ASSUME CoreInv
  PROVE  /\ Waiting("host") => /\ nextId'["host"] = nextId["host"] + 1
                               /\ nextId'["app"] = nextId["app"]
         /\ Waiting("app") => /\ nextId'["app"] = nextId["app"] + 1
                              /\ nextId'["host"] = nextId["host"]
BY DEF CoreInv, ChannelInv, Waiting, Ends

\* A push is one of the person's moves, or of the traversals.
LEMMA SpentPushes ==
  ASSUME CoreInv, CoreInv', SpentInv,
         \/ \E a \in Address : PersonOpens(a)
         \/ \E d \in {-1, 1} : PersonTraverses(d)
         \/ \E r \in Rights : AccessChanges(r)
         \/ Traversed
  PROVE  SpentInv'
<1>1. /\ UNCHANGED <<mount, frame, ready, refused, calls, toHost>>
      /\ nextId' = nextId \/ Waiting("host")
      /\ \/ moves < MaxMoves /\ moves' = moves + 1 /\ traversals' = traversals
         \/ moves' = moves /\ traversals > 0 /\ traversals' = traversals - 1
  BY DEF PersonOpens, PersonTraverses, AccessChanges, Traversed, HistoryBecomes, handshake,
       bounds, channel
<1>2. /\ nextId["app"] \in Nat /\ nextId["host"] \in Nat
      /\ nextId'["app"] = nextId["app"]
      /\ nextId'["host"] \in {nextId["host"], nextId["host"] + 1}
  BY <1>1, WaitingSpends DEF CoreInv, ChannelInv, Ends
<1>3. CountIn(toHost, Asking) \in Nat /\ CountIn(toHost', Asking) = CountIn(toHost, Asking)
  BY <1>1, PlacesFinite DEF CoreInv, ChannelInv
<1>4. moves \in 0 .. MaxMoves /\ calls \in 0 .. MaxCalls /\ traversals \in Nat /\ refused \in BOOLEAN
  BY DEF SpentInv
<1> QED
  BY <1>1, <1>2, <1>3, <1>4, SpentWithin, EmbeddedAssumption

\* A request of the app's is one of its calls.
LEMMA SpentAsks ==
  ASSUME CoreInv, CoreInv', SpentInv,
         \/ \E to \in Paths, replace \in BOOLEAN : AppNavigates(to, replace)
         \/ \E method \in {"api.request", "unknown"} : AppRequests(method)
         \/ AppGoesBack
  PROVE  SpentInv'
<1>1. /\ UNCHANGED <<mount, frame, ready, moves>>
      /\ calls < MaxCalls /\ calls' = calls + 1
  BY DEF AppNavigates, AppRequests, AppGoesBack, handshake
<1>2. moves \in 0 .. MaxMoves /\ calls \in 0 .. MaxCalls /\ traversals \in Nat /\ refused \in BOOLEAN
  BY DEF SpentInv
<1>3. refused' \in BOOLEAN
  BY <1>2 DEF AppNavigates, FrameNavigates, FederatedNavigates, AppRequests, AppGoesBack,
       OwnsCurrentRoute
<1>4. \/ /\ UNCHANGED <<traversals, nextId, toHost>>
      \/ /\ UNCHANGED <<nextId, toHost>> /\ traversals' = traversals + 1
      \/ /\ traversals' = traversals /\ Waiting("app")
         /\ \E method, arg : toHost' = Append(toHost, Request(nextId["app"], method, arg))
  BY DEF AppNavigates, FrameNavigates, FederatedNavigates, AppRequests, AppGoesBack, FrameAsks,
       Asked, shell, channel
<1>5. CountIn(toHost, Asking) \in Nat /\ CountIn(toHost', Asking) \in Nat
  BY PlacesFinite DEF CoreInv, ChannelInv
<1>6. nextId["app"] \in Nat /\ nextId["host"] \in Nat
  BY DEF CoreInv, ChannelInv, Ends
<1>7. CASE /\ UNCHANGED <<nextId, toHost>> /\ traversals' \in {traversals, traversals + 1}
  <2>1. /\ nextId'["app"] = nextId["app"] /\ nextId'["host"] = nextId["host"]
        /\ CountIn(toHost', Asking) = CountIn(toHost, Asking)
    BY <1>7
  <2> QED
    BY <1>1, <1>2, <1>3, <1>5, <1>6, <1>7, <2>1, SpentWithin, EmbeddedAssumption
<1>8. CASE /\ traversals' = traversals /\ Waiting("app")
           /\ \E method, arg : toHost' = Append(toHost, Request(nextId["app"], method, arg))
  <2>1. PICK method, arg : toHost' = Append(toHost, Request(nextId["app"], method, arg))
    BY <1>8
  <2> DEFINE m == Request(nextId["app"], method, arg)
  <2>2. m \in AppSays
    <3>1. /\ toHost' \in Seq(AppSays) /\ toHost \in Seq(AppSays)
      BY DEF CoreInv, ChannelInv
    <3>2. Len(toHost) + 1 \in 1 .. Len(toHost') /\ toHost'[Len(toHost) + 1] = m
      BY <2>1, <3>1
    <3> QED
      BY <3>1, <3>2
  <2> HIDE DEF m
  <2>3. CountIn(toHost', Asking) = CountIn(toHost, Asking) + (IF m \in Asking THEN 1 ELSE 0)
    BY <2>1, <2>2, CountAppend DEF CoreInv, ChannelInv, m
  <2>4. CountIn(toHost', Asking) <= CountIn(toHost, Asking) + 1
    BY <1>5, <2>3
  <2>5. nextId'["app"] = nextId["app"] + 1 /\ nextId'["host"] = nextId["host"]
    BY <1>8, WaitingSpends
  <2> QED
    BY <1>1, <1>2, <1>3, <1>5, <1>6, <1>8, <2>4, <2>5, SpentWithin, EmbeddedAssumption
<1> QED
  BY <1>4, <1>7, <1>8

\* What the shell does with a request of the app's uses that request up.
LEMMA SpentHost ==
  ASSUME CoreInv, CoreInv', SpentInv, HostHandles
  PROVE  SpentInv'
<1> DEFINE m == Head(toHost)
<1>1. toHost # <<>> /\ toHost' = Tail(toHost) /\ toHost \in Seq(AppSays) /\ m \in AppSays
  BY DEF HostHandles, CoreInv, ChannelInv
<1>2. UNCHANGED <<mount, frame, ready, moves, calls>>
  BY DEF HostHandles, handshake, bounds
<1>3. moves \in 0 .. MaxMoves /\ calls \in 0 .. MaxCalls /\ traversals \in Nat /\ refused \in BOOLEAN
  BY DEF SpentInv
<1>4. CountIn(toHost, Asking) = CountIn(toHost', Asking) + (IF m \in Asking THEN 1 ELSE 0)
  BY <1>1, CountTail
<1> HIDE DEF m
<1>5. CountIn(toHost, Asking) \in Nat /\ CountIn(toHost', Asking) \in Nat
  BY PlacesFinite DEF CoreInv, ChannelInv
<1>6. nextId["app"] \in Nat /\ nextId["host"] \in Nat
  BY DEF CoreInv, ChannelInv, Ends
<1>7. m.method \in AppMethods => m \in Asking
  BY <1>1, KindsOf, EmbeddedAssumption DEF Asking
<1>8. \/ UNCHANGED <<traversals, nextId, refused>>
      \/ m \in Asking /\ traversals' = traversals + 1 /\ UNCHANGED <<nextId, refused>>
      \/ m \in Asking /\ UNCHANGED traversals /\ Waiting("host") /\ UNCHANGED refused
      \/ m \in Asking /\ UNCHANGED <<traversals, nextId>> /\ refused' = TRUE
  BY <1>7 DEF HostHandles, HostNavigates, AppMethods, m
<1>9. refused' \in BOOLEAN
  BY <1>3, <1>8
<1>10. CASE UNCHANGED <<traversals, nextId>>
  <2>1. /\ nextId'["app"] = nextId["app"] /\ nextId'["host"] = nextId["host"]
        /\ CountIn(toHost', Asking) <= CountIn(toHost, Asking)
    BY <1>4, <1>5, <1>10
  <2> QED
    BY <1>2, <1>3, <1>5, <1>6, <1>9, <1>10, <2>1, SpentWithin, EmbeddedAssumption
<1>11. CASE m \in Asking /\ traversals' = traversals + 1 /\ UNCHANGED nextId
  <2>1. /\ nextId'["app"] = nextId["app"] /\ nextId'["host"] = nextId["host"]
        /\ CountIn(toHost', Asking) + 1 = CountIn(toHost, Asking)
    BY <1>4, <1>5, <1>11
  <2> QED
    BY <1>2, <1>3, <1>5, <1>6, <1>9, <1>11, <2>1, SpentWithin, EmbeddedAssumption
<1>12. CASE m \in Asking /\ UNCHANGED traversals /\ Waiting("host")
  <2>1. /\ nextId'["app"] = nextId["app"] /\ nextId'["host"] = nextId["host"] + 1
        /\ CountIn(toHost', Asking) + 1 = CountIn(toHost, Asking)
    BY <1>4, <1>5, <1>12, WaitingSpends
  <2> QED
    BY <1>2, <1>3, <1>5, <1>6, <1>9, <1>12, <2>1, SpentWithin, EmbeddedAssumption
<1> QED
  BY <1>8, <1>10, <1>11, <1>12

\* The frame's answers are no requests.
LEMMA SpentFrame ==
  ASSUME CoreInv, CoreInv', SpentInv, AppHandles \/ HostSettles
  PROVE  SpentInv'
<1>1. UNCHANGED <<mount, frame, ready, moves, calls, traversals, nextId, refused>>
  BY DEF AppHandles, HostSettles, handshake, bounds, shell
<1>2. \/ toHost' = toHost
      \/ toApp # <<>> /\ toHost' = Append(toHost, Response(Head(toApp).id))
  BY DEF AppHandles, HostSettles
<1>3. CountIn(toHost', Asking) = CountIn(toHost, Asking)
  <2>1. CASE toHost' = toHost
    BY <2>1
  <2>2. CASE toApp # <<>> /\ toHost' = Append(toHost, Response(Head(toApp).id))
    <3>1. Head(toApp).id \in Nat
      <4>1. Head(toApp) \in HostSays
        BY <2>2 DEF CoreInv, ChannelInv
      <4> QED
        BY <4>1, MessagesSay
    <3>2. Response(Head(toApp).id) \in AppSays \ Asking
      BY <3>1 DEF AppSays, Asking, Response
    <3>3. CountIn(toHost, Asking) \in Nat
      BY PlacesFinite DEF CoreInv, ChannelInv
    <3> QED
      BY <2>2, <3>2, <3>3, CountAppend DEF CoreInv, ChannelInv
  <2> QED
    BY <1>2, <2>1, <2>2
<1>4. moves \in 0 .. MaxMoves /\ calls \in 0 .. MaxCalls /\ traversals \in Nat /\ refused \in BOOLEAN
  BY DEF SpentInv
<1>5. /\ nextId["app"] \in Nat /\ nextId["host"] \in Nat
      /\ nextId'["app"] = nextId["app"] /\ nextId'["host"] = nextId["host"]
  BY <1>1 DEF CoreInv, ChannelInv, Ends
<1>6. CountIn(toHost, Asking) \in Nat
  BY PlacesFinite DEF CoreInv, ChannelInv
<1> QED
  BY <1>1, <1>3, <1>4, <1>5, <1>6, SpentWithin, EmbeddedAssumption

LEMMA SpentStep == CoreInv /\ SpentInv /\ [Next]_vars => SpentInv'
<1> SUFFICES ASSUME CoreInv, SpentInv, [Next]_vars PROVE SpentInv'
  OBVIOUS
<1>1. CoreInv'
  BY CoreStep
<1>2. CASE UNCHANGED vars
  BY <1>2 DEF vars, shell, handshake, channel, bounds, SpentInv
<1>3. CASE Mount \/ Unmount
  <2>1. /\ toHost' = <<>> /\ nextId' = [e \in Ends |-> 0]
        /\ calls' = calls /\ traversals' = traversals
        /\ \/ moves < MaxMoves /\ moves' = moves + 1
           \/ moves' = moves
        /\ refused' \in {refused, FALSE}
        /\ mount' \in {"off", "waiting", "mounted"} /\ frame' \in {frame, "none", "loading"}
        /\ ready' \in {ready, {"former"}, {}}
    BY <1>3 DEF Mount, Unmount, NoChannel, shell, bounds
  <2>2. nextId'["host"] = 0 /\ nextId'["app"] = 0
    BY <2>1 DEF Ends
  <2>3. CountIn(toHost', Asking) = 0 /\ CountIn(toHost, Asking) \in Nat
    BY <2>1, NoneIsAsked, PlacesFinite DEF CoreInv, ChannelInv
  <2>4. moves' \in 0 .. MaxMoves /\ calls' \in 0 .. MaxCalls
    BY <2>1, EmbeddedAssumption DEF SpentInv
  <2>5. moves' \in Nat /\ calls' \in Nat /\ traversals' \in Nat
    BY <2>1, <2>4, EmbeddedAssumption DEF SpentInv
  <2>6. traversals' <= calls'
    <3>1. calls \in Nat /\ traversals \in Nat /\ traversals + CountIn(toHost, Asking) <= calls
      BY <2>1, <2>5 DEF SpentInv
    <3> QED
      BY <2>1, <2>3, <3>1
  <2>7. /\ nextId'["app"] <= calls'
        /\ traversals' + CountIn(toHost', Asking) <= calls'
        /\ nextId'["host"] + traversals' + CountIn(toHost', Asking) <= moves' + calls'
    <3>1. \A t, c, m \in Nat : t <= c => 0 <= c /\ t + 0 <= c /\ 0 + t + 0 <= m + c
      OBVIOUS
    <3>2. CountIn(toHost', Asking) = 0
      BY <2>3
    <3>3. 0 <= calls' /\ traversals' + 0 <= calls' /\ 0 + traversals' + 0 <= moves' + calls'
      BY <2>5, <2>6, <3>1
    <3> QED
      BY <2>2, <3>2, <3>3
  <2>8. /\ refused' \in BOOLEAN
        /\ mount' \in {"off", "waiting", "mounted", "failed"}
        /\ frame' \in {"none", "loading", "connecting", "connected", "gaveUp"}
        /\ ready' \in SUBSET {"current", "former"}
    BY <2>1 DEF SpentInv
  <2> QED
    BY <2>4, <2>5, <2>7, <2>8 DEF SpentInv
<1>4. CASE EmbedStarts \/ HostReadsReady \/ HostTimesOut \/ EmbedReadsAck \/ EmbedTimesOut
  <2>1. /\ UNCHANGED <<moves, calls, traversals, refused, nextId, toHost>>
        /\ mount' \in {mount, "mounted", "failed"}
        /\ frame' \in {frame, "connecting", "none", "connected", "gaveUp"}
        /\ ready' \subseteq ready \cup {"current"}
    BY <1>4 DEF EmbedStarts, HostReadsReady, HostHears, HostTimesOut, EmbedReadsAck,
         EmbedTimesOut, shell, channel, bounds
  <2> QED
    BY <2>1 DEF SpentInv
<1>5. CASE \/ \E a \in Address : PersonOpens(a)
           \/ \E d \in {-1, 1} : PersonTraverses(d)
           \/ \E r \in Rights : AccessChanges(r)
           \/ Traversed
  BY <1>1, <1>5, SpentPushes
<1>6. CASE \/ \E to \in Paths, replace \in BOOLEAN : AppNavigates(to, replace)
           \/ \E method \in {"api.request", "unknown"} : AppRequests(method)
           \/ AppGoesBack
  BY <1>1, <1>6, SpentAsks
<1>7. CASE HostHandles \/ HostSettles \/ AppHandles
  BY <1>1, <1>7, SpentHost, SpentFrame
<1> QED
  BY <1>2, <1>3, <1>4, <1>5, <1>6, <1>7 DEF Next

\* The messages of a queue that balance ask, or answer, who waits.
LEMMA MessagesAwaited ==
  ASSUME CoreInv, AnswerInv
  PROVE  /\ \A i \in 1 .. Len(toHost) :
              toHost[i].id \in pending[IF toHost[i].kind = "request" THEN "app" ELSE "host"]
         /\ \A i \in 1 .. Len(toApp) :
              toApp[i].id \in pending[IF toApp[i].kind = "request" THEN "host" ELSE "app"]
         /\ serving \subseteq pending["app"]
<1>1. /\ \A i \in 1 .. Len(toHost) : toHost[i] \in AppSays
      /\ \A i \in 1 .. Len(toApp) : toApp[i] \in HostSays
      /\ serving \subseteq Nat
  BY DEF CoreInv, ChannelInv
<1>2. ASSUME NEW id \in Nat
      PROVE  /\ Balanced(id)
             /\ CountIn(toHost, Of("request", id)) \in Nat /\ CountIn(toApp, Of("request", id)) \in Nat
             /\ CountIn(toHost, Of("response", id)) \in Nat /\ CountIn(toApp, Of("response", id)) \in Nat
  BY CountsAreNat DEF CoreInv, AnswerInv
<1>3. ASSUME NEW i \in 1 .. Len(toHost)
      PROVE  toHost[i].id \in pending[IF toHost[i].kind = "request" THEN "app" ELSE "host"]
  <2> DEFINE m == toHost[i]
  <2>1. m.id \in Nat /\ m.kind \in {"request", "response"} /\ m \in Of(m.kind, m.id)
    BY <1>1, MessagesSay, KindsOf DEF Of
  <2>2. CountIn(toHost, Of(m.kind, m.id)) # 0
    BY <2>1, CountsNone DEF CoreInv, ChannelInv
  <2> HIDE DEF m
  <2>3. /\ Balanced(m.id)
        /\ CountIn(toHost, Of("request", m.id)) \in Nat /\ CountIn(toApp, Of("request", m.id)) \in Nat
        /\ CountIn(toHost, Of("response", m.id)) \in Nat /\ CountIn(toApp, Of("response", m.id)) \in Nat
    BY <1>2, <2>1
  <2>4. CASE m.kind = "request"
    <3>1. CountIn(toHost, Of("request", m.id)) # 0
      BY <2>2, <2>4
    <3>2. m.id \in pending["app"]
      BY <2>3, <3>1 DEF Balanced
    <3> QED
      BY <2>4, <3>2 DEF m
  <2>5. CASE m.kind = "response"
    <3>1. CountIn(toHost, Of("response", m.id)) # 0
      BY <2>2, <2>5
    <3>2. m.id \in pending["host"]
      BY <2>3, <3>1 DEF Balanced
    <3> QED
      BY <2>5, <3>2 DEF m
  <2> QED
    BY <2>1, <2>4, <2>5
<1>4. ASSUME NEW i \in 1 .. Len(toApp)
      PROVE  toApp[i].id \in pending[IF toApp[i].kind = "request" THEN "host" ELSE "app"]
  <2> DEFINE m == toApp[i]
  <2>1. m.id \in Nat /\ m.kind \in {"request", "response"} /\ m \in Of(m.kind, m.id)
    BY <1>1, MessagesSay, KindsOf DEF Of
  <2>2. CountIn(toApp, Of(m.kind, m.id)) # 0
    BY <2>1, CountsNone DEF CoreInv, ChannelInv
  <2> HIDE DEF m
  <2>3. /\ Balanced(m.id)
        /\ CountIn(toHost, Of("request", m.id)) \in Nat /\ CountIn(toApp, Of("request", m.id)) \in Nat
        /\ CountIn(toHost, Of("response", m.id)) \in Nat /\ CountIn(toApp, Of("response", m.id)) \in Nat
    BY <1>2, <2>1
  <2>4. CASE m.kind = "request"
    <3>1. CountIn(toApp, Of("request", m.id)) # 0
      BY <2>2, <2>4
    <3>2. m.id \in pending["host"]
      BY <2>3, <3>1 DEF Balanced
    <3> QED
      BY <2>4, <3>2 DEF m
  <2>5. CASE m.kind = "response"
    <3>1. CountIn(toApp, Of("response", m.id)) # 0
      BY <2>2, <2>5
    <3>2. m.id \in pending["app"]
      BY <2>3, <3>1 DEF Balanced
    <3> QED
      BY <2>5, <3>2 DEF m
  <2> QED
    BY <2>1, <2>4, <2>5
<1>5. ASSUME NEW n \in serving PROVE n \in pending["app"]
  BY <1>1, <1>2 DEF Balanced
<1> QED
  BY <1>3, <1>4, <1>5

(***************************************************************************)
(* Every variable stays within its type: an identifier is never used up    *)
(* faster than the moves and calls there are, on either side, and what is  *)
(* on the port asks or answers one that was given away                     *)
(* (createMessagePortChannel.ts:39-66).                                    *)
(***************************************************************************)
THEOREM EmbeddedTypeCorrect == Spec => []TypeOK
<1>1. AppIs /\ CoreInv /\ CopiesInv /\ AnswerInv /\ SpentInv => TypeOK
  <2> SUFFICES ASSUME AppIs, CoreInv, CopiesInv, AnswerInv, SpentInv PROVE TypeOK
    OBVIOUS
  <2>1. /\ nextId \in [Ends -> Nat] /\ pending \in [Ends -> SUBSET Nat]
        /\ \A end \in Ends : \A id \in pending[end] : id < nextId[end]
        /\ "host" \in Ends /\ "app" \in Ends
    BY DEF CoreInv, ChannelInv, AnswerInv, Ends
  <2>2. CountIn(toHost, Asking) \in Nat
    BY PlacesFinite DEF CoreInv, ChannelInv
  <2>3. \A end \in Ends : nextId[end] \in Ids
    <3>1. nextId["app"] \in Nat /\ nextId["host"] \in Nat
      BY <2>1
    <3>2. nextId["app"] \in Ids /\ nextId["host"] \in Ids
      BY <2>2, <3>1, EmbeddedAssumption DEF SpentInv, Ids
    <3> QED
      BY <3>2 DEF Ends
  <2>4. nextId \in [Ends -> Ids]
    BY <2>1, <2>3
  <2>5. \A end \in Ends : pending[end] \subseteq Ids
    <3> SUFFICES ASSUME NEW end \in Ends, NEW id \in pending[end] PROVE id \in Ids
      OBVIOUS
    <3>1. id \in Nat /\ id < nextId[end] /\ nextId[end] \in Ids
      BY <2>1, <2>3
    <3> QED
      BY <3>1, EmbeddedAssumption DEF Ids
  <2>6. pending \in [Ends -> SUBSET Ids]
    BY <2>1, <2>5
  <2>7. /\ \A i \in 1 .. Len(toHost) : toHost[i] \in AppSays /\ toHost[i].id \in Ids
        /\ \A i \in 1 .. Len(toApp) : toApp[i] \in HostSays /\ toApp[i].id \in Ids
        /\ serving \subseteq Ids
    <3>1. /\ \A i \in 1 .. Len(toHost) : toHost[i] \in AppSays
          /\ \A i \in 1 .. Len(toApp) : toApp[i] \in HostSays
      BY DEF CoreInv, ChannelInv
    <3> QED
      BY <2>1, <2>5, <3>1, MessagesAwaited
  <2>8. \A q \in {toApp, toHost} : \A i \in 1 .. Len(q) :
          /\ q[i].kind \in {"request", "response"} /\ q[i].id \in Ids
          /\ q[i].kind = "request" => q[i].method \in AppMethods \cup HostMethods
    BY <2>7, KindsOf
  <2>9. traversals \in 0 .. MaxCalls
    BY <2>2, EmbeddedAssumption DEF SpentInv
  <2>10. hist.entries \in Seq(Address) /\ hist.pos \in 1 .. Len(hist.entries) /\ access \in Rights
    BY DEF CoreInv, IsHistory
  <2> QED
    BY <2>4, <2>6, <2>7, <2>8, <2>9, <2>10 DEF TypeOK, AppIs, CopiesInv, RouterState, SpentInv
<1>2. Spec => []SpentInv
  BY SpentInit, SpentStep, CoreCorrect, PTL DEF Spec
<1>3. Spec => []AnswerInv
  BY AnswerInit, AnswerStep, CoreCorrect, PTL DEF Spec
<1> QED
  BY <1>1, <1>2, <1>3, AppStays, FrameCorrect, CoreCorrect, PTL DEF FrameInv
=============================================================================
