----------------------------- MODULE LiveAccess -----------------------------
(***************************************************************************)
(* From a change in identity-service to the shell of one open tab: the     *)
(* tab's AccessTracker, the BFF with its introspection cache, the webhook  *)
(* and the SSE stream, for one user and one household.  The question is    *)
(* whether the tab ends up showing what identity-service says.             *)
(*                                                                         *)
(* The tracker is AccessTracker, step for step.  The BFF's part is that of *)
(* BffAccess and AccessStream, reduced to what one tab sees of it: both    *)
(* GET /access and the opening of a stream go through loadHouseholdAccess, *)
(* and a stream delivers in order what was published while subscribed      *)
(* (AccessStream!InOrder).                                                 *)
(***************************************************************************)
EXTENDS Naturals, FiniteSets

CONSTANTS Hid, Loads, Streams, None,
          MaxVersion,    \* bound: changes of the household
          MaxFailures    \* bound: failed loads, drops and restarts

ASSUME LiveAssumption ==
  /\ Loads \cap Streams = {}
  /\ MaxVersion \in Nat \ {0} /\ MaxFailures \in Nat

VARIABLES
  hid, snapshot, status, generation, loads, streams, source, timers,
  reconnectTimer, ended,   \* the tracker
  version,   \* identity-service: version of the household, its content
  webhooks,  \* versions whose access.changed is on its way
  cached,    \* BFF: the cache entry's version, 0 when there is none
  known,     \* BFF: the newest version it was told of
  call,      \* BFF: how far each request to it is
  events,    \* access.changed published to a stream, not yet received
  failures,  \* used up of MaxFailures
  older,     \* loads in flight when a load was started
  late,      \* loads in flight that were started before an answered one
  reordered, missed, overtaken   \* the races that happened

tracker == <<hid, snapshot, status, generation, loads, streams, source, timers,
             reconnectTimer, ended>>

races == <<older, late, reordered, missed, overtaken>>

vars == <<tracker, version, webhooks, cached, known, call, events, failures, races>>

\* The tracker's GET /access answers are versions; it shows one household.
Tracker == INSTANCE AccessTracker WITH
             Hids <- {Hid}, Contents <- 1 .. MaxVersion, MaxGeneration <- 1

(***************************************************************************)
(* How far loadHouseholdAccess is for a request: sent to the BFF, asking   *)
(* identity-service, holding its answer, done; for a stream done means     *)
(* subscribed.  A request the BFF lost with its process only fails.        *)
(***************************************************************************)
Stages == {"none", "sent", "asking", "read", "done", "lost"}

Requests == Loads \cup Streams

TypeOK ==
  /\ Tracker!TypeOK
  /\ version \in 1 .. MaxVersion
  /\ webhooks \subseteq 1 .. MaxVersion
  /\ cached \in 0 .. MaxVersion /\ known \in 0 .. MaxVersion
  /\ call \in [Requests -> [at : Stages, ver : 0 .. MaxVersion]]
  /\ events \in [Streams -> Nat]
  /\ failures \in 0 .. MaxFailures
  /\ older \in [Loads -> SUBSET Loads] /\ late \subseteq Loads
  /\ {reordered, missed, overtaken} \subseteq BOOLEAN

Idle == [at |-> "none", ver |-> 0]
Sent == [at |-> "sent", ver |-> 0]

Init ==
  /\ Tracker!Init
  /\ version = 1 /\ webhooks = {} /\ cached = 0 /\ known = 0
  /\ call = [r \in Requests |-> Idle]
  /\ events = [s \in Streams |-> 0]
  /\ failures = 0
  /\ older = [l \in Loads |-> {}] /\ late = {}
  /\ reordered = FALSE /\ missed = FALSE /\ overtaken = FALSE

-----------------------------------------------------------------------------
(***************************************************************************)
(* What a step of the tracker sends to the BFF: the loads it started and   *)
(* the stream it created, and what it no longer waits for.                 *)
(***************************************************************************)
Busy == {l \in Loads : loads[l].busy}

Started == {l \in Loads : ~loads[l].busy /\ loads'[l].busy}

Created == {s \in Streams : streams[s].state = "closed" /\ streams'[s].state # "closed"}

Send ==
  /\ call' = [r \in Requests |->
                IF r \in Started \cup Created THEN Sent
                ELSE IF r \in Loads /\ ~loads'[r].busy THEN Idle
                ELSE IF r \in Streams /\ streams'[r].state = "closed" THEN Idle
                ELSE call[r]]
  /\ older' = [l \in Loads |-> IF l \in Started THEN Busy ELSE older[l]]

ServerUnchanged == UNCHANGED <<version, webhooks, cached, known>>

\* HostChrome's effect, once.
OpenHousehold ==
  /\ Tracker!SetHid(Hid)
  /\ Send
  /\ ServerUnchanged
  /\ UNCHANGED <<events, failures, late, reordered, missed, overtaken>>

\* Retry, when access could not be loaded.
Refresh ==
  /\ status = "error"
  /\ Tracker!Refresh
  /\ Send
  /\ ServerUnchanged
  /\ UNCHANGED <<events, failures, late, reordered, missed, overtaken>>

\* An answer is out of order when a load started later was answered before.
NoteOrder(l) ==
  /\ reordered' = (reordered \/ l \in late)
  /\ late' = (late \cup (older[l] \cap Busy)) \ {l}

LoadSucceeds(l) ==
  /\ call[l].at = "done"
  /\ Tracker!LoadSucceeds(l, call[l].ver)
  /\ Send /\ NoteOrder(l)
  /\ ServerUnchanged
  /\ UNCHANGED <<events, failures, missed, overtaken>>

\* The connection, the BFF or identity-service fails the request.
LoadFails(l) ==
  /\ \/ call[l].at = "lost" /\ UNCHANGED failures
     \/ failures < MaxFailures /\ failures' = failures + 1
  /\ Tracker!LoadFails(l)
  /\ Send /\ NoteOrder(l)
  /\ ServerUnchanged
  /\ UNCHANGED <<events, missed, overtaken>>

Ready(s) ==
  /\ call[s].at = "done"
  /\ Tracker!Ready(s)
  /\ Send
  /\ ServerUnchanged
  /\ UNCHANGED <<events, failures, late, reordered, missed, overtaken>>

AccessChanged(s) ==
  /\ events[s] > 0
  /\ Tracker!AccessChanged(s)
  /\ Send
  /\ events' = [events EXCEPT ![s] = @ - 1]
  /\ ServerUnchanged
  /\ UNCHANGED <<failures, late, reordered, missed, overtaken>>

TimerFires(s) ==
  /\ Tracker!TimerFires(s)
  /\ Send
  /\ ServerUnchanged
  /\ UNCHANGED <<events, failures, late, reordered, missed, overtaken>>

(***************************************************************************)
(* The stream breaks, before or after "ready"; the browser asks again.     *)
(* Events on their way are lost, for good when no "ready" came before.     *)
(***************************************************************************)
Reconnects(s) ==
  /\ call' = [call EXCEPT ![s] = Sent]
  /\ events' = [events EXCEPT ![s] = 0]
  /\ missed' = (missed \/ (streams[s].ready = 0 /\ events[s] > 0))

Dropped(s) ==
  /\ failures < MaxFailures
  /\ failures' = failures + 1
  /\ \/ Tracker!Dropped(s)
     \/ streams[s].state = "connecting" /\ UNCHANGED tracker
  /\ Reconnects(s)
  /\ ServerUnchanged
  /\ UNCHANGED <<older, late, reordered, overtaken>>

\* A refused stream: the BFF could not load the user's access.
GivesUp(s) ==
  /\ failures < MaxFailures
  /\ failures' = failures + 1
  /\ call[s].at # "done"
  /\ Tracker!GivesUp(s)
  /\ Send
  /\ ServerUnchanged
  /\ UNCHANGED <<events, late, reordered, missed, overtaken>>

-----------------------------------------------------------------------------
(* identity-service and the BFF.                                           *)

Change ==
  /\ version < MaxVersion
  /\ version' = version + 1
  /\ webhooks' = webhooks \cup {version'}
  /\ UNCHANGED <<tracker, cached, known, call, events, failures, races>>

Subscribed(s) == call[s].at = "done"

\* invalidate, then publish.
DeliverWebhook(v) ==
  /\ v \in webhooks
  /\ webhooks' = webhooks \ {v}
  /\ cached' = 0
  /\ known' = IF known < v THEN v ELSE known
  /\ events' = [s \in Streams |-> IF Subscribed(s) THEN events[s] + 1 ELSE events[s]]
  /\ missed' = (missed \/ \E s \in Streams : /\ streams[s].state = "connecting"
                                             /\ streams[s].ready = 0
                                             /\ ~Subscribed(s))
  /\ UNCHANGED <<tracker, version, call, failures, older, late, reordered, overtaken>>

Expire ==
  /\ cached # 0
  /\ cached' = 0
  /\ UNCHANGED <<tracker, version, webhooks, known, call, events, failures, races>>

Hits(r) ==
  /\ call[r].at = "sent"
  /\ cached # 0
  /\ call' = [call EXCEPT ![r] = [at |-> "done", ver |-> cached]]
  /\ UNCHANGED <<tracker, version, webhooks, cached, known, events, failures, races>>

Asks(r) ==
  /\ call[r].at = "sent"
  /\ cached = 0
  /\ call' = [call EXCEPT ![r].at = "asking"]
  /\ UNCHANGED <<tracker, version, webhooks, cached, known, events, failures, races>>

IdentityReads(r) ==
  /\ call[r].at = "asking"
  /\ call' = [call EXCEPT ![r] = [at |-> "read", ver |-> version]]
  /\ UNCHANGED <<tracker, version, webhooks, cached, known, events, failures, races>>

Stores(r) ==
  /\ call[r].at = "read"
  /\ cached' = call[r].ver
  /\ overtaken' = (overtaken \/ call[r].ver < known)
  /\ call' = [call EXCEPT ![r].at = "done"]
  /\ UNCHANGED <<tracker, version, webhooks, known, events, failures, older, late,
                 reordered, missed>>

\* The BFF restarts: cache, hub and requests are gone, streams break.
Restart ==
  /\ failures < MaxFailures
  /\ failures' = failures + 1
  /\ cached' = 0 /\ known' = 0
  /\ \E s \in Streams :
       /\ streams[s].state # "closed"
       /\ \/ Tracker!Dropped(s)
          \/ streams[s].state = "connecting" /\ UNCHANGED tracker
       /\ events' = [events EXCEPT ![s] = 0]
       /\ missed' = (missed \/ (streams[s].ready = 0 /\ events[s] > 0))
       /\ call' = [r \in Requests |->
                     IF r = s THEN Sent
                     ELSE IF call[r].at # "none" THEN [at |-> "lost", ver |-> 0]
                     ELSE call[r]]
  /\ UNCHANGED <<version, webhooks, older, late, reordered, overtaken>>

-----------------------------------------------------------------------------
TabStep ==
  \/ OpenHousehold
  \/ \E l \in Loads : LoadSucceeds(l) \/ LoadFails(l)
  \/ \E s \in Streams : Ready(s) \/ AccessChanged(s) \/ TimerFires(s)

BffStep(r) == Hits(r) \/ Asks(r) \/ IdentityReads(r) \/ Stores(r)

Next ==
  \/ TabStep
  \/ Refresh
  \/ \E s \in Streams : Dropped(s) \/ GivesUp(s)
  \/ \E r \in Requests : BffStep(r)
  \/ \E v \in webhooks : DeliverWebhook(v)
  \/ Change \/ Expire \/ Restart

(***************************************************************************)
(* The tab's callbacks run, the BFF and identity-service answer, webhooks  *)
(* arrive.  Nothing makes the household change, an entry expire, a user    *)
(* retry or anything fail.                                                 *)
(***************************************************************************)
Fairness ==
  /\ WF_vars(OpenHousehold)
  /\ \A l \in Loads : WF_vars(LoadSucceeds(l) \/ LoadFails(l))
  /\ \A s \in Streams : WF_vars(Ready(s)) /\ WF_vars(AccessChanged(s)) /\ WF_vars(TimerFires(s))
  /\ \A r \in Requests : WF_vars(BffStep(r))
  /\ \A v \in 1 .. MaxVersion : WF_vars(DeliverWebhook(v))

Spec == Init /\ [][Next]_vars /\ Fairness

-----------------------------------------------------------------------------
(* Properties.                                                             *)

\* The shell shows an access that is not the current one.
Stale == status = "ready" /\ snapshot.content # version

(***************************************************************************)
(* "kept live": once the household stops changing, the tab comes to show   *)
(* its current access, or that it could not be loaded, through drops,      *)
(* failures and restarts - unless one of three races happened: answers to  *)
(* two loads in the wrong order, a change before the stream was first      *)
(* subscribed, or an introspection stored after the webhook that made it   *)
(* obsolete.                                                               *)
(***************************************************************************)
KeptLive == <>[](~Stale \/ reordered \/ missed \/ overtaken)

(***************************************************************************)
(* A tab whose access could not be loaded, or was never answered, is not   *)
(* left loading: the shell always comes to an answer or an error.          *)
(***************************************************************************)
NeverLoadsForever == []<>(status \in {"ready", "forbidden", "error"})
=============================================================================
