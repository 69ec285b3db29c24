--------------------------- MODULE AccessTracker ---------------------------
(***************************************************************************)
(* The shell's view of the user's access in the household that is open     *)
(* (apps/host/src/api/accessTracker.ts): a snapshot loaded from the BFF    *)
(* and loaded again on what an EventSource reports.  Everything runs on    *)
(* the tab's event loop; a step is one callback.                           *)
(***************************************************************************)
EXTENDS Naturals, FiniteSets

CONSTANTS Hids,           \* households
          Contents,       \* what a snapshot can say
          Loads,          \* slots for GET /access in flight (bound)
          Streams,        \* slots for EventSources (bound)
          None,           \* null
          MaxGeneration   \* bound: household switches

ASSUME TrackerAssumption ==
  /\ None \notin Hids \cup Streams
  /\ None \notin [hid : Hids, content : Contents]
  /\ MaxGeneration \in Nat

VARIABLES
  hid, snapshot, status, generation,  \* as in the code
  loads,           \* load()s that await their answer
  streams,         \* EventSources
  source,          \* the one the code refers to
  timers,          \* timeouts to fire, each named by the stream that set it
  reconnectTimer,  \* the one the code refers to
  ended            \* session.ended came since the last setHid (not in the code)

vars == <<hid, snapshot, status, generation, loads, streams, source, timers,
          reconnectTimer, ended>>

Statuses == {"idle", "loading", "ready", "forbidden", "error"}

Snapshot == [hid : Hids, content : Contents]

Load == [busy : BOOLEAN, gen : Nat, hid : Hids]

\* ready counts up to 2: the code only asks whether it is more than 1.
Stream == [state : {"connecting", "open", "closed"},
           gen : Nat, hid : Hids, ready : 0..2]

TypeOK ==
  /\ hid \in Hids \cup {None}
  /\ snapshot \in Snapshot \cup {None}
  /\ status \in Statuses
  /\ generation \in Nat
  /\ loads \in [Loads -> Load]
  /\ streams \in [Streams -> Stream]
  /\ source \in Streams \cup {None}
  /\ timers \subseteq Streams
  /\ reconnectTimer \in Streams \cup {None}
  /\ ended \in BOOLEAN

Init ==
  /\ hid = None /\ snapshot = None /\ status = "idle" /\ generation = 0
  /\ \E h \in Hids :
       /\ loads = [l \in Loads |-> [busy |-> FALSE, gen |-> 0, hid |-> h]]
       /\ streams = [s \in Streams |-> [state |-> "closed", gen |-> 0, hid |-> h,
                                        ready |-> 0]]
  /\ source = None /\ timers = {} /\ reconnectTimer = None
  /\ ended = FALSE

-----------------------------------------------------------------------------
(***************************************************************************)
(* load(forGeneration) up to its await, for household h with snapshot snap *)
(* and status stat.                                                        *)
(***************************************************************************)
\* Mutant: the status is left as it was.
BeginLoadSilently(h, snap, stat, gen) ==
  /\ status' = stat
  /\ \E l \in Loads : /\ ~loads[l].busy
                      /\ loads' = [loads EXCEPT ![l] = [busy |-> TRUE, gen |-> gen, hid |-> h]]

BeginLoad(h, snap, stat, gen) ==
  /\ status' = IF snap = None THEN "loading" ELSE stat
  /\ \E l \in Loads : /\ ~loads[l].busy
                      /\ loads' = [loads EXCEPT ![l] = [busy |-> TRUE, gen |-> gen, hid |-> h]]

\* load() on behalf of a callback: nothing without a household.
Reload(gen) ==
  IF hid = None THEN UNCHANGED <<status, loads>>
                ELSE BeginLoad(hid, snapshot, status, gen)

(***************************************************************************)
(* disconnect(): the timer and the source the code knows.                  *)
(***************************************************************************)
Closed == [s \in Streams |-> IF s = source THEN [streams[s] EXCEPT !.state = "closed"]
                                           ELSE streams[s]]

Unset == timers \ {reconnectTimer}

Disconnect ==
  /\ streams' = Closed /\ source' = None
  /\ timers' = Unset /\ reconnectTimer' = None

\* connect(forGeneration), given the streams and timers there are by then.
Connect(h, gen, before, pending) ==
  \E s \in Streams \ pending :
    /\ before[s].state = "closed"
    /\ streams' = [before EXCEPT ![s] = [state |-> "connecting", gen |-> gen,
                                         hid |-> h, ready |-> 0]]
    /\ source' = s

-----------------------------------------------------------------------------
(* What the shell calls.                                                   *)

SetHid(next) ==
  /\ next # hid
  /\ generation < MaxGeneration
  /\ generation' = generation + 1
  /\ hid' = next
  /\ snapshot' = None
  /\ ended' = FALSE
  /\ IF next = None
       THEN status' = "idle" /\ Disconnect /\ UNCHANGED loads
       ELSE /\ BeginLoad(next, None, "idle", generation + 1)
            /\ timers' = Unset /\ reconnectTimer' = None
            /\ Connect(next, generation + 1, Closed, timers')

\* Mutant: the stream is left open.
CloseQuietly ==
  /\ generation < MaxGeneration
  /\ generation' = generation + 1
  /\ hid' = None
  /\ UNCHANGED <<snapshot, status, loads, streams, source, timers, reconnectTimer, ended>>

Close ==
  /\ generation < MaxGeneration
  /\ generation' = generation + 1
  /\ hid' = None
  /\ Disconnect
  /\ UNCHANGED <<snapshot, status, loads, ended>>

Refresh ==
  /\ hid # None
  /\ Reload(generation)
  /\ UNCHANGED <<hid, snapshot, generation, streams, source, timers, reconnectTimer, ended>>

-----------------------------------------------------------------------------
(* The answer to a load.                                                   *)

Answered(l) ==
  /\ loads[l].busy
  /\ loads' = [loads EXCEPT ![l].busy = FALSE]
  /\ UNCHANGED <<hid, generation, streams, source, timers, reconnectTimer, ended>>

\* Mutant: whatever arrives is shown.
LoadSucceedsAnyway(l, content) ==
  /\ Answered(l)
  /\ snapshot' = [hid |-> loads[l].hid, content |-> content]
  /\ status' = "ready"

LoadSucceeds(l, content) ==
  /\ Answered(l)
  /\ IF loads[l].gen # generation
       THEN UNCHANGED <<snapshot, status>>
       ELSE /\ snapshot' = [hid |-> loads[l].hid, content |-> content]
            /\ status' = "ready"

\* Mutant: a failure changes nothing.
LoadFailsSilently(l) == Answered(l) /\ UNCHANGED <<snapshot, status>>

LoadFails(l) ==
  /\ Answered(l)
  /\ IF loads[l].gen # generation
       THEN UNCHANGED <<snapshot, status>>
       ELSE /\ snapshot' = None
            /\ status' \in {"forbidden", "error"}

-----------------------------------------------------------------------------
(* What the EventSource reports.  A closed one reports nothing.            *)

Opened(stream) == [state |-> "open", gen |-> stream.gen, hid |-> stream.hid,
                   ready |-> IF stream.ready = 0 THEN 1 ELSE 2]

\* Mutant: a reconnected stream is taken as if nothing had happened.
ReadyOnly(s) ==
  /\ streams[s].state = "connecting"
  /\ streams' = [streams EXCEPT ![s] = Opened(@)]
  /\ UNCHANGED <<status, loads>>
  /\ UNCHANGED <<hid, snapshot, generation, source, timers, reconnectTimer, ended>>

\* "ready": on the second one events may have been missed in between.
Ready(s) ==
  /\ streams[s].state = "connecting"
  /\ streams' = [streams EXCEPT ![s] = Opened(@)]
  /\ IF streams[s].ready > 0 THEN Reload(streams[s].gen)
                             ELSE UNCHANGED <<status, loads>>
  /\ UNCHANGED <<hid, snapshot, generation, source, timers, reconnectTimer, ended>>

AccessChanged(s) ==
  /\ streams[s].state = "open"
  /\ Reload(streams[s].gen)
  /\ UNCHANGED <<hid, snapshot, generation, streams, source, timers, reconnectTimer, ended>>

SessionEnded(s) ==
  /\ streams[s].state = "open"
  /\ Disconnect
  /\ ended' = TRUE
  /\ UNCHANGED <<hid, snapshot, status, generation, loads>>

\* A transient drop: the browser connects again by itself.
Dropped(s) ==
  /\ streams[s].state = "open"
  /\ streams' = [streams EXCEPT ![s].state = "connecting"]
  /\ UNCHANGED <<hid, snapshot, status, generation, loads, source, timers,
                 reconnectTimer, ended>>

\* The browser gives up, after an answer that is not 2xx.
GivesUp(s) ==
  /\ streams[s].state = "connecting"
  /\ streams' = [streams EXCEPT ![s].state = "closed"]
  /\ IF streams[s].gen # generation
       THEN UNCHANGED <<timers, reconnectTimer>>
       ELSE timers' = timers \cup {s} /\ reconnectTimer' = s
  /\ UNCHANGED <<hid, snapshot, status, generation, loads, source, ended>>

TimerFires(s) ==
  /\ s \in timers
  /\ timers' = timers \ {s}
  /\ IF streams[s].gen # generation \/ hid = None
       THEN UNCHANGED <<status, loads, streams, source>>
       ELSE /\ Reload(streams[s].gen)
            /\ Connect(hid, streams[s].gen, streams, timers')
  /\ UNCHANGED <<hid, snapshot, generation, reconnectTimer, ended>>

-----------------------------------------------------------------------------
Next ==
  \/ \E next \in Hids \cup {None} : SetHid(next)
  \/ Close
  \/ Refresh
  \/ \E l \in Loads : LoadFails(l) \/ \E content \in Contents : LoadSucceeds(l, content)
  \/ \E s \in Streams :
       \/ Ready(s) \/ AccessChanged(s) \/ SessionEnded(s)
       \/ Dropped(s) \/ GivesUp(s) \/ TimerFires(s)

Spec == Init /\ [][Next]_vars

-----------------------------------------------------------------------------
(* Properties.                                                             *)

(***************************************************************************)
(* While a household is open, the snapshot is of that household, whatever  *)
(* loads for earlier ones are answered late.                               *)
(***************************************************************************)
SnapshotOfHid == hid # None /\ snapshot # None => snapshot.hid = hid

(***************************************************************************)
(* What the shell shows is never stuck: "ready" comes with a snapshot, and *)
(* "loading" with a load that is still to be answered and will count.      *)
(***************************************************************************)
StatusMeans ==
  hid # None =>
    /\ status = "ready" <=> snapshot # None
    /\ status \notin {"ready", "forbidden", "error"} =>
         /\ status = "loading"
         /\ \E l \in Loads : loads[l].busy /\ loads[l].gen = generation

(***************************************************************************)
(* The tab listens while a household is open and the session has not       *)
(* ended, through one stream or one reconnect timer, of that household;    *)
(* otherwise it does not listen at all.                                    *)
(***************************************************************************)
Listening == {s \in Streams : streams[s].state # "closed"} \cup timers

OneConnection ==
  IF hid = None \/ ended
    THEN Listening = {}
    ELSE \E s \in Streams : /\ Listening = {s}
                            /\ streams[s].gen = generation
                            /\ streams[s].hid = hid

-----------------------------------------------------------------------------
(***************************************************************************)
(* The inductive invariant behind these properties: a load that will count *)
(* is one for the open household, and what listens is what disconnect()    *)
(* would close.                                                            *)
(***************************************************************************)
LoadsInv ==
  \A l \in Loads : loads[l].busy =>
    /\ loads[l].gen <= generation
    /\ loads[l].gen = generation => loads[l].hid = hid

DisconnectReaches ==
  /\ \A s \in Streams : streams[s].state # "closed" => s = source
  /\ \A s \in timers : s = reconnectTimer /\ streams[s].state = "closed"

Inv == SnapshotOfHid /\ StatusMeans /\ OneConnection /\ LoadsInv /\ DisconnectReaches
=============================================================================
