---------------------------- MODULE AccessStream ----------------------------
(***************************************************************************)
(* The BFF's fan-out of access.changed to open tabs: the event hub         *)
(* (apps/bff/src/events/access-event-hub.ts) and the SSE connections of    *)
(* GET /api/h/:hid/events (apps/bff/src/routes/access-events.ts).          *)
(*                                                                         *)
(* A connection is a loop that waits for an event or for the heartbeat     *)
(* timer, writes the events that are pending, and after a heartbeat asks   *)
(* the session table whether to go on:                                     *)
(*                                                                         *)
(*   closed -> loading -> greeting -> waiting -> writing                   *)
(*                                       |                                 *)
(*                                       +-> checking -> beating | ending  *)
(*                                                                         *)
(* A step of the model is what runs between two awaits.  Resolving the     *)
(* promise of a waiting loop runs the loop on before any other event, so   *)
(* the wake-up and what follows it up to the next await are one step.      *)
(***************************************************************************)
EXTENDS Naturals, Sequences

CONSTANTS Conns,       \* connections
          Sessions, Users, Households,
          SessionOf,   \* the session a connection was opened with
          UserOf,      \* the user of a session
          HidOf,       \* the household a connection watches
          AnyUser,     \* an event without userId
          MaxOwed      \* bound: events a connection is behind with

ASSUME StreamAssumption ==
  /\ SessionOf \in [Conns -> Sessions]
  /\ UserOf \in [Sessions -> Users]
  /\ HidOf \in [Conns -> Households]
  /\ AnyUser \notin Users
  /\ MaxOwed \in Nat \ {0}

VARIABLES
  active,     \* sessions with a live row
  listeners,  \* the hub's Map
  pc,         \* where each connection's handler is
  open,       \* its open flag
  pending,    \* its queue of events
  batch,      \* what pending.splice(0) took and is not yet written
  owed        \* events that concern the connection since it subscribed and
              \* that its tab has not been sent (not in the code)

vars == <<active, listeners, pc, open, pending, batch, owed>>

Event == [hid : Households, userId : Users \cup {AnyUser}]

Phases == {"closed", "loading", "greeting", "waiting", "writing",
           "checking", "beating", "ending"}

TypeOK ==
  /\ active \subseteq Sessions
  /\ listeners \subseteq Conns
  /\ pc \in [Conns -> Phases]
  /\ open \in [Conns -> BOOLEAN]
  /\ pending \in [Conns -> Seq(Event)]
  /\ batch \in [Conns -> Seq(Event)]
  /\ owed \in [Conns -> Seq(Event)]

\* publish calls the listener when the subscription matches the event.
\* Mutant: userId is not looked at.
MatchesHousehold(c, event) == HidOf[c] = event.hid

Matches(c, event) ==
  /\ HidOf[c] = event.hid
  /\ event.userId = AnyUser \/ UserOf[SessionOf[c]] = event.userId

\* What the hub promises, in terms of the event: it concerns this connection.
Concerns(c, event) ==
  /\ event.hid = HidOf[c]
  /\ event.userId \in {AnyUser, UserOf[SessionOf[c]]}

Init ==
  /\ active = Sessions
  /\ listeners = {}
  /\ pc = [c \in Conns |-> "closed"]
  /\ open = [c \in Conns |-> FALSE]
  /\ pending = [c \in Conns |-> <<>>]
  /\ batch = [c \in Conns |-> <<>>]
  /\ owed = [c \in Conns |-> <<>>]

-----------------------------------------------------------------------------
(* Opening a connection.                                                   *)

\* requireSession, then loadHouseholdAccess.
Connect(c) ==
  /\ pc[c] = "closed"
  /\ SessionOf[c] \in active
  /\ pc' = [pc EXCEPT ![c] = "loading"]
  /\ UNCHANGED <<active, listeners, open, pending, batch, owed>>

\* Not a member, or identity-service fails; 401 also ends the session.
Refuse(c) ==
  /\ pc[c] = "loading"
  /\ pc' = [pc EXCEPT ![c] = "closed"]
  /\ active' \in {active, active \ {SessionOf[c]}}
  /\ UNCHANGED <<listeners, open, pending, batch, owed>>

Subscribe(c) ==
  /\ pc[c] = "loading"
  /\ listeners' = listeners \cup {c}
  /\ open' = [open EXCEPT ![c] = TRUE]
  /\ pc' = [pc EXCEPT ![c] = "greeting"]
  /\ UNCHANGED <<active, pending, batch, owed>>

-----------------------------------------------------------------------------
(* The loop.                                                               *)

\* finally: the listener goes, and with it everything the handler held.
Leave(c) ==
  /\ listeners' = listeners \ {c}
  /\ pc' = [pc EXCEPT ![c] = "closed"]
  /\ open' = [open EXCEPT ![c] = FALSE]
  /\ pending' = [pending EXCEPT ![c] = <<>>]
  /\ batch' = [batch EXCEPT ![c] = <<>>]
  /\ owed' = [owed EXCEPT ![c] = <<>>]

(***************************************************************************)
(* The head of the loop: stop when the tab has gone, write at once when    *)
(* something is pending, otherwise wait for an event or the timer.         *)
(***************************************************************************)
\* Mutant: what came in while the handler was busy is not looked at.
LoopAsleep(c) ==
  \/ /\ ~open[c]
     /\ Leave(c)
  \/ /\ open[c]
     /\ pc' = [pc EXCEPT ![c] = "waiting"]
     /\ UNCHANGED <<listeners, open, pending, batch, owed>>

\* Mutant: the loop does not ask whether the tab is still there.
LoopForever(c) ==
  \/ /\ pending[c] # <<>>
     /\ pc' = [pc EXCEPT ![c] = "writing"]
     /\ batch' = [batch EXCEPT ![c] = pending[c]]
     /\ pending' = [pending EXCEPT ![c] = <<>>]
     /\ UNCHANGED <<listeners, open, owed>>
  \/ /\ pending[c] = <<>>
     /\ pc' = [pc EXCEPT ![c] = "waiting"]
     /\ UNCHANGED <<listeners, open, pending, batch, owed>>

Loop(c) ==
  \/ /\ ~open[c]
     /\ Leave(c)
  \/ /\ open[c]
     /\ pending[c] # <<>>
     /\ pc' = [pc EXCEPT ![c] = "writing"]
     /\ batch' = [batch EXCEPT ![c] = pending[c]]
     /\ pending' = [pending EXCEPT ![c] = <<>>]
     /\ UNCHANGED <<listeners, open, owed>>
  \/ /\ open[c]
     /\ pending[c] = <<>>
     /\ pc' = [pc EXCEPT ![c] = "waiting"]
     /\ UNCHANGED <<listeners, open, pending, batch, owed>>

\* The write of "ready" or of a heartbeat has ended.
Written(c) ==
  /\ pc[c] \in {"greeting", "beating"}
  /\ Loop(c)
  /\ UNCHANGED active

\* One event of the batch has been written.
WriteEvent(c) ==
  /\ pc[c] = "writing"
  /\ Len(batch[c]) > 1
  /\ batch' = [batch EXCEPT ![c] = Tail(@)]
  /\ owed' = [owed EXCEPT ![c] = Tail(@)]
  /\ UNCHANGED <<active, listeners, pc, open, pending>>

\* The last one has: back to the head of the loop.  The batch is empty there.
WriteLastEvent(c) ==
  /\ pc[c] = "writing"
  /\ Len(batch[c]) = 1
  /\ \/ /\ ~open[c]
        /\ Leave(c)
     \/ /\ open[c]
        /\ owed' = [owed EXCEPT ![c] = Tail(@)]
        /\ batch' = [batch EXCEPT ![c] = pending[c]]
        /\ pending' = [pending EXCEPT ![c] = <<>>]
        /\ pc' = [pc EXCEPT ![c] = IF pending[c] = <<>> THEN "waiting" ELSE "writing"]
        /\ UNCHANGED <<listeners, open>>
  /\ UNCHANGED active

\* Mutant: a heartbeat that asks nothing.
HeartbeatUnchecked(c) ==
  /\ pc[c] = "waiting"
  /\ pc' = [pc EXCEPT ![c] = "beating"]
  /\ UNCHANGED <<active, listeners, open, pending, batch, owed>>

\* The heartbeat timer wins the race: nothing is pending, so on to the check.
Heartbeat(c) ==
  /\ pc[c] = "waiting"
  /\ pc' = [pc EXCEPT ![c] = "checking"]
  /\ UNCHANGED <<active, listeners, open, pending, batch, owed>>

\* isSessionActive has answered.
Checked(c) ==
  /\ pc[c] = "checking"
  /\ pc' = [pc EXCEPT ![c] = IF SessionOf[c] \in active THEN "beating" ELSE "ending"]
  /\ UNCHANGED <<active, listeners, open, pending, batch, owed>>

\* Or it throws: the handler is left through finally.
CheckFails(c) ==
  /\ pc[c] = "checking"
  /\ Leave(c)
  /\ UNCHANGED active

\* Mutant: break without finally.
EndedLeaks(c) ==
  /\ pc[c] = "ending"
  /\ pc' = [pc EXCEPT ![c] = "closed"]
  /\ UNCHANGED <<active, listeners, open, pending, batch, owed>>

\* session.ended has been written: break.
Ended(c) ==
  /\ pc[c] = "ending"
  /\ Leave(c)
  /\ UNCHANGED active

-----------------------------------------------------------------------------
(* What happens to a connection from outside.                              *)

(***************************************************************************)
(* The tab goes away.  A waiting loop is woken, finds nothing to write and *)
(* stops; a busy one finds out when it comes back to its head.             *)
(***************************************************************************)
Abort(c) ==
  /\ open[c]
  /\ \/ /\ pc[c] = "waiting"
        /\ Leave(c)
     \/ /\ pc[c] # "waiting"
        /\ open' = [open EXCEPT ![c] = FALSE]
        /\ UNCHANGED <<listeners, pc, pending, batch, owed>>
  /\ UNCHANGED active

(***************************************************************************)
(* publish, from the webhook: each matching listener queues the event and  *)
(* wakes its loop if that is waiting.                                      *)
(***************************************************************************)
Publish(event) ==
  LET called == {c \in listeners : Matches(c, event)}
      woken  == {c \in called : pc[c] = "waiting"}
  IN  /\ \A c \in Conns : Len(owed[c]) < MaxOwed
      /\ pending' = [c \in Conns |->
           IF c \in called \ woken THEN Append(pending[c], event) ELSE pending[c]]
      /\ batch' = [c \in Conns |-> IF c \in woken THEN <<event>> ELSE batch[c]]
      /\ pc' = [c \in Conns |-> IF c \in woken THEN "writing" ELSE pc[c]]
      /\ owed' = [c \in Conns |->
           IF pc[c] \notin {"closed", "loading"} /\ Concerns(c, event)
             THEN Append(owed[c], event) ELSE owed[c]]
      /\ UNCHANGED <<active, listeners, open>>

\* Logout, expiry, or a session identity-service ended.
EndSession(s) ==
  /\ s \in active
  /\ active' = active \ {s}
  /\ UNCHANGED <<listeners, pc, open, pending, batch, owed>>

\* The process dies: connections and hub are gone.
Restart ==
  /\ listeners' = {}
  /\ pc' = [c \in Conns |-> "closed"]
  /\ open' = [c \in Conns |-> FALSE]
  /\ pending' = [c \in Conns |-> <<>>]
  /\ batch' = [c \in Conns |-> <<>>]
  /\ owed' = [c \in Conns |-> <<>>]
  /\ UNCHANGED active

Handler(c) ==
  \/ Written(c) \/ WriteEvent(c) \/ WriteLastEvent(c) \/ Heartbeat(c)
  \/ Checked(c) \/ CheckFails(c) \/ Ended(c)

Next ==
  \/ \E c \in Conns : Connect(c) \/ Refuse(c) \/ Subscribe(c) \/ Handler(c) \/ Abort(c)
  \/ \E event \in Event : Publish(event)
  \/ \E s \in Sessions : EndSession(s)
  \/ Restart

Spec == Init /\ [][Next]_vars

(***************************************************************************)
(* The event loop runs every handler that can run: writes end, timers fire *)
(* and Postgres answers.  Tabs, webhooks and logouts owe nothing.          *)
(***************************************************************************)
FairSpec == Spec /\ \A c \in Conns : WF_vars(Handler(c))

-----------------------------------------------------------------------------
(* Properties.                                                             *)

Running(c) == pc[c] \notin {"closed", "loading"}

(***************************************************************************)
(* A tab is told everything that concerns it, once and in order: what it   *)
(* has not been sent yet is what the batch being written and the queue     *)
(* hold, whatever was published while the handler was writing, checking    *)
(* the session or greeting.                                                *)
(***************************************************************************)
InOrder == \A c \in Conns : Running(c) => owed[c] = batch[c] \o pending[c]

(***************************************************************************)
(* However a handler ends, it leaves no listener behind, and while it runs *)
(* the hub knows it.                                                       *)
(***************************************************************************)
NoListenerLeak == listeners = {c \in Conns : Running(c)}

(***************************************************************************)
(* No wake-up is lost: once nothing more is published, every open stream   *)
(* comes to have been sent all that concerns it.                           *)
(***************************************************************************)
Quiet == <>[][~ \E event \in Event : Publish(event)]_vars

AllDelivered == Quiet => \A c \in Conns : <>[](owed[c] = <<>>)

(***************************************************************************)
(* A stream whose tab went away is left, and its listener with it.         *)
(***************************************************************************)
AbortEnds ==
  \A c \in Conns : (Running(c) /\ ~open[c]) ~> ~Running(c)

(***************************************************************************)
(* A logout closes the stream, once nothing more is published.             *)
(***************************************************************************)
QuietLogoutCloses ==
  Quiet => \A c \in Conns :
             (Running(c) /\ SessionOf[c] \notin active) ~> ~Running(c)

(***************************************************************************)
(* The inductive invariant behind InOrder and NoListenerLeak: where a      *)
(* handler waits, nothing is left to do, and only a handler that writes    *)
(* holds a batch.                                                          *)
(***************************************************************************)
OwedInv(c) == Running(c) => owed[c] = batch[c] \o pending[c]

ListenerInv(c) == c \in listeners <=> Running(c)

PhaseInv(c) ==
  /\ pc[c] = "writing" <=> batch[c] # <<>>
  /\ pc[c] = "waiting" => pending[c] = <<>> /\ open[c]
  /\ ~Running(c) => pending[c] = <<>> /\ owed[c] = <<>> /\ ~open[c]

ConnInv(c) == OwedInv(c) /\ ListenerInv(c) /\ PhaseInv(c)

Inv == \A c \in Conns : ConnInv(c)
=============================================================================
