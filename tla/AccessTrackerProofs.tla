------------------------ MODULE AccessTrackerProofs ------------------------
(***************************************************************************)
(* Proofs about AccessTracker for any number of households, loads and      *)
(* streams.  The callbacks split in two: those that load change what is    *)
(* shown, those of the streams change what listens; a callback that does   *)
(* both is taken apart into the lemmas below.                              *)
(***************************************************************************)
EXTENDS AccessTracker, TLAPS

\* The answers still to come and what is shown until then.
ShownInv == SnapshotOfHid /\ StatusMeans /\ LoadsInv

\* What listens.
ListenInv == OneConnection /\ DisconnectReaches

(***************************************************************************)
(* load() for the open household leaves what is shown right, whether it    *)
(* was so before or has just been reset.                                   *)
(***************************************************************************)
LEMMA ReloadKeepsShown ==
  ASSUME TypeOK, ShownInv, hid # None, Reload(generation),
         UNCHANGED <<hid, snapshot, generation>>
  PROVE  ShownInv'
<1>1. PICK l \in Loads :
        /\ ~loads[l].busy
        /\ loads' = [loads EXCEPT ![l] = [busy |-> TRUE, gen |-> generation, hid |-> hid]]
  BY DEF Reload, BeginLoad
<1>2. status' = IF snapshot = None THEN "loading" ELSE status
  BY DEF Reload, BeginLoad
<1>3. loads'[l] = [busy |-> TRUE, gen |-> generation, hid |-> hid]
  BY <1>1 DEF TypeOK
<1>4. \A k \in Loads : k # l => loads'[k] = loads[k]
  BY <1>1 DEF TypeOK
<1>5. SnapshotOfHid'
  BY DEF ShownInv, SnapshotOfHid
<1>6. StatusMeans'
  BY <1>2, <1>3 DEF ShownInv, StatusMeans
<1>7. LoadsInv'
  <2> SUFFICES ASSUME NEW k \in Loads, loads'[k].busy
               PROVE  /\ loads'[k].gen <= generation
                      /\ loads'[k].gen = generation => loads'[k].hid = hid
    BY DEF LoadsInv
  <2>1. CASE k = l
    BY <2>1, <1>3 DEF TypeOK
  <2>2. CASE k # l
    BY <2>2, <1>4 DEF ShownInv, LoadsInv
  <2> QED  BY <2>1, <2>2
<1> QED  BY <1>5, <1>6, <1>7 DEF ShownInv

LEMMA ReloadKeepsTypes ==
  ASSUME TypeOK, NEW gen \in Nat, Reload(gen)
  PROVE  status' \in Statuses /\ loads' \in [Loads -> Load]
<1>1. CASE hid = None
  BY <1>1 DEF Reload, TypeOK
<1>2. CASE hid # None
  <2>1. PICK l \in Loads :
          loads' = [loads EXCEPT ![l] = [busy |-> TRUE, gen |-> gen, hid |-> hid]]
    BY <1>2 DEF Reload, BeginLoad
  <2>2. [busy |-> TRUE, gen |-> gen, hid |-> hid] \in Load
    BY <1>2 DEF TypeOK, Load
  <2> QED  BY <1>2, <2>1, <2>2 DEF Reload, BeginLoad, TypeOK, Statuses
<1> QED  BY <1>1, <1>2

LEMMA ConnectKeepsTypes ==
  ASSUME TypeOK, NEW h \in Hids, NEW gen \in Nat, NEW before \in [Streams -> Stream],
         NEW pending, Connect(h, gen, before, pending)
  PROVE  streams' \in [Streams -> Stream] /\ source' \in Streams
<1>1. PICK s \in Streams \ pending :
        /\ streams' = [before EXCEPT ![s] = [state |-> "connecting", gen |-> gen,
                                             hid |-> h, ready |-> 0]]
        /\ source' = s
  BY DEF Connect
<1>2. [state |-> "connecting", gen |-> gen, hid |-> h, ready |-> 0] \in Stream
  BY DEF Stream
<1> QED  BY <1>1, <1>2

LEMMA ClosedType == TypeOK => Closed \in [Streams -> Stream]
<1> SUFFICES ASSUME TypeOK, NEW s \in Streams
             PROVE  [streams[s] EXCEPT !.state = "closed"] \in Stream
  BY DEF Closed, TypeOK
<1> QED  BY DEF TypeOK, Stream

-----------------------------------------------------------------------------
(* Type correctness.                                                       *)

LEMMA TypeInit == Init => TypeOK
<1> SUFFICES ASSUME Init
             PROVE  TypeOK
  OBVIOUS
<1>1. PICK h \in Hids :
        /\ loads = [l \in Loads |-> [busy |-> FALSE, gen |-> 0, hid |-> h]]
        /\ streams = [s \in Streams |-> [state |-> "closed", gen |-> 0, hid |-> h,
                                         ready |-> 0]]
  BY DEF Init
<1>2. loads \in [Loads -> Load]
  BY <1>1 DEF Load
<1>3. streams \in [Streams -> Stream]
  BY <1>1 DEF Stream
<1> QED  BY <1>2, <1>3 DEF Init, TypeOK, Statuses

LEMMA TypeStep == TypeOK /\ [Next]_vars => TypeOK'
<1> SUFFICES ASSUME TypeOK, [Next]_vars
             PROVE  TypeOK'
  OBVIOUS
<1>1. ASSUME NEW next \in Hids \cup {None}, SetHid(next)
      PROVE  TypeOK'
  <2>1. generation' \in Nat /\ hid' \in Hids \cup {None} /\ snapshot' = None /\ ended' = FALSE
    BY <1>1 DEF SetHid, TypeOK
  <2>2. timers' \subseteq Streams /\ reconnectTimer' = None
    BY <1>1 DEF SetHid, Disconnect, Unset, TypeOK
  <2>3. CASE next = None
    BY <1>1, <2>1, <2>2, <2>3, ClosedType DEF SetHid, Disconnect, TypeOK, Statuses
  <2>4. CASE next # None
    <3>1. next \in Hids
      BY <2>4
    <3>2. generation + 1 \in Nat
      BY DEF TypeOK
    <3>3. Connect(next, generation + 1, Closed, timers')
      BY <1>1, <2>4 DEF SetHid
    <3>4. streams' \in [Streams -> Stream] /\ source' \in Streams
      BY <3>1, <3>2, <3>3, ClosedType, ConnectKeepsTypes
    <3>5. PICK l \in Loads :
            loads' = [loads EXCEPT ![l] = [busy |-> TRUE, gen |-> generation + 1, hid |-> next]]
      BY <1>1, <2>4 DEF SetHid, BeginLoad
    <3>6. [busy |-> TRUE, gen |-> generation + 1, hid |-> next] \in Load
      BY <3>1, <3>2 DEF Load
    <3>7. loads' \in [Loads -> Load]
      BY <3>5, <3>6 DEF TypeOK
    <3>8. status' = "loading"
      BY <1>1, <2>4 DEF SetHid, BeginLoad
    <3> QED  BY <2>1, <2>2, <3>4, <3>7, <3>8 DEF TypeOK, Statuses
  <2> QED  BY <2>3, <2>4
<1>2. CASE Close
  BY <1>2, ClosedType DEF Close, Disconnect, Unset, TypeOK
<1>3. CASE Refresh
  BY <1>3, ReloadKeepsTypes DEF Refresh, TypeOK
<1>4. ASSUME NEW l \in Loads, Answered(l)
      PROVE  loads' \in [Loads -> Load]
  BY <1>4 DEF Answered, TypeOK, Load
<1>5. ASSUME NEW l \in Loads, LoadFails(l)
      PROVE  TypeOK'
  BY <1>5, <1>4 DEF LoadFails, Answered, TypeOK, Statuses
<1>6. ASSUME NEW l \in Loads, NEW content \in Contents, LoadSucceeds(l, content)
      PROVE  TypeOK'
  <2>1. [hid |-> loads[l].hid, content |-> content] \in Snapshot
    BY DEF TypeOK, Load, Snapshot
  <2> QED  BY <1>6, <1>4, <2>1 DEF LoadSucceeds, Answered, TypeOK, Statuses
<1>7. ASSUME NEW s \in Streams, Ready(s)
      PROVE  TypeOK'
  <2>1. streams[s] \in Stream
    BY DEF TypeOK
  <2>2. streams' \in [Streams -> Stream]
    <3>1. Opened(streams[s]) \in Stream
      BY <2>1 DEF Opened, Stream
    <3> QED  BY <1>7, <3>1 DEF Ready, TypeOK
  <2>3. status' \in Statuses /\ loads' \in [Loads -> Load]
    BY <1>7, <2>1, ReloadKeepsTypes DEF Ready, TypeOK, Stream
  <2> QED  BY <1>7, <2>2, <2>3 DEF Ready, TypeOK
<1>8. ASSUME NEW s \in Streams, AccessChanged(s)
      PROVE  TypeOK'
  <2>1. streams[s].gen \in Nat
    BY DEF TypeOK, Stream
  <2> QED  BY <1>8, <2>1, ReloadKeepsTypes DEF AccessChanged, TypeOK
<1>9. ASSUME NEW s \in Streams, SessionEnded(s)
      PROVE  TypeOK'
  BY <1>9, ClosedType DEF SessionEnded, Disconnect, Unset, TypeOK
<1>10. ASSUME NEW s \in Streams, Dropped(s)
       PROVE  TypeOK'
  <2>1. [streams[s] EXCEPT !.state = "connecting"] \in Stream
    BY DEF TypeOK, Stream
  <2> QED  BY <1>10, <2>1 DEF Dropped, TypeOK
<1>11. ASSUME NEW s \in Streams, GivesUp(s)
       PROVE  TypeOK'
  <2>1. [streams[s] EXCEPT !.state = "closed"] \in Stream
    BY DEF TypeOK, Stream
  <2> QED  BY <1>11, <2>1 DEF GivesUp, TypeOK
<1>12. ASSUME NEW s \in Streams, TimerFires(s)
       PROVE  TypeOK'
  <2>1. streams[s].gen \in Nat
    BY DEF TypeOK, Stream
  <2>2. timers' \subseteq Streams
    BY <1>12 DEF TimerFires, TypeOK
  <2>3. CASE streams[s].gen # generation \/ hid = None
    BY <1>12, <2>2, <2>3 DEF TimerFires, TypeOK
  <2>4. CASE ~(streams[s].gen # generation \/ hid = None)
    <3>1. Reload(streams[s].gen) /\ Connect(hid, streams[s].gen, streams, timers')
      BY <1>12, <2>4 DEF TimerFires
    <3>2. hid \in Hids /\ streams \in [Streams -> Stream]
      BY <2>4 DEF TypeOK
    <3>3. streams' \in [Streams -> Stream] /\ source' \in Streams
      BY <2>1, <3>1, <3>2, ConnectKeepsTypes
    <3>4. status' \in Statuses /\ loads' \in [Loads -> Load]
      BY <2>1, <3>1, ReloadKeepsTypes
    <3> QED  BY <1>12, <2>2, <3>3, <3>4 DEF TimerFires, TypeOK
  <2> QED  BY <2>3, <2>4
<1>13. CASE UNCHANGED vars
  BY <1>13 DEF vars, TypeOK
<1> QED
  BY <1>1, <1>2, <1>3, <1>5, <1>6, <1>7, <1>8, <1>9, <1>10, <1>11, <1>12, <1>13 DEF Next

\* Every state of the tracker is typed.
THEOREM TrackerTypeCorrect == Spec => []TypeOK
<1>1. Init => TypeOK
  BY TypeInit
<1>2. TypeOK /\ [Next]_vars => TypeOK'
  BY TypeStep
<1> QED  BY <1>1, <1>2, PTL DEF Spec

-----------------------------------------------------------------------------
(* What is shown.                                                          *)

LEMMA ShownInit == Init => ShownInv
  BY TrackerAssumption DEF Init, ShownInv, SnapshotOfHid, StatusMeans, LoadsInv

(***************************************************************************)
(* A stream that is not closed, or has a timer, belongs to the open        *)
(* household and to its generation.                                        *)
(***************************************************************************)
LEMMA ListenersAreCurrent ==
  ASSUME OneConnection, NEW s \in Listening
  PROVE  hid # None /\ ~ended /\ Listening = {s}
         /\ streams[s].gen = generation /\ streams[s].hid = hid
  BY DEF OneConnection

LEMMA ShownStep == TypeOK /\ Inv /\ [Next]_vars => ShownInv'
<1> SUFFICES ASSUME TypeOK, Inv, [Next]_vars
             PROVE  ShownInv'
  OBVIOUS
<1>1. ShownInv /\ OneConnection
  BY DEF Inv, ShownInv
<1>2. generation \in Nat
  BY DEF TypeOK
<1>3. ASSUME NEW next \in Hids \cup {None}, SetHid(next)
      PROVE  ShownInv'
  <2>1. hid' = next /\ snapshot' = None /\ generation' = generation + 1
    BY <1>3 DEF SetHid
  <2>2. SnapshotOfHid'
    BY <2>1 DEF SnapshotOfHid
  <2>3. \A l \in Loads : loads[l].busy => loads[l].gen # generation + 1
                                        /\ loads[l].gen <= generation + 1
    BY <1>1, <1>2 DEF ShownInv, LoadsInv, TypeOK, Load
  <2>4. CASE next = None
    BY <1>1, <1>3, <2>1, <2>2, <2>3, <2>4 DEF SetHid, ShownInv, StatusMeans, LoadsInv
  <2>5. CASE next # None
    <3>1. PICK l \in Loads :
            loads' = [loads EXCEPT ![l] = [busy |-> TRUE, gen |-> generation + 1, hid |-> next]]
      BY <1>3, <2>5 DEF SetHid, BeginLoad
    <3>2. status' = "loading"
      BY <1>3, <2>5 DEF SetHid, BeginLoad
    <3>3. /\ loads'[l] = [busy |-> TRUE, gen |-> generation + 1, hid |-> next]
          /\ \A k \in Loads : k # l => loads'[k] = loads[k]
      BY <3>1 DEF TypeOK
    <3>4. StatusMeans'
      BY <2>1, <3>2, <3>3 DEF StatusMeans
    <3>5. LoadsInv'
      <4> SUFFICES ASSUME NEW k \in Loads, loads'[k].busy
                   PROVE  /\ loads'[k].gen <= generation'
                          /\ loads'[k].gen = generation' => loads'[k].hid = hid'
        BY DEF LoadsInv
      <4>1. CASE k = l
        BY <1>2, <2>1, <3>3, <4>1
      <4>2. CASE k # l
        BY <2>1, <2>3, <3>3, <4>2
      <4> QED  BY <4>1, <4>2
    <3> QED  BY <2>2, <3>4, <3>5 DEF ShownInv
  <2> QED  BY <2>4, <2>5
<1>4. CASE Close
  <2>1. \A l \in Loads : loads[l].busy => loads[l].gen # generation + 1
                                        /\ loads[l].gen <= generation + 1
    BY <1>1, <1>2 DEF ShownInv, LoadsInv, TypeOK, Load
  <2> QED  BY <1>4, <2>1 DEF Close, ShownInv, SnapshotOfHid, StatusMeans, LoadsInv
<1>5. CASE Refresh
  BY <1>1, <1>5, ReloadKeepsShown DEF Refresh
<1>6. ASSUME NEW l \in Loads, Answered(l)
      PROVE  /\ ~loads'[l].busy
             /\ loads'[l].gen = loads[l].gen
             /\ \A k \in Loads : k # l => loads'[k] = loads[k]
             /\ LoadsInv'
  <2>1. /\ ~loads'[l].busy
        /\ loads'[l].gen = loads[l].gen
        /\ \A k \in Loads : k # l => loads'[k] = loads[k]
    BY <1>6 DEF Answered, TypeOK, Load
  <2>2. LoadsInv'
    BY <1>1, <1>6, <2>1 DEF Answered, ShownInv, LoadsInv
  <2> QED  BY <2>1, <2>2
<1>7. ASSUME NEW l \in Loads, Answered(l), loads[l].gen # generation,
             UNCHANGED <<snapshot, status>>
      PROVE  ShownInv'
  <2>1. SnapshotOfHid'
    BY <1>1, <1>7 DEF Answered, ShownInv, SnapshotOfHid
  <2>2. StatusMeans'
    <3>1. \A k \in Loads : loads[k].busy /\ loads[k].gen = generation =>
                             loads'[k].busy /\ loads'[k].gen = generation
      BY <1>6, <1>7
    <3> QED  BY <1>1, <1>7, <3>1 DEF Answered, ShownInv, StatusMeans
  <2> QED  BY <1>6, <1>7, <2>1, <2>2 DEF ShownInv
<1>8. ASSUME NEW l \in Loads, LoadFails(l)
      PROVE  ShownInv'
  <2>1. CASE loads[l].gen # generation
    BY <1>7, <1>8, <2>1 DEF LoadFails
  <2>2. CASE loads[l].gen = generation
    BY <1>6, <1>8, <2>2 DEF LoadFails, Answered, ShownInv, SnapshotOfHid, StatusMeans
  <2> QED  BY <2>1, <2>2
<1>9. ASSUME NEW l \in Loads, NEW content \in Contents, LoadSucceeds(l, content)
      PROVE  ShownInv'
  <2>1. CASE loads[l].gen # generation
    BY <1>7, <1>9, <2>1 DEF LoadSucceeds
  <2>2. CASE loads[l].gen = generation
    <3>1. loads[l].busy /\ loads[l].hid \in Hids
      BY <1>9 DEF LoadSucceeds, Answered, TypeOK, Load
    <3>2. loads[l].hid = hid
      BY <1>1, <2>2, <3>1 DEF ShownInv, LoadsInv
    <3>3. snapshot' = [hid |-> hid, content |-> content] /\ status' = "ready" /\ hid' = hid
      BY <1>9, <2>2, <3>2 DEF LoadSucceeds, Answered
    <3>4. snapshot' \in [hid : Hids, content : Contents]
      BY <3>1, <3>2, <3>3
    <3>5. snapshot' # None /\ snapshot'.hid = hid
      BY <3>3, <3>4, TrackerAssumption
    <3> QED  BY <1>6, <1>9, <3>3, <3>5
             DEF LoadSucceeds, ShownInv, SnapshotOfHid, StatusMeans
  <2> QED  BY <2>1, <2>2
<1>10. ASSUME UNCHANGED <<hid, snapshot, generation, status, loads>>
       PROVE  ShownInv'
  BY <1>1, <1>10 DEF ShownInv, SnapshotOfHid, StatusMeans, LoadsInv
<1>11. ASSUME NEW s \in Listening, Reload(streams[s].gen),
              UNCHANGED <<hid, snapshot, generation>>
       PROVE  ShownInv'
  <2>1. hid # None /\ streams[s].gen = generation
    BY <1>1, <1>11, ListenersAreCurrent
  <2> QED  BY <1>1, <1>11, <2>1, ReloadKeepsShown
<1>12. ASSUME NEW s \in Streams, Ready(s)
       PROVE  ShownInv'
  <2>1. s \in Listening
    BY <1>12 DEF Ready, Listening
  <2>2. CASE streams[s].ready > 0
    BY <1>11, <1>12, <2>1, <2>2 DEF Ready
  <2>3. CASE ~(streams[s].ready > 0)
    BY <1>10, <1>12, <2>3 DEF Ready
  <2> QED  BY <2>2, <2>3
<1>13. ASSUME NEW s \in Streams, AccessChanged(s)
       PROVE  ShownInv'
  <2>1. s \in Listening
    BY <1>13 DEF AccessChanged, Listening
  <2> QED  BY <1>11, <1>13, <2>1 DEF AccessChanged
<1>14. ASSUME NEW s \in Streams, SessionEnded(s) \/ Dropped(s) \/ GivesUp(s)
       PROVE  ShownInv'
  BY <1>10, <1>14 DEF SessionEnded, Dropped, GivesUp
<1>15. ASSUME NEW s \in Streams, TimerFires(s)
       PROVE  ShownInv'
  <2>1. s \in Listening
    BY <1>15 DEF TimerFires, Listening
  <2>2. CASE streams[s].gen # generation \/ hid = None
    BY <1>10, <1>15, <2>2 DEF TimerFires
  <2>3. CASE ~(streams[s].gen # generation \/ hid = None)
    BY <1>11, <1>15, <2>1, <2>3 DEF TimerFires
  <2> QED  BY <2>2, <2>3
<1>16. CASE UNCHANGED vars
  BY <1>10, <1>16 DEF vars
<1> QED
  BY <1>3, <1>4, <1>5, <1>8, <1>9, <1>12, <1>13, <1>14, <1>15, <1>16 DEF Next

-----------------------------------------------------------------------------
(* What listens.                                                           *)

LEMMA ListenInit == Init => ListenInv
  BY DEF Init, ListenInv, OneConnection, DisconnectReaches, Listening

LEMMA ListenStep == TypeOK /\ Inv /\ [Next]_vars => ListenInv'
<1> SUFFICES ASSUME TypeOK, Inv, [Next]_vars
             PROVE  ListenInv'
  OBVIOUS
<1>1. OneConnection /\ DisconnectReaches
  BY DEF Inv
<1>2. \A s \in Streams : Closed[s].state = "closed"
  BY <1>1 DEF Closed, DisconnectReaches, TypeOK, Stream
<1>3. Unset = {}
  BY <1>1 DEF Unset, DisconnectReaches
<1>4. ASSUME Disconnect, hid' = None \/ ended'
      PROVE  ListenInv'
  BY <1>2, <1>3, <1>4 DEF Disconnect, ListenInv, OneConnection, DisconnectReaches, Listening
<1>5. ASSUME NEW h \in Hids, NEW gen, NEW before \in [Streams -> Stream],
             \A s \in Streams : before[s].state = "closed",
             Connect(h, gen, before, timers'), timers' = {},
             hid' = h, generation' = gen, ~ended'
      PROVE  ListenInv'
  <2>1. PICK s \in Streams :
          /\ streams' = [before EXCEPT ![s] = [state |-> "connecting", gen |-> gen,
                                               hid |-> h, ready |-> 0]]
          /\ source' = s
    BY <1>5 DEF Connect
  <2>2. /\ streams'[s] = [state |-> "connecting", gen |-> gen, hid |-> h, ready |-> 0]
        /\ \A t \in Streams : t # s => streams'[t].state = "closed"
    BY <1>5, <2>1
  <2>3. Listening' = {s}
    BY <1>5, <2>2 DEF Listening
  <2>4. OneConnection'
    BY <1>5, <2>2, <2>3, TrackerAssumption DEF OneConnection
  <2>5. DisconnectReaches'
    BY <1>5, <2>1, <2>2 DEF DisconnectReaches
  <2> QED  BY <2>4, <2>5 DEF ListenInv
<1>6. ASSUME NEW next \in Hids \cup {None}, SetHid(next)
      PROVE  ListenInv'
  <2>1. CASE next = None
    BY <1>4, <1>6, <2>1 DEF SetHid
  <2>2. CASE next # None
    <3>1. next \in Hids /\ hid' = next /\ generation' = generation + 1 /\ ~ended'
      BY <1>6, <2>2 DEF SetHid
    <3>2. Connect(next, generation + 1, Closed, timers') /\ timers' = {}
      BY <1>3, <1>6, <2>2 DEF SetHid
    <3> QED  BY <1>2, <1>5, <3>1, <3>2, ClosedType
  <2> QED  BY <2>1, <2>2
<1>7. CASE Close
  BY <1>4, <1>7 DEF Close
<1>8. ASSUME NEW s \in Streams, SessionEnded(s)
      PROVE  ListenInv'
  BY <1>4, <1>8 DEF SessionEnded
<1>9. ASSUME UNCHANGED <<hid, ended, generation, streams, source, timers, reconnectTimer>>
      PROVE  ListenInv'
  BY <1>1, <1>9 DEF ListenInv, OneConnection, DisconnectReaches, Listening
<1>10. ASSUME NEW s \in Streams, streams[s].state # "closed",
              NEW state \in {"connecting", "open"},
              streams'[s].state = state,
              streams'[s].gen = streams[s].gen, streams'[s].hid = streams[s].hid,
              \A t \in Streams : t # s => streams'[t] = streams[t],
              UNCHANGED <<hid, ended, generation, source, timers, reconnectTimer>>
       PROVE  ListenInv'
  <2>1. Listening' = Listening
    BY <1>10 DEF Listening
  <2>2. s \in Listening
    BY <1>10 DEF Listening
  <2>3. OneConnection'
    BY <1>1, <1>10, <2>1, <2>2, ListenersAreCurrent DEF OneConnection
  <2>4. DisconnectReaches'
    <3>1. \A t \in timers : t # s /\ streams'[t] = streams[t]
      BY <1>1, <1>10 DEF DisconnectReaches, TypeOK
    <3>2. \A t \in Streams : streams'[t].state # "closed" => streams[t].state # "closed"
      BY <1>10
    <3> QED  BY <1>1, <1>10, <3>1, <3>2 DEF DisconnectReaches
  <2> QED  BY <2>3, <2>4 DEF ListenInv
<1>11. ASSUME NEW s \in Streams, Ready(s)
       PROVE  ListenInv'
  <2>1. /\ streams'[s].state = "open"
        /\ streams'[s].gen = streams[s].gen /\ streams'[s].hid = streams[s].hid
        /\ \A t \in Streams : t # s => streams'[t] = streams[t]
    BY <1>11 DEF Ready, Opened, TypeOK
  <2> QED  BY <1>10, <1>11, <2>1 DEF Ready
<1>12. ASSUME NEW s \in Streams, Dropped(s)
       PROVE  ListenInv'
  <2>1. /\ streams'[s].state = "connecting"
        /\ streams'[s].gen = streams[s].gen /\ streams'[s].hid = streams[s].hid
        /\ \A t \in Streams : t # s => streams'[t] = streams[t]
    BY <1>12 DEF Dropped, TypeOK, Stream
  <2> QED  BY <1>10, <1>12, <2>1 DEF Dropped
<1>13. ASSUME NEW s \in Streams, GivesUp(s)
       PROVE  ListenInv'
  <2>1. s \in Listening
    BY <1>13 DEF GivesUp, Listening
  <2>2. hid # None /\ ~ended /\ Listening = {s}
        /\ streams[s].gen = generation /\ streams[s].hid = hid
    BY <1>1, <2>1, ListenersAreCurrent
  <2>3. /\ streams'[s].state = "closed"
        /\ streams'[s].gen = streams[s].gen /\ streams'[s].hid = streams[s].hid
        /\ \A t \in Streams : t # s => streams'[t] = streams[t]
    BY <1>13 DEF GivesUp, TypeOK, Stream
  <2>4. timers' = timers \cup {s} /\ reconnectTimer' = s
    BY <1>13, <2>2 DEF GivesUp
  <2>5. \A t \in Streams : t # s => streams[t].state = "closed" /\ t \notin timers
    BY <2>2 DEF Listening
  <2>6. timers' = {s}
    BY <2>4, <2>5 DEF TypeOK
  <2>7. Listening' = {s}
    BY <2>3, <2>5, <2>6 DEF Listening
  <2>8. OneConnection'
    BY <1>13, <2>2, <2>3, <2>7 DEF GivesUp, OneConnection
  <2>9. DisconnectReaches'
    BY <2>3, <2>4, <2>5, <2>6 DEF DisconnectReaches
  <2> QED  BY <2>8, <2>9 DEF ListenInv
<1>14. ASSUME NEW s \in Streams, TimerFires(s)
       PROVE  ListenInv'
  <2>1. s \in Listening
    BY <1>14 DEF TimerFires, Listening
  <2>2. hid # None /\ ~ended /\ Listening = {s}
        /\ streams[s].gen = generation /\ streams[s].hid = hid
    BY <1>1, <2>1, ListenersAreCurrent
  <2>3. PICK t \in Streams \ timers' :
          /\ streams[t].state = "closed"
          /\ streams' = [streams EXCEPT ![t] = [state |-> "connecting", gen |-> generation,
                                                hid |-> hid, ready |-> 0]]
          /\ source' = t
    BY <1>14, <2>2 DEF TimerFires, Connect
  <2>4. timers' = {} /\ UNCHANGED <<hid, generation, ended>>
    BY <1>14, <2>2 DEF TimerFires, Listening, TypeOK
  <2>5. \A u \in Streams : streams[u].state # "closed" => u = s
    BY <2>2 DEF Listening
  <2>6. streams[s].state = "closed"
    BY <1>1, <1>14 DEF TimerFires, DisconnectReaches
  <2>7. \A u \in Streams : streams[u].state = "closed"
    BY <2>5, <2>6
  <2>8. Connect(hid, generation, streams, timers')
    BY <1>14, <2>2 DEF TimerFires
  <2>9. hid \in Hids /\ streams \in [Streams -> Stream]
    BY <2>2 DEF TypeOK
  <2> QED  BY <1>5, <2>2, <2>4, <2>7, <2>8, <2>9
<1>15. ASSUME NEW l \in Loads, Answered(l)
       PROVE  ListenInv'
  BY <1>9, <1>15 DEF Answered
<1>16. ASSUME NEW s \in Streams, AccessChanged(s)
       PROVE  ListenInv'
  BY <1>9, <1>16 DEF AccessChanged
<1>17. CASE Refresh
  BY <1>9, <1>17 DEF Refresh
<1>18. CASE UNCHANGED vars
  BY <1>9, <1>18 DEF vars
<1> QED
  BY <1>6, <1>7, <1>8, <1>11, <1>12, <1>13, <1>14, <1>15, <1>16, <1>17, <1>18
  DEF Next, LoadFails, LoadSucceeds

-----------------------------------------------------------------------------
(* The invariant and what follows from it.                                 *)

\* What the callbacks rely on holds in every state of the tracker.
THEOREM TrackerInvariance == Spec => [](TypeOK /\ Inv)
<1>1. Init => TypeOK /\ Inv
  BY TypeInit, ShownInit, ListenInit DEF Inv, ShownInv, ListenInv
<1>2. TypeOK /\ Inv /\ [Next]_vars => (TypeOK /\ Inv)'
  BY TypeStep, ShownStep, ListenStep DEF Inv, ShownInv, ListenInv
<1> QED  BY <1>1, <1>2, PTL DEF Spec

(***************************************************************************)
(* The snapshot is of the household that is open, however late the answers *)
(* for other households come.                                              *)
(***************************************************************************)
THEOREM SnapshotsMatch == Spec => []SnapshotOfHid
<1>1. Inv => SnapshotOfHid
  BY DEF Inv
<1> QED  BY <1>1, TrackerInvariance, PTL

(***************************************************************************)
(* The status agrees with the snapshot, and "loading" with an answer still *)
(* to come.                                                                *)
(***************************************************************************)
THEOREM StatusIsNeverStuck == Spec => []StatusMeans
<1>1. Inv => StatusMeans
  BY DEF Inv
<1> QED  BY <1>1, TrackerInvariance, PTL

(***************************************************************************)
(* One stream or one reconnect timer of the open household, and none       *)
(* without a household or after the session has ended.                     *)
(***************************************************************************)
THEOREM OneConnectionAtMost == Spec => []OneConnection
<1>1. Inv => OneConnection
  BY DEF Inv
<1> QED  BY <1>1, TrackerInvariance, PTL
=============================================================================
