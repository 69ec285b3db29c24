------------------------- MODULE AccessStreamProofs -------------------------
(***************************************************************************)
(* Proofs about AccessStream: no event is lost, repeated or reordered on   *)
(* its way to a tab, and no handler leaves a listener behind.              *)
(***************************************************************************)
EXTENDS AccessStream, SequenceTheorems, TLAPS

-----------------------------------------------------------------------------
(* Sequences of events.                                                    *)

\* Queueing behind a batch and what is pending is queueing behind all of it.
LEMMA AppendBehind ==
  ASSUME NEW S, NEW b \in Seq(S), NEW p \in Seq(S), NEW e \in S
  PROVE  /\ Append(b \o p, e) = b \o Append(p, e)
         /\ Append(p, e) \in Seq(S)
         /\ Append(p, e) # <<>>
  OBVIOUS

\* What is written is taken off the front.
LEMMA TailInFront ==
  ASSUME NEW S, NEW b \in Seq(S), NEW p \in Seq(S), b # <<>>
  PROVE  /\ Tail(b \o p) = Tail(b) \o p
         /\ Tail(b) \in Seq(S)
         /\ Len(b) > 1 => Tail(b) # <<>>
         /\ Len(b) = 1 => Tail(b) = <<>>
<1> DEFINE bp == b \o p
           left == Tail(bp)
           right == Tail(b) \o p
<1>1. /\ bp \in Seq(S) /\ Len(bp) = Len(b) + Len(p)
      /\ \A i \in 1 .. Len(b) + Len(p) :
           bp[i] = IF i <= Len(b) THEN b[i] ELSE p[i - Len(b)]
  BY ConcatProperties
<1>2. Len(b) \in Nat \ {0} /\ Len(p) \in Nat
  BY EmptySeq, LenProperties
<1>3. bp # <<>>
  BY <1>1, <1>2, EmptySeq
<1>4. /\ Tail(b) \in Seq(S) /\ Len(Tail(b)) = Len(b) - 1
      /\ \A i \in 1 .. Len(Tail(b)) : Tail(b)[i] = b[i + 1]
  BY HeadTailProperties
<1>5. /\ left \in Seq(S) /\ Len(left) = Len(bp) - 1
      /\ \A i \in 1 .. Len(left) : left[i] = bp[i + 1]
  BY <1>1, <1>3, HeadTailProperties
<1>6. /\ right \in Seq(S) /\ Len(right) = Len(Tail(b)) + Len(p)
      /\ \A i \in 1 .. Len(Tail(b)) + Len(p) :
           right[i] = IF i <= Len(Tail(b)) THEN Tail(b)[i] ELSE p[i - Len(Tail(b))]
  BY <1>4, ConcatProperties
<1> HIDE DEF bp, left, right
<1>7. ASSUME NEW i \in 1 .. Len(left) PROVE left[i] = right[i]
  <2>1. i \in Nat /\ 1 <= i /\ i <= Len(b) + Len(p) - 1
    BY <1>1, <1>2, <1>5
  <2>2. left[i] = bp[i + 1] /\ i + 1 \in 1 .. Len(b) + Len(p)
    BY <1>2, <1>5, <2>1
  <2>3. CASE i <= Len(b) - 1
    <3>1. bp[i + 1] = b[i + 1]
      BY <1>1, <1>2, <2>1, <2>2, <2>3
    <3>2. right[i] = Tail(b)[i] /\ Tail(b)[i] = b[i + 1]
      BY <1>2, <1>4, <1>6, <2>1, <2>3
    <3> QED BY <2>2, <3>1, <3>2
  <2>4. CASE ~(i <= Len(b) - 1)
    <3>1. bp[i + 1] = p[(i + 1) - Len(b)]
      BY <1>1, <1>2, <2>1, <2>2, <2>4
    <3>2. right[i] = p[i - (Len(b) - 1)]
      BY <1>2, <1>4, <1>6, <2>1, <2>4
    <3>3. (i + 1) - Len(b) = i - (Len(b) - 1)
      BY <1>2, <2>1
    <3> QED BY <2>2, <3>1, <3>2, <3>3
  <2> QED BY <2>3, <2>4
<1>8. Len(left) = Len(right)
  BY <1>1, <1>2, <1>4, <1>5, <1>6
<1>9. left = right
  BY <1>5, <1>6, <1>7, <1>8, SeqEqual
<1>0. Len(<<>>) = 0 /\ \A t \in Seq(S) : t # <<>> => Len(t) \in Nat \ {0}
  BY EmptySeq
<1>10. Len(b) > 1 => Tail(b) # <<>>
  <2>1. Len(b) > 1 => Len(Tail(b)) # 0
    BY <1>2, <1>4
  <2> QED BY <1>0, <2>1
<1>11. Len(b) = 1 => Tail(b) = <<>>
  <2> SUFFICES ASSUME Len(b) = 1, Tail(b) # <<>> PROVE FALSE
    OBVIOUS
  <2>1. Len(Tail(b)) \in Nat \ {0}
    BY <1>0, <1>4
  <2>2. Len(Tail(b)) = 0
    BY <1>4
  <2> QED BY <2>1, <2>2
<1> QED BY <1>4, <1>9, <1>10, <1>11 DEF bp, left, right

LEMMA EmptyInFront ==
  ASSUME NEW S, NEW p \in Seq(S)
  PROVE  <<>> \o p = p /\ p \o <<>> = p
  OBVIOUS

-----------------------------------------------------------------------------
(***************************************************************************)
(* The invariant and type correctness hold together: that a queue may lose *)
(* its first event rests on what the invariant says of batch and owed.     *)
(***************************************************************************)
Good == TypeOK /\ Inv

\* What a step does to one connection leaves the invariant of the others.
LEMMA OthersUntouched ==
  ASSUME TypeOK, Inv, NEW c \in Conns,
         \A d \in Conns \ {c} :
           /\ d \in listeners' <=> d \in listeners
           /\ pc'[d] = pc[d] /\ open'[d] = open[d]
           /\ pending'[d] = pending[d] /\ batch'[d] = batch[d] /\ owed'[d] = owed[d],
         ConnInv(c)'
  PROVE  Inv'
  BY DEF Inv, ConnInv, OwedInv, ListenerInv, PhaseInv, Running

\* The handler is left.
LEMMA LeaveGood ==
  ASSUME Good, NEW c \in Conns, Leave(c), active' \subseteq Sessions
  PROVE  Good'
<1>1. TypeOK'
  BY EmptySeq DEF Good, TypeOK, Leave, Phases
<1>2. ConnInv(c)'
  BY EmptySeq DEF Good, TypeOK, Leave, ConnInv, OwedInv, ListenerInv, PhaseInv, Running
<1>3. \A d \in Conns \ {c} :
           /\ d \in listeners' <=> d \in listeners
           /\ pc'[d] = pc[d] /\ open'[d] = open[d]
           /\ pending'[d] = pending[d] /\ batch'[d] = batch[d] /\ owed'[d] = owed[d]
  BY DEF Good, TypeOK, Leave
<1> QED BY <1>1, <1>2, <1>3, OthersUntouched DEF Good

\* The head of the loop, reached with an empty batch.
LEMMA LoopGood ==
  ASSUME Good, NEW c \in Conns, Loop(c), UNCHANGED active,
         pc[c] \in {"greeting", "beating"}
  PROVE  Good'
<1>1. CASE ~open[c] /\ Leave(c)
  BY <1>1, LeaveGood DEF Good, TypeOK
<1>2. CASE open[c] /\ ~(~open[c] /\ Leave(c))
  <2>1. /\ pending[c] \in Seq(Event) /\ batch[c] = <<>> /\ owed[c] = batch[c] \o pending[c]
        /\ c \in listeners
    BY DEF Good, TypeOK, Inv, ConnInv, OwedInv, ListenerInv, PhaseInv, Running
  <2>2. owed[c] = pending[c] /\ pending[c] \o <<>> = pending[c] /\ <<>> \o <<>> = <<>>
    BY <2>1, EmptyInFront, EmptySeq
  <2>3. /\ UNCHANGED <<listeners, open, owed>>
        /\ \A d \in Conns \ {c} : pc'[d] = pc[d] /\ pending'[d] = pending[d] /\ batch'[d] = batch[d]
        /\ \/ /\ pending[c] # <<>>
              /\ pc'[c] = "writing" /\ batch'[c] = pending[c] /\ pending'[c] = <<>>
           \/ /\ pending[c] = <<>>
              /\ pc'[c] = "waiting" /\ batch'[c] = batch[c] /\ pending'[c] = pending[c]
    BY <1>2 DEF Good, TypeOK, Loop
  <2>4. TypeOK'
    <3>1. CASE pending[c] # <<>>
      BY <1>2, <2>1, <3>1, EmptySeq DEF Good, TypeOK, Loop, Phases
    <3>2. CASE pending[c] = <<>>
      BY <1>2, <2>1, <3>2, EmptySeq DEF Good, TypeOK, Loop, Phases
    <3> QED BY <3>1, <3>2
  <2>5. ConnInv(c)'
    BY <1>2, <2>1, <2>2, <2>3 DEF ConnInv, OwedInv, ListenerInv, PhaseInv, Running
  <2> QED BY <2>3, <2>4, <2>5, OthersUntouched DEF Good
<1> QED BY <1>1, <1>2 DEF Loop

\* An event has been written and more of the batch is left.
LEMMA WriteEventGood ==
  ASSUME Good, NEW c \in Conns, WriteEvent(c)
  PROVE  Good'
<1>1. /\ batch[c] \in Seq(Event) /\ pending[c] \in Seq(Event) /\ owed[c] = batch[c] \o pending[c]
      /\ batch[c] # <<>> /\ c \in listeners /\ Len(batch[c]) > 1
  BY DEF Good, TypeOK, Inv, ConnInv, OwedInv, ListenerInv, PhaseInv, Running, WriteEvent
<1>2. /\ Tail(owed[c]) = Tail(batch[c]) \o pending[c]
      /\ Tail(batch[c]) \in Seq(Event) /\ Tail(batch[c]) # <<>>
  BY <1>1, TailInFront
<1>3. Tail(owed[c]) \in Seq(Event)
  BY <1>1, <1>2, ConcatProperties
<1>4. TypeOK'
  BY <1>2, <1>3 DEF Good, TypeOK, WriteEvent
<1>5. ConnInv(c)'
  BY <1>1, <1>2 DEF Good, TypeOK, Inv, WriteEvent, ConnInv, OwedInv, ListenerInv, PhaseInv, Running
<1>6. \A d \in Conns \ {c} :
           /\ d \in listeners' <=> d \in listeners
           /\ pc'[d] = pc[d] /\ open'[d] = open[d]
           /\ pending'[d] = pending[d] /\ batch'[d] = batch[d] /\ owed'[d] = owed[d]
  BY DEF Good, TypeOK, WriteEvent
<1> QED BY <1>4, <1>5, <1>6, OthersUntouched DEF Good

\* The batch is written: on with what came in meanwhile.
LEMMA WriteLastGood ==
  ASSUME Good, NEW c \in Conns, WriteLastEvent(c)
  PROVE  Good'
<1>1. CASE ~open[c] /\ Leave(c)
  BY <1>1, LeaveGood DEF Good, TypeOK, WriteLastEvent
<1>2. CASE open[c]
  <2>1. /\ batch[c] \in Seq(Event) /\ pending[c] \in Seq(Event) /\ owed[c] = batch[c] \o pending[c]
        /\ batch[c] # <<>> /\ c \in listeners /\ Len(batch[c]) = 1
    BY DEF Good, TypeOK, Inv, ConnInv, OwedInv, ListenerInv, PhaseInv, Running, WriteLastEvent
  <2>2. Tail(owed[c]) = Tail(batch[c]) \o pending[c] /\ Tail(batch[c]) = <<>>
    BY <2>1, TailInFront
  <2>3. Tail(owed[c]) = pending[c] /\ pending[c] \o <<>> = pending[c]
    BY <2>1, <2>2, EmptyInFront
  <2>4. /\ UNCHANGED <<active, listeners, open>>
        /\ owed' = [owed EXCEPT ![c] = Tail(@)]
        /\ batch' = [batch EXCEPT ![c] = pending[c]]
        /\ pending' = [pending EXCEPT ![c] = <<>>]
        /\ pc' = [pc EXCEPT ![c] = IF pending[c] = <<>> THEN "waiting" ELSE "writing"]
    BY <1>2 DEF WriteLastEvent
  <2>5. TypeOK'
    BY <2>1, <2>3, <2>4, EmptySeq DEF Good, TypeOK, Phases
  <2>6. /\ owed'[c] = pending[c] /\ batch'[c] = pending[c] /\ pending'[c] = <<>>
        /\ pc'[c] = IF pending[c] = <<>> THEN "waiting" ELSE "writing"
    BY <2>3, <2>4 DEF Good, TypeOK
  <2>7. ConnInv(c)'
    <3>1. batch'[c] \o pending'[c] = pending[c]
      BY <2>3, <2>6
    <3>2. pc'[c] = "writing" <=> batch'[c] # <<>>
      BY <2>6
    <3>3. pc'[c] \in {"waiting", "writing"} /\ pending'[c] = <<>> /\ open'[c] /\ c \in listeners'
      BY <1>2, <2>1, <2>4, <2>6
    <3>4. OwedInv(c)'
      BY <2>6, <3>1 DEF OwedInv
    <3>5. ListenerInv(c)' /\ PhaseInv(c)'
      BY <3>2, <3>3 DEF ListenerInv, PhaseInv, Running
    <3> QED BY <3>4, <3>5 DEF ConnInv
  <2>8. \A d \in Conns \ {c} :
           /\ d \in listeners' <=> d \in listeners
           /\ pc'[d] = pc[d] /\ open'[d] = open[d]
           /\ pending'[d] = pending[d] /\ batch'[d] = batch[d] /\ owed'[d] = owed[d]
    BY <2>4 DEF Good, TypeOK
  <2> QED BY <2>5, <2>7, <2>8, OthersUntouched DEF Good
<1> QED BY <1>1, <1>2 DEF WriteLastEvent

\* publish reaches exactly the connections the event concerns.
LEMMA PublishGood ==
  ASSUME Good, NEW e \in Event, Publish(e)
  PROVE  Good'
<1>1. \A c \in Conns : /\ Append(pending[c], e) \in Seq(Event)
                      /\ Append(owed[c], e) \in Seq(Event)
                      /\ <<e>> \in Seq(Event) /\ <<e>> # <<>>
  BY AppendBehind DEF Good, TypeOK
<1>2. TypeOK'
  BY <1>1 DEF Good, TypeOK, Publish, Phases
<1>3. ASSUME NEW c \in Conns PROVE ConnInv(c)'
  <2>1. /\ pending[c] \in Seq(Event) /\ batch[c] \in Seq(Event)
        /\ ConnInv(c) /\ UNCHANGED <<listeners, open>>
    BY DEF Good, TypeOK, Inv, Publish
  <2>2. Matches(c, e) <=> Concerns(c, e)
    BY StreamAssumption DEF Matches, Concerns, Event
  <2>3. CASE ~Running(c) \/ ~Concerns(c, e)
    <3>1. /\ pc'[c] = pc[c] /\ pending'[c] = pending[c] /\ batch'[c] = batch[c]
          /\ owed'[c] = owed[c]
      BY <2>1, <2>2, <2>3 DEF Publish, Running, ConnInv, ListenerInv
    <3> QED BY <2>1, <3>1 DEF ConnInv, OwedInv, ListenerInv, PhaseInv, Running
  <2>4. CASE Running(c) /\ Concerns(c, e) /\ pc[c] = "waiting"
    <3>1. /\ pc'[c] = "writing" /\ pending'[c] = pending[c] /\ batch'[c] = <<e>>
          /\ owed'[c] = Append(owed[c], e)
      BY <2>1, <2>2, <2>4 DEF Publish, Running, ConnInv, ListenerInv
    <3>2. pending[c] = <<>> /\ batch[c] = <<>> /\ owed[c] = <<>> \o <<>>
      BY <2>1, <2>4 DEF ConnInv, OwedInv, PhaseInv, Running
    <3>3. Append(<<>> \o <<>>, e) = <<e>> \o <<>> /\ <<e>> # <<>>
      BY <1>1
    <3> QED BY <2>1, <2>4, <3>1, <3>2, <3>3 DEF ConnInv, OwedInv, ListenerInv, PhaseInv, Running
  <2>5. CASE Running(c) /\ Concerns(c, e) /\ pc[c] # "waiting"
    <3>1. /\ pc'[c] = pc[c] /\ pending'[c] = Append(pending[c], e) /\ batch'[c] = batch[c]
          /\ owed'[c] = Append(owed[c], e)
      BY <2>1, <2>2, <2>5 DEF Publish, Running, ConnInv, ListenerInv
    <3>2. owed[c] = batch[c] \o pending[c]
      BY <2>1, <2>5 DEF ConnInv, OwedInv
    <3>3. Append(batch[c] \o pending[c], e) = batch[c] \o Append(pending[c], e)
      <4>1. \A b \in Seq(Event), p \in Seq(Event) : Append(b \o p, e) = b \o Append(p, e)
        BY AppendBehind
      <4> QED BY <2>1, <4>1
    <3> QED BY <2>1, <2>5, <3>1, <3>2, <3>3 DEF ConnInv, OwedInv, ListenerInv, PhaseInv, Running
  <2> QED BY <2>3, <2>4, <2>5
<1> QED BY <1>2, <1>3 DEF Good, Inv

\* Steps that only move a handler on between states without a batch.
LEMMA MoveGood ==
  ASSUME Good, NEW c \in Conns, active' \subseteq Sessions,
         \/ Connect(c) \/ Refuse(c) \/ Subscribe(c) \/ Heartbeat(c) \/ Checked(c)
  PROVE  Good'
<1>1. TypeOK'
  BY DEF Good, TypeOK, Connect, Refuse, Subscribe, Heartbeat, Checked, Phases
<1>2. \A d \in Conns \ {c} :
           /\ d \in listeners' <=> d \in listeners
           /\ pc'[d] = pc[d] /\ open'[d] = open[d]
           /\ pending'[d] = pending[d] /\ batch'[d] = batch[d] /\ owed'[d] = owed[d]
  BY DEF Good, TypeOK, Connect, Refuse, Subscribe, Heartbeat, Checked
<1>3. ConnInv(c) /\ pc[c] \in Phases
  BY DEF Good, TypeOK, Inv
<1>4. CASE Connect(c) \/ Refuse(c)
  <2>1. pc'[c] \in {"loading", "closed"} /\ ~Running(c)
        /\ UNCHANGED <<listeners, open, pending, batch, owed>>
    BY <1>4 DEF Good, TypeOK, Connect, Refuse, Running
  <2>2. ConnInv(c)'
    BY <1>3, <2>1 DEF ConnInv, OwedInv, ListenerInv, PhaseInv, Running
  <2> QED BY <1>1, <1>2, <2>2, OthersUntouched DEF Good
<1>5. CASE Subscribe(c)
  <2>1. /\ pc'[c] = "greeting" /\ ~Running(c) /\ c \in listeners' /\ pc[c] = "loading"
        /\ UNCHANGED <<pending, batch, owed>>
    BY <1>5 DEF Good, TypeOK, Subscribe, Running
  <2>2. batch[c] = <<>> /\ pending[c] = <<>> /\ owed[c] = <<>> /\ <<>> \o <<>> = <<>>
    BY <1>3, <2>1 DEF ConnInv, PhaseInv
  <2>3. ConnInv(c)'
    BY <2>1, <2>2 DEF ConnInv, OwedInv, ListenerInv, PhaseInv, Running
  <2> QED BY <1>1, <1>2, <2>3, OthersUntouched DEF Good
<1>6. CASE Heartbeat(c) \/ Checked(c)
  <2>1. /\ pc'[c] \in {"checking", "beating", "ending"} /\ Running(c) /\ pc[c] # "writing"
        /\ UNCHANGED <<listeners, open, pending, batch, owed>>
    BY <1>6 DEF Good, TypeOK, Heartbeat, Checked, Running
  <2>2. ConnInv(c)'
    BY <1>3, <2>1 DEF ConnInv, OwedInv, ListenerInv, PhaseInv, Running
  <2> QED BY <1>1, <1>2, <2>2, OthersUntouched DEF Good
<1> QED BY <1>4, <1>5, <1>6

\* A tab that goes away.
LEMMA AbortGood ==
  ASSUME Good, NEW c \in Conns, Abort(c)
  PROVE  Good'
<1>1. CASE Leave(c)
  BY <1>1, LeaveGood DEF Good, TypeOK, Abort
<1>2. CASE ~Leave(c)
  <2>1. TypeOK'
    BY <1>2 DEF Good, TypeOK, Abort
  <2>2. /\ pc[c] # "waiting" /\ UNCHANGED <<listeners, pc, pending, batch, owed>>
        /\ open' = [open EXCEPT ![c] = FALSE]
    BY <1>2 DEF Abort
  <2>3. ConnInv(c)'
    BY <2>2 DEF Good, TypeOK, Inv, ConnInv, OwedInv, ListenerInv, PhaseInv, Running
  <2>4. \A d \in Conns \ {c} : open'[d] = open[d]
    BY <2>2 DEF Good, TypeOK
  <2> QED BY <2>1, <2>2, <2>3, <2>4, OthersUntouched DEF Good
<1> QED BY <1>1, <1>2

-----------------------------------------------------------------------------
\* The invariant of every behavior.
THEOREM StreamInvariance == Spec => []Good
<1>1. Init => Good
  <2> SUFFICES ASSUME Init PROVE Good
    OBVIOUS
  <2>1. TypeOK
    BY EmptySeq DEF Init, TypeOK, Phases
  <2>2. Inv
    BY DEF Init, Inv, ConnInv, OwedInv, ListenerInv, PhaseInv, Running
  <2> QED BY <2>1, <2>2 DEF Good
<1>2. ASSUME Good, [Next]_vars PROVE Good'
  <2>1. ASSUME NEW c \in Conns, \/ Connect(c) \/ Refuse(c) \/ Subscribe(c)
                               \/ Heartbeat(c) \/ Checked(c)
        PROVE  Good'
    <3>1. active' \subseteq Sessions
      BY <1>2, <2>1 DEF Good, TypeOK, Connect, Refuse, Subscribe, Heartbeat, Checked
    <3> QED BY <1>2, <2>1, <3>1, MoveGood
  <2>2. ASSUME NEW c \in Conns, Written(c) PROVE Good'
    BY <1>2, <2>2, LoopGood DEF Written
  <2>3. ASSUME NEW c \in Conns, WriteEvent(c) \/ WriteLastEvent(c) PROVE Good'
    BY <1>2, <2>3, WriteEventGood, WriteLastGood
  <2>4. ASSUME NEW c \in Conns, CheckFails(c) \/ Ended(c) PROVE Good'
    BY <1>2, <2>4, LeaveGood DEF CheckFails, Ended, Good, TypeOK
  <2>5. ASSUME NEW c \in Conns, Abort(c) PROVE Good'
    BY <1>2, <2>5, AbortGood
  <2>6. ASSUME NEW e \in Event, Publish(e) PROVE Good'
    BY <1>2, <2>6, PublishGood
  <2>7. ASSUME NEW s \in Sessions, EndSession(s) PROVE Good'
    <3>1. UNCHANGED <<listeners, pc, open, pending, batch, owed>>
          /\ active' \subseteq Sessions
      BY <1>2, <2>7 DEF EndSession, Good, TypeOK
    <3> QED BY <1>2, <3>1 DEF Good, TypeOK, Inv, ConnInv, OwedInv, ListenerInv, PhaseInv, Running
  <2>8. CASE Restart
    <3>1. TypeOK'
      BY <1>2, <2>8, EmptySeq DEF Good, TypeOK, Restart, Phases
    <3>2. Inv'
      BY <2>8 DEF Restart, Inv, ConnInv, OwedInv, ListenerInv, PhaseInv, Running
    <3> QED BY <3>1, <3>2 DEF Good
  <2>9. CASE UNCHANGED vars
    BY <1>2, <2>9 DEF Good, TypeOK, Inv, ConnInv, OwedInv, ListenerInv, PhaseInv, Running, vars
  <2> QED BY <1>2, <2>1, <2>2, <2>3, <2>4, <2>5, <2>6, <2>7, <2>8, <2>9 DEF Next, Handler
<1> QED BY <1>1, <1>2, PTL DEF Spec

\* Every state of a behavior is typed.
THEOREM StreamTypeCorrect == Spec => []TypeOK
<1>1. Good => TypeOK
  BY DEF Good
<1> QED BY <1>1, StreamInvariance, PTL

\* A stream is sent exactly what concerns it, once and in order.
THEOREM EventsInOrder == Spec => []InOrder
<1>1. Good => InOrder
  BY DEF Good, Inv, ConnInv, OwedInv, InOrder
<1> QED BY <1>1, StreamInvariance, PTL

\* The hub's listeners are the handlers that run.
THEOREM ListenersDoNotLeak == Spec => []NoListenerLeak
<1>1. Good => NoListenerLeak
  BY DEF Good, TypeOK, Inv, ConnInv, ListenerInv, NoListenerLeak
<1> QED BY <1>1, StreamInvariance, PTL
=============================================================================
