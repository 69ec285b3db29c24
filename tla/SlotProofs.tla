----------------------------- MODULE SlotProofs -----------------------------
(***************************************************************************)
(* Proofs about Slot, for any number of apps, calls and failures: what is  *)
(* in the slot, who may publish breadcrumbs, and what is left when the     *)
(* person is denied the app, leaves, or stays.                             *)
(***************************************************************************)
EXTENDS Slot, FiniteSetTheorems, TLAPS

-----------------------------------------------------------------------------
(* The invariant.                                                          *)

Current(g) == g = generation

Opening(g) == call[g].kind = "open"

Mounting(g) == call[g].at \in {"styling", "mounting"}

Unmounting(g) == call[g].at \in {"clearing", "backingOut"}

\* Only a call of openApp loads and mounts, and it has an app; a call not made
\* yet has nothing in the slot.
KindsInv ==
  \A g \in Calls :
    /\ Opening(g) /\ call[g].at # "unused" => call[g].app \in Apps
    /\ call[g].at = "unused" => host[g] # "inSlot" /\ g # entry
    /\ call[g].at \in {"loading", "styling", "mounting", "backingOut"} => Opening(g)

(***************************************************************************)
(* While a current openApp is at work nobody else is; one that mounts has  *)
(* the slot to itself, whoever superseded it; and whoever unmounts         *)
(* unmounts what is there, or was.                                         *)
(***************************************************************************)
TurnsInv ==
  /\ \A g, h \in Calls : Current(g) /\ Opening(g) /\ h # g => ~Committed(h)
  /\ \A g \in Calls : Mounting(g) => entry = 0 /\ \A h \in Calls \ {g} : ~Committed(h)
  /\ \A g \in Calls : Unmounting(g) => entry \in {0, call[g].target}

\* What is in the slot is known to the mount manager or being mounted.
HostsInv ==
  \A g \in Calls : host[g] = "inSlot" <=> g = entry \/ call[g].at = "mounting"

\* Nobody else may publish while an app is in the slot or about to be.
OwnerInv ==
  \A g \in Calls : (host[g] = "inSlot" \/ Mounting(g)) /\ nav # None => call[g].app = nav

\* What nobody wants any more is being unmounted.
WantedInv ==
  entry # 0 /\ (active = None \/ \E g \in Calls : Current(g) /\ ~Opening(g)) =>
    \E g \in Calls : Unmounting(g)

RaceFree == ~overlapped /\ ~orphaned

SlotInv == RaceFree => TurnsInv /\ HostsInv /\ OwnerInv /\ WantedInv

\* Who is denied, or has left, was the last to call.
GoneInv ==
  (~alive \/ (~dirty /\ Denied)) =>
    /\ nav = None
    /\ \E g \in Calls : Current(g) /\ ~Opening(g)
    /\ alive => active = None /\ status.kind = "denied"

\* The current openApp that mounts may publish, and does not back out.
MountsInv ==
  \A g \in Calls : Current(g) =>
    /\ Mounting(g) => nav = call[g].app
    /\ call[g].at # "backingOut"

\* Without failures only an app that cannot be resolved shows an error.
ErrorInv ==
  failures = 0 => ~orphaned /\ (status.kind = "error" => status.app \in Unresolvable)

\* The app of the address is on its way ...
ComingInv ==
  alive /\ ~dirty /\ Allowed /\ route \notin Unresolvable /\ active # route /\ failures = 0 =>
    \E g \in Calls : Current(g) /\ Opening(g) /\ InFlight(g) /\ call[g].app = route

\* ... or there.
ThereInv ==
  alive /\ active = route /\ ~overlapped /\ ~returned /\ failures = 0 =>
    \E g \in Calls : /\ Current(g) /\ Opening(g) /\ call[g].at = "done"
                     /\ entry = g /\ call[g].app = route /\ nav = route
                     /\ status = [kind |-> "mounted", app |-> route]

Inv ==
  /\ TypeOK /\ KindsInv /\ SlotInv /\ GoneInv
  /\ MountsInv /\ ErrorInv /\ ComingInv /\ ThereInv

-----------------------------------------------------------------------------
(* The steps a call takes.                                                 *)

\* A new call is the current one; the others stay as they are.
LEMMA NewCallFacts ==
  ASSUME TypeOK, NEW kind, NEW app, NEW at, NEW target, NewCall(kind, app, at, target)
  PROVE  /\ generation + 1 \in Calls /\ generation' = generation + 1
         /\ DOMAIN call' = Calls
         /\ call'[generation + 1] = [kind |-> kind, app |-> app, at |-> at, target |-> target]
         /\ \A g \in Calls : g # generation + 1 => call'[g] = call[g]
         /\ \A g \in Calls : g > generation => call[g].at = "unused"
         /\ [kind |-> kind, app |-> app, at |-> at, target |-> target] \in Call =>
              call' \in [Calls -> Call]
<1> DEFINE new == [kind |-> kind, app |-> app, at |-> at, target |-> target]
<1>1. generation \in Nat /\ generation + 1 \in Calls
  BY SlotAssumption DEF TypeOK, NewCall, Calls
<1>2. \A g \in Calls : g > generation => call[g].at = "unused"
  BY DEF TypeOK
<1>3. generation' = generation + 1 /\ call' = [call EXCEPT ![generation + 1] = new]
  BY DEF NewCall
<1> HIDE DEF new
<1>4. /\ DOMAIN call' = Calls /\ call'[generation + 1] = new
      /\ \A g \in Calls : g # generation + 1 => call'[g] = call[g]
      /\ new \in Call => call' \in [Calls -> Call]
  BY <1>1, <1>3 DEF TypeOK
<1> QED
  BY <1>1, <1>2, <1>3, <1>4 DEF new

\* A call that goes on keeps its kind, its app and what it unmounts.
LEMMA AtFacts ==
  ASSUME TypeOK, NEW g \in Calls, NEW stage \in Stages, At(g, stage)
  PROVE  /\ call'[g].at = stage /\ call'[g].kind = call[g].kind
         /\ call'[g].app = call[g].app /\ call'[g].target = call[g].target
         /\ \A h \in Calls : h # g => call'[h] = call[h]
         /\ call' \in [Calls -> Call]
BY DEF TypeOK, At, Call

\* So does one that is told what to unmount.
LEMMA TargetFacts ==
  ASSUME TypeOK, NEW g \in Calls, NEW stage \in Stages, NEW e \in 0 .. MaxCalls,
         call' = [call EXCEPT ![g].at = stage, ![g].target = e]
  PROVE  /\ call'[g].at = stage /\ call'[g].kind = call[g].kind
         /\ call'[g].app = call[g].app /\ call'[g].target = e
         /\ \A h \in Calls : h # g => call'[h] = call[h]
         /\ call' \in [Calls -> Call]
BY DEF TypeOK, Call

\* Unmounting removes one host, and empties the entry.
LEMMA UnmountFacts ==
  ASSUME TypeOK, NEW g \in Calls, Unmount(g)
  PROVE  /\ entry' = 0
         /\ \A h \in Calls : host'[h] = IF h = call[g].target THEN "removed" ELSE host[h]
         /\ host' \in [Calls -> {"none", "inSlot", "removed"}]
BY DEF TypeOK, Unmount

-----------------------------------------------------------------------------
(* The first state.                                                        *)

\* Nothing has been opened yet.
LEMMA InitInv == Init => Inv
<1> SUFFICES ASSUME Init PROVE Inv
  OBVIOUS
<1>1. TypeOK
  <2>1. call \in [Calls -> Call] /\ \A g \in Calls : call[g].at = "unused" /\ g > generation
    BY SlotAssumption DEF Init, Call, Kinds, Stages, Calls
  <2>2. status \in Status
    BY DEF Init, Status
  <2>3. access \in (SUBSET Apps) \cup {None} /\ {overlapped, orphaned, returned} \subseteq BOOLEAN
    BY DEF Init
  <2> QED
    BY <2>1, <2>2, <2>3, SlotAssumption DEF Init, TypeOK
<1>2. KindsInv /\ MountsInv
  BY DEF Init, KindsInv, MountsInv, Mounting, Opening, Calls
<1>3. SlotInv
  BY DEF Init, SlotInv, TurnsInv, HostsInv, OwnerInv, WantedInv, Mounting, Unmounting, Committed, Calls
<1>4. GoneInv /\ ErrorInv /\ ComingInv /\ ThereInv
  BY SlotAssumption DEF Init, GoneInv, ErrorInv, ComingInv, ThereInv
<1> QED
  BY <1>1, <1>2, <1>3, <1>4 DEF Inv

-----------------------------------------------------------------------------
(* Types.                                                                  *)

\* openApp's first part keeps the types it touches.
LEMMA OpenAppTypes ==
  ASSUME TypeOK, NEW app \in Apps, OpenApp(app)
  PROVE  /\ generation' \in 0 .. MaxCalls /\ call' \in [Calls -> Call]
         /\ \A g \in Calls : call'[g].at = "unused" <=> g > generation'
         /\ status' \in Status /\ lastAttempt' \in Apps /\ overlapped' \in BOOLEAN
<1>1. PICK at \in {"done", "loading"}, kind \in {"error", "loading"} :
        NewCall("open", app, at, 0) /\ Show(kind, app)
  BY DEF OpenApp
<1>2. [kind |-> "open", app |-> app, at |-> at, target |-> 0] \in Call
  BY SlotAssumption DEF Call, Kinds, Stages
<1>3. status' \in Status
  BY <1>1 DEF Show, Status
<1>4. generation \in Nat /\ MaxCalls \in Nat
  BY SlotAssumption DEF TypeOK
<1> QED
  BY <1>1, <1>2, <1>3, <1>4, NewCallFacts DEF OpenApp, Calls, TypeOK

\* So does a call that only clears.
LEMMA ClearTypes ==
  ASSUME TypeOK, NEW at \in {"clearing", "done"}, NEW e \in 0 .. MaxCalls,
         NewCall("clear", None, at, e)
  PROVE  /\ generation' \in 0 .. MaxCalls /\ call' \in [Calls -> Call]
         /\ \A g \in Calls : call'[g].at = "unused" <=> g > generation'
<1>1. [kind |-> "clear", app |-> None, at |-> at, target |-> e] \in Call
  BY DEF Call, Kinds, Stages
<1>2. generation \in Nat /\ MaxCalls \in Nat
  BY SlotAssumption DEF TypeOK
<1> QED
  BY <1>1, <1>2, NewCallFacts DEF Calls, TypeOK

\* The effect keeps the types.
LEMMA EffectTypes == TypeOK /\ Effect => TypeOK'
<1> SUFFICES ASSUME TypeOK, Effect PROVE TypeOK'
  OBVIOUS
<1>1. CASE EffectPending
  <2>1. status' \in Status
    BY <1>1 DEF EffectPending, TypeOK, Status
  <2> QED
    BY <1>1, <2>1 DEF Effect, EffectPending, TypeOK
<1>2. CASE EffectDenied
  <2>1. PICK at \in {"clearing", "done"}, e \in 0 .. MaxCalls : NewCall("clear", None, at, e)
    BY <1>2, SlotAssumption DEF EffectDenied, ShowDenied, ClearingFrom, TypeOK
  <2>2. status' \in Status
    BY <1>2 DEF EffectDenied, ShowDenied, Show, TypeOK, Status
  <2> QED
    BY <1>2, <2>1, <2>2, ClearTypes DEF Effect, EffectDenied, ShowDenied, TypeOK
<1>3. CASE EffectAllowed
  <2>1. CASE route # active
    <3>1. OpenApp(route) /\ route \in Apps
      BY <1>3, <2>1 DEF EffectAllowed, TypeOK
    <3> QED
      BY <1>3, <3>1, OpenAppTypes DEF Effect, EffectAllowed, TypeOK
  <2>2. CASE route = active
    BY <1>3, <2>2 DEF Effect, EffectAllowed, TypeOK
  <2> QED
    BY <2>1, <2>2
<1> QED
  BY <1>1, <1>2, <1>3 DEF Effect

\* So do the person and the tracker.
LEMMA PersonTypes == TypeOK /\ (Retry \/ Leave \/ Move) => TypeOK'
<1> SUFFICES ASSUME TypeOK, Retry \/ Leave \/ Move PROVE TypeOK'
  OBVIOUS
<1>1. CASE Retry
  <2>1. OpenApp(lastAttempt) /\ lastAttempt \in Apps
    BY <1>1 DEF Retry, TypeOK
  <2>2. moves' \in 0 .. MaxMoves
    BY <1>1, SlotAssumption DEF Retry, TypeOK
  <2> QED
    BY <1>1, <2>1, <2>2, OpenAppTypes DEF Retry, TypeOK
<1>2. CASE Leave
  <2>1. ClearingFrom(entry) \in {"clearing", "done"} /\ entry \in 0 .. MaxCalls
    BY DEF ClearingFrom, TypeOK
  <2>2. moves' \in 0 .. MaxMoves
    BY <1>2, SlotAssumption DEF Leave, TypeOK
  <2> QED
    BY <1>2, <2>1, <2>2, ClearTypes DEF Leave, TypeOK
<1>3. CASE Move
  <2>1. moves' \in 0 .. MaxMoves
    BY <1>3, SlotAssumption DEF Move, TypeOK
  <2>2. route' \in Apps /\ access' \in (SUBSET Apps) \cup {None} /\ returned' \in BOOLEAN
    BY <1>3 DEF Move, TypeOK
  <2> QED
    BY <1>3, <2>1, <2>2 DEF Move, TypeOK
<1> QED
  BY <1>1, <1>2, <1>3

\* No stage of a call in flight is the one before its first.
LEMMA UsedStays ==
  ASSUME TypeOK, NEW g \in Calls, call[g].at # "unused", call'[g].at # "unused",
         \A h \in Calls : h # g => call'[h] = call[h], generation' = generation
  PROVE  \A h \in Calls : call'[h].at = "unused" <=> h > generation'
BY DEF TypeOK

\* So does a call that goes on, or fails.
LEMMA CallTypes == TypeOK /\ (\E g \in Calls : Settle(g) \/ Fails(g)) => TypeOK'
<1> SUFFICES ASSUME TypeOK, NEW g \in Calls, Settle(g) \/ Fails(g) PROVE TypeOK'
  OBVIOUS
<1> USE DEF Stages
<1>1. call[g].app \in Apps \cup {None} /\ call[g].target \in 0 .. MaxCalls
  BY DEF TypeOK, Call
<1>2. g \in 0 .. MaxCalls
  BY DEF Calls
<1>3. CASE Loaded(g)
  <2>1. nav' \in Apps \cup {None}
    BY <1>1, <1>3 DEF Loaded, StartMount, TypeOK
  <2>2. call' \in [Calls -> Call] /\ \A h \in Calls : h # g => call'[h] = call[h]
    BY <1>3, AtFacts, TargetFacts DEF Loaded, StartMount, TypeOK
  <2>3. call'[g].at # "unused"
    BY <1>3, AtFacts, TargetFacts DEF Loaded, StartMount, TypeOK
  <2> QED
    BY <1>3, <2>1, <2>2, <2>3, UsedStays DEF Loaded, TypeOK
<1>4. CASE Cleared(g)
  <2>1. nav' \in Apps \cup {None}
    BY <1>1, <1>4 DEF Cleared, StartMount, TypeOK
  <2>2. PICK stage \in {"styling", "done"} : At(g, stage)
    BY <1>4 DEF Cleared, StartMount
  <2>3. /\ call' \in [Calls -> Call] /\ call'[g].at # "unused"
        /\ \A h \in Calls : h # g => call'[h] = call[h]
    BY <2>2, AtFacts
  <2>4. entry' = 0 /\ host' \in [Calls -> {"none", "inSlot", "removed"}]
    BY <1>4, UnmountFacts DEF Cleared
  <2>5. \A h \in Calls : call'[h].at = "unused" <=> h > generation'
    BY <1>4, <2>3, UsedStays DEF Cleared
  <2> QED
    BY <1>4, <2>1, <2>3, <2>4, <2>5, SlotAssumption DEF Cleared, TypeOK
<1>5. CASE Styled(g)
  BY <1>5, AtFacts, UsedStays DEF Styled, TypeOK
<1>6. CASE Mounted(g)
  <2>1. status' \in Status
    BY <1>1, <1>6 DEF Mounted, Show, TypeOK, Status
  <2>2. call' \in [Calls -> Call] /\ \A h \in Calls : h # g => call'[h] = call[h]
    BY <1>2, <1>6, AtFacts, TargetFacts DEF Mounted
  <2>3. call'[g].at # "unused"
    BY <1>2, <1>6, AtFacts, TargetFacts DEF Mounted
  <2> QED
    BY <1>1, <1>2, <1>6, <2>1, <2>2, <2>3, UsedStays DEF Mounted, TypeOK
<1>7. CASE BackedOut(g)
  <2>1. /\ call' \in [Calls -> Call] /\ call'[g].at # "unused"
        /\ \A h \in Calls : h # g => call'[h] = call[h]
    BY <1>7, AtFacts DEF BackedOut
  <2>2. entry' = 0 /\ host' \in [Calls -> {"none", "inSlot", "removed"}]
    BY <1>7, UnmountFacts DEF BackedOut
  <2>3. \A h \in Calls : call'[h].at = "unused" <=> h > generation'
    BY <1>7, <2>1, UsedStays DEF BackedOut
  <2> QED
    BY <1>7, <2>1, <2>2, <2>3, SlotAssumption DEF BackedOut, TypeOK
<1>8. CASE Fails(g)
  <2>1. status' \in Status
    BY <1>1, <1>8 DEF Fails, ShowError, TypeOK, Status
  <2>2. failures' \in 0 .. MaxFailures /\ orphaned' \in BOOLEAN
    BY <1>8, SlotAssumption DEF Fails, TypeOK
  <2> QED
    BY <1>8, <2>1, <2>2, AtFacts, UsedStays DEF Fails, InFlight, TypeOK
<1> QED
  BY <1>3, <1>4, <1>5, <1>6, <1>7, <1>8 DEF Settle

-----------------------------------------------------------------------------
(* New calls.                                                              *)

\* openApp's first part: while the slot is nobody's work, it stays in order.
LEMMA OpenAppKeeps ==
  ASSUME Inv, NEW app \in Apps, OpenApp(app), UNCHANGED <<active, host, entry, nav, orphaned>>
  PROVE  KindsInv' /\ MountsInv' /\ SlotInv'
<1> DEFINE n == generation + 1
<1>1. /\ n \in Calls /\ generation' = n /\ DOMAIN call' = Calls
      /\ call'[n].kind = "open" /\ call'[n].app = app /\ call'[n].at \in {"done", "loading"}
      /\ \A g \in Calls : g # n => call'[g] = call[g]
      /\ call[n].at = "unused"
  <2>1. PICK at \in {"done", "loading"} : NewCall("open", app, at, 0)
    BY DEF OpenApp
  <2>2. TypeOK /\ generation < n
    BY DEF Inv, TypeOK
  <2>3. /\ n \in Calls /\ generation' = n /\ DOMAIN call' = Calls
        /\ call'[n] = [kind |-> "open", app |-> app, at |-> at, target |-> 0]
        /\ \A g \in Calls : g # n => call'[g] = call[g]
        /\ \A g \in Calls : g > generation => call[g].at = "unused"
    BY <2>1, <2>2, NewCallFacts
  <2> QED
    BY <2>2, <2>3
<1> HIDE DEF n
<1>2. KindsInv'
  BY <1>1 DEF Inv, KindsInv, Opening
<1>3. MountsInv'
  BY <1>1 DEF MountsInv, Current, Mounting
<1>4. ASSUME RaceFree' PROVE TurnsInv' /\ HostsInv' /\ OwnerInv' /\ WantedInv'
  <2>1. RaceFree /\ \A g \in Calls : ~Committed(g)
    BY <1>4 DEF RaceFree, OpenApp
  <2>2. TurnsInv /\ HostsInv /\ OwnerInv /\ WantedInv
    BY <2>1 DEF Inv, SlotInv
  <2>3. \A g \in Calls : ~Committed(g)'
    BY <1>1, <2>1 DEF Committed
  <2>4. TurnsInv'
    BY <2>3 DEF TurnsInv, Committed, Mounting, Unmounting
  <2>5. HostsInv'
    BY <1>1, <2>2 DEF HostsInv
  <2>6. host[n] # "inSlot"
    BY <1>1 DEF Inv, KindsInv
  <2>7. OwnerInv'
    BY <1>1, <2>2, <2>3, <2>6 DEF OwnerInv, Mounting, Committed
  <2>8. WantedInv'
    BY <1>1, <2>1, <2>2 DEF WantedInv, Current, Opening, Unmounting, Committed
  <2> QED
    BY <2>4, <2>5, <2>7, <2>8
<1> QED
  BY <1>2, <1>3, <1>4 DEF SlotInv

\* A call that clears what is there, or finds that nobody wants it already.
LEMMA ClearKeeps ==
  ASSUME Inv, NEW at, NEW e,
         NewCall("clear", None, at, e),
         \/ at = ClearingFrom(entry) /\ e = entry
         \/ at = "done" /\ e = 0 /\ active = None,
         nav' = None, UNCHANGED <<host, entry, overlapped, orphaned>>
  PROVE  /\ KindsInv' /\ MountsInv' /\ SlotInv'
         /\ \E g \in Calls : Current(g)' /\ ~Opening(g)'
<1> DEFINE n == generation + 1
<1>1. /\ n \in Calls /\ generation' = n
      /\ call'[n].kind = "clear" /\ call'[n].at = at /\ call'[n].target = e
      /\ \A g \in Calls : g # n => call'[g] = call[g]
      /\ call[n].at = "unused"
  <2>1. TypeOK /\ generation < n
    BY DEF Inv, TypeOK
  <2>2. /\ n \in Calls /\ generation' = n
        /\ call'[n] = [kind |-> "clear", app |-> None, at |-> at, target |-> e]
        /\ \A g \in Calls : g # n => call'[g] = call[g]
        /\ \A g \in Calls : g > generation => call[g].at = "unused"
    BY <2>1, NewCallFacts
  <2> QED
    BY <2>1, <2>2
<1> HIDE DEF n
<1>2. at \in {"clearing", "done"} /\ (at = "clearing" => e = entry /\ entry # 0)
  BY DEF ClearingFrom
<1>3. KindsInv'
  BY <1>1, <1>2 DEF Inv, KindsInv, Opening
<1>4. MountsInv'
  BY <1>1, <1>2 DEF MountsInv, Current, Mounting
<1>5. ASSUME RaceFree' PROVE TurnsInv' /\ HostsInv' /\ OwnerInv' /\ WantedInv'
  <2>1. TurnsInv /\ HostsInv /\ OwnerInv /\ WantedInv
    BY <1>5 DEF Inv, SlotInv, RaceFree
  <2>2. TurnsInv'
    BY <1>1, <1>2, <2>1 DEF TurnsInv, Current, Opening, Committed, Mounting, Unmounting
  <2>3. HostsInv'
    BY <1>1, <1>2, <2>1 DEF HostsInv
  <2>4. OwnerInv'
    BY DEF OwnerInv
  <2>5. ASSUME entry # 0 PROVE \E g \in Calls : Unmounting(g)'
    <3>1. CASE at = "clearing"
      BY <1>1, <3>1 DEF Unmounting
    <3>2. CASE at = "done"
      <4>1. PICK g \in Calls : Unmounting(g)
        BY <2>1, <2>5, <3>2 DEF WantedInv, ClearingFrom
      <4>2. g # n
        BY <1>1, <4>1 DEF Unmounting
      <4> QED
        BY <1>1, <4>1, <4>2 DEF Unmounting
    <3> QED
      BY <1>2, <3>1, <3>2
  <2>6. WantedInv'
    BY <2>5 DEF WantedInv
  <2> QED
    BY <2>2, <2>3, <2>4, <2>6
<1>6. \E g \in Calls : Current(g)' /\ ~Opening(g)'
  BY <1>1 DEF Current, Opening
<1> QED
  BY <1>3, <1>4, <1>5, <1>6 DEF SlotInv

-----------------------------------------------------------------------------
(* The component.                                                          *)

\* The effect while access is pending.
LEMMA PendingInv == Inv /\ Effect /\ EffectPending => Inv'
<1> SUFFICES ASSUME Inv, Effect, EffectPending PROVE Inv'
  OBVIOUS
<1>1. TypeOK'
  BY EffectTypes DEF Inv
<1>2. UNCHANGED <<route, access, alive, active, generation, call, host, entry, nav, failures,
                  overlapped, orphaned, returned>>
  BY DEF Effect, EffectPending
<1>3. KindsInv' /\ MountsInv' /\ SlotInv'
  BY <1>2 DEF Inv, KindsInv, MountsInv, SlotInv, TurnsInv, HostsInv, OwnerInv, WantedInv,
              RaceFree, Current, Opening, Mounting, Unmounting, Committed
<1>4. access = None /\ ~Denied' /\ ~Allowed'
  BY <1>2 DEF EffectPending, Denied, Allowed
<1>5. alive /\ alive'
  BY DEF Effect
<1>6. GoneInv' /\ ComingInv'
  BY <1>4, <1>5 DEF GoneInv, ComingInv
<1>7. ErrorInv'
  BY <1>2 DEF Inv, ErrorInv, EffectPending
<1>8. ThereInv'
  <2>1. CASE route = active
    <3>1. status' = status
      BY <2>1 DEF EffectPending
    <3> QED
      BY <1>2, <1>5, <3>1 DEF Inv, ThereInv, Current, Opening
  <2>2. CASE route # active
    BY <1>2, <2>2 DEF ThereInv
  <2> QED
    BY <2>1, <2>2
<1> QED
  BY <1>1, <1>3, <1>6, <1>7, <1>8 DEF Inv

\* The effect where the app of the address is denied.
LEMMA DeniedInv == Inv /\ Effect /\ EffectDenied => Inv'
<1> SUFFICES ASSUME Inv, Effect, EffectDenied PROVE Inv'
  OBVIOUS
<1>1. TypeOK'
  BY EffectTypes DEF Inv
<1>2. UNCHANGED <<route, access, alive, host, entry, failures, overlapped, orphaned, returned>>
  BY DEF Effect, EffectDenied
<1>3. /\ nav' = None /\ active' = None /\ status' = [kind |-> "denied", app |-> route]
      /\ alive /\ Denied
  BY DEF Effect, EffectDenied, ShowDenied, Show, Denied
<1>4. PICK at \in {ClearingFrom(entry), "done"}, e \in {entry, 0} :
        /\ NewCall("clear", None, at, e)
        /\ \/ at = ClearingFrom(entry) /\ e = entry
           \/ at = "done" /\ e = 0 /\ active = None
  BY DEF EffectDenied, ShowDenied
<1>5. /\ KindsInv' /\ MountsInv' /\ SlotInv'
      /\ \E g \in Calls : Current(g)' /\ ~Opening(g)'
  BY <1>2, <1>3, <1>4, ClearKeeps
<1>6. GoneInv'
  BY <1>3, <1>5 DEF GoneInv
<1>7. ErrorInv'
  BY <1>2, <1>3 DEF Inv, ErrorInv
<1>8. route # None
  BY SlotAssumption DEF Inv, TypeOK
<1>9. ComingInv' /\ ThereInv'
  BY <1>2, <1>3, <1>8 DEF ComingInv, ThereInv, Denied, Allowed
<1> QED
  BY <1>1, <1>5, <1>6, <1>7, <1>9 DEF Inv

\* The effect where it is allowed.
LEMMA AllowedInv == Inv /\ Effect /\ EffectAllowed => Inv'
<1> SUFFICES ASSUME Inv, Effect, EffectAllowed PROVE Inv'
  OBVIOUS
<1>1. TypeOK'
  BY EffectTypes DEF Inv
<1>2. /\ UNCHANGED <<route, access, alive, active, host, entry, nav, failures, orphaned, returned>>
      /\ alive /\ ~Denied'
  BY DEF Effect, EffectAllowed, Denied
<1>3. GoneInv'
  BY <1>2 DEF GoneInv
<1>4. CASE route = active
  <2>1. UNCHANGED <<status, generation, call, overlapped>>
    BY <1>4 DEF EffectAllowed
  <2>2. KindsInv' /\ MountsInv' /\ SlotInv' /\ ErrorInv'
    BY <1>2, <2>1 DEF Inv, KindsInv, MountsInv, SlotInv, TurnsInv, HostsInv, OwnerInv, WantedInv,
                      ErrorInv, RaceFree, Current, Opening, Mounting, Unmounting, Committed
  <2>3. ComingInv' /\ ThereInv'
    BY <1>2, <1>4, <2>1 DEF Inv, ComingInv, ThereInv, Current, Opening
  <2> QED
    BY <1>1, <1>3, <2>2, <2>3 DEF Inv
<1>5. CASE route # active
  <2>1. OpenApp(route) /\ route \in Apps
    BY <1>5 DEF EffectAllowed, Inv, TypeOK
  <2>2. KindsInv' /\ MountsInv' /\ SlotInv'
    BY <1>2, <2>1, OpenAppKeeps
  <2>3. ErrorInv'
    BY <1>2, <2>1 DEF OpenApp, Show, Inv, ErrorInv
  <2>4. ThereInv'
    BY <1>2, <1>5 DEF ThereInv
  <2>5. ASSUME route \notin Unresolvable
        PROVE  \E g \in Calls : /\ Current(g)' /\ Opening(g)' /\ InFlight(g)'
                                /\ call'[g].app = route
    <3>1. TypeOK /\ NewCall("open", route, "loading", 0)
      BY <2>1, <2>5 DEF OpenApp, Inv
    <3>2. /\ generation + 1 \in Calls /\ generation' = generation + 1
          /\ call'[generation + 1] =
               [kind |-> "open", app |-> route, at |-> "loading", target |-> 0]
      BY <3>1, NewCallFacts
    <3> QED
      BY <3>2 DEF Current, Opening, InFlight
  <2>6. ComingInv'
    BY <1>2, <2>5 DEF ComingInv
  <2> QED
    BY <1>1, <1>3, <2>2, <2>3, <2>4, <2>6 DEF Inv
<1> QED
  BY <1>4, <1>5

\* The person's retry, leaving and moving.
LEMMA RetryInv == Inv /\ Retry => Inv'
<1> SUFFICES ASSUME Inv, Retry PROVE Inv'
  OBVIOUS
<1>1. TypeOK'
  BY PersonTypes DEF Inv
<1>2. UNCHANGED <<route, access, alive, dirty, active, host, entry, nav, failures, orphaned, returned>>
  BY DEF Retry
<1>3. OpenApp(lastAttempt) /\ lastAttempt \in Apps
  BY DEF Retry, Inv, TypeOK
<1>4. KindsInv' /\ MountsInv' /\ SlotInv'
  BY <1>2, <1>3, OpenAppKeeps
<1>5. alive /\ status.kind = "error" /\ status.app \notin Unresolvable
  BY DEF Retry
<1>6. failures # 0
  BY <1>5 DEF Inv, ErrorInv
<1>7. ErrorInv' /\ ComingInv' /\ ThereInv'
  BY <1>2, <1>6 DEF ErrorInv, ComingInv, ThereInv
<1>8. ~(~dirty /\ Denied)
  BY <1>5 DEF Inv, GoneInv
<1>9. GoneInv'
  BY <1>2, <1>5, <1>8 DEF GoneInv, Denied
<1> QED
  BY <1>1, <1>4, <1>7, <1>9 DEF Inv

\* Leaving is the last call: what is there is being unmounted.
LEMMA LeaveInv == Inv /\ Leave => Inv'
<1> SUFFICES ASSUME Inv, Leave PROVE Inv'
  OBVIOUS
<1>1. TypeOK'
  BY PersonTypes DEF Inv
<1>2. /\ KindsInv' /\ MountsInv' /\ SlotInv'
      /\ \E g \in Calls : Current(g)' /\ ~Opening(g)'
  <2>1. PICK at \in {ClearingFrom(entry)}, e \in {entry} : NewCall("clear", None, at, e)
    BY DEF Leave
  <2>2. nav' = None /\ UNCHANGED <<host, entry, overlapped, orphaned>>
    BY DEF Leave
  <2> QED
    BY <2>1, <2>2, ClearKeeps
<1>3. GoneInv' /\ ComingInv' /\ ThereInv'
  BY <1>2 DEF Leave, GoneInv, ComingInv, ThereInv
<1>4. ErrorInv'
  BY DEF Leave, Inv, ErrorInv
<1> QED
  BY <1>1, <1>2, <1>3, <1>4 DEF Inv

\* A move or a change of access leaves the slot to the effect.
LEMMA MoveInv == Inv /\ Move => Inv'
<1> SUFFICES ASSUME Inv, Move PROVE Inv'
  OBVIOUS
<1>1. TypeOK'
  BY PersonTypes DEF Inv
<1>2. /\ UNCHANGED <<alive, active, status, generation, call, host, entry, nav, failures,
                     overlapped, orphaned>>
      /\ alive /\ dirty'
  BY DEF Move
<1>3. KindsInv' /\ MountsInv' /\ SlotInv' /\ ErrorInv'
  BY <1>2 DEF Inv, KindsInv, MountsInv, SlotInv, TurnsInv, HostsInv, OwnerInv, WantedInv,
              ErrorInv, RaceFree, Current, Opening, Mounting, Unmounting, Committed
<1>4. GoneInv' /\ ComingInv'
  BY <1>2 DEF GoneInv, ComingInv
<1>5. active' = route' /\ ~returned' => active = route /\ ~returned /\ route' = route
  BY <1>2 DEF Move
<1>6. ThereInv'
  BY <1>2, <1>5 DEF Inv, ThereInv, Current, Opening
<1> QED
  BY <1>1, <1>3, <1>4, <1>6 DEF Inv

-----------------------------------------------------------------------------
(* openApp after its awaits.                                               *)

\* A step of a call that is not the current openApp leaves alone what is said
\* of that one.
LEMMA OthersStep ==
  ASSUME Inv, NEW g \in Calls, ~(Current(g) /\ Opening(g)),
         \A h \in Calls : h # g => call'[h] = call[h],
         call'[g].kind = call[g].kind, Current(g) => call'[g].at = "done",
         UNCHANGED <<route, access, alive, dirty, active, status, generation, nav,
                     failures, overlapped, orphaned, returned>>
  PROVE  GoneInv' /\ MountsInv' /\ ErrorInv' /\ ComingInv'
<1>1. GoneInv'
  BY DEF Inv, GoneInv, Denied, Current, Opening
<1>2. MountsInv'
  BY DEF Inv, MountsInv, Current, Mounting
<1>3. ErrorInv'
  BY DEF Inv, ErrorInv
<1>4. ComingInv'
  BY DEF Inv, ComingInv, Allowed, Current, Opening, InFlight
<1> QED
  BY <1>1, <1>2, <1>3, <1>4

\* A step of the current openApp short of its end.
LEMMA CurrentStep ==
  ASSUME Inv, NEW g \in Calls, Current(g), Opening(g), InFlight(g),
         \A h \in Calls : h # g => call'[h] = call[h],
         call'[g].kind = call[g].kind, call'[g].app = call[g].app, InFlight(g)',
         Mounting(g)' => nav' = call[g].app, call'[g].at # "backingOut",
         UNCHANGED <<route, access, alive, dirty, active, status, generation,
                     failures, overlapped, orphaned, returned>>
  PROVE  GoneInv' /\ MountsInv' /\ ErrorInv' /\ ComingInv' /\ ThereInv'
<1>1. GoneInv'
  BY DEF Inv, GoneInv, Denied, Current, Opening
<1>2. MountsInv'
  BY DEF Inv, MountsInv, Current, Mounting
<1>3. ErrorInv'
  BY DEF Inv, ErrorInv
<1>4. ComingInv'
  BY DEF Inv, ComingInv, Allowed, Current, Opening
<1>5. ThereInv'
  BY DEF Inv, ThereInv, Current, InFlight
<1> QED
  BY <1>1, <1>2, <1>3, <1>4, <1>5

\* After loadRemote an empty slot is the caller's; another app is unmounted first.
LEMMA LoadedInv == ASSUME Inv, NEW g \in Calls, Loaded(g) PROVE Inv'
<1>1. TypeOK'
  BY CallTypes DEF Inv, Settle
<1>2. /\ UNCHANGED <<route, access, alive, dirty, active, status, generation, host, entry,
                     failures, overlapped, orphaned, returned>>
      /\ call[g].at = "loading" /\ TypeOK /\ entry \in 0 .. MaxCalls
  BY DEF Loaded, Inv, TypeOK
<1>3. Opening(g) /\ call[g].app \in Apps
  BY <1>2 DEF Inv, KindsInv
<1>4. RaceFree' = RaceFree
  BY <1>2 DEF RaceFree
<1>5. CASE g # generation
  <2>1. At(g, "done") /\ nav' = nav
    BY <1>5 DEF Loaded
  <2>2. /\ call'[g].at = "done" /\ call'[g].kind = call[g].kind
        /\ call'[g].app = call[g].app /\ call'[g].target = call[g].target
        /\ \A h \in Calls : h # g => call'[h] = call[h]
    BY <1>2, <2>1, AtFacts DEF Stages
  <2>3. KindsInv'
    BY <1>2, <2>2 DEF Inv, KindsInv, Opening
  <2>4. SlotInv'
    BY <1>2, <1>5, <2>1, <2>2
       DEF Inv, SlotInv, RaceFree, TurnsInv, HostsInv, OwnerInv, WantedInv, Current, Opening, Mounting,
           Unmounting, Committed
  <2>5. GoneInv' /\ MountsInv' /\ ErrorInv' /\ ComingInv'
    BY <1>2, <1>5, <2>1, <2>2, OthersStep DEF Current, Mounting
  <2>6. ThereInv'
    BY <1>2, <1>5, <2>1, <2>2 DEF Inv, ThereInv, Current, Opening
  <2> QED
    BY <1>1, <2>3, <2>4, <2>5, <2>6 DEF Inv
<1>6. CASE g = generation /\ entry = 0
  <2>1. nav' = call[g].app /\ At(g, "styling")
    BY <1>6 DEF Loaded, StartMount
  <2>2. /\ call'[g].at = "styling" /\ call'[g].kind = call[g].kind
        /\ call'[g].app = call[g].app /\ call'[g].target = call[g].target
        /\ \A h \in Calls : h # g => call'[h] = call[h]
    BY <1>2, <2>1, AtFacts DEF Stages
  <2>3. KindsInv'
    BY <1>2, <1>3, <2>2 DEF Inv, KindsInv, Opening
  <2>4. ASSUME RaceFree PROVE TurnsInv' /\ HostsInv' /\ OwnerInv' /\ WantedInv'
    <3>1. TurnsInv /\ HostsInv
      BY <2>4 DEF Inv, SlotInv
    <3>2. \A h \in Calls : h # g => ~Committed(h) /\ ~Committed(h)'
      BY <1>3, <1>6, <2>2, <3>1 DEF TurnsInv, Current, Committed
    <3>3. TurnsInv'
      BY <1>2, <1>6, <2>2, <3>2 DEF TurnsInv, Current, Committed, Mounting, Unmounting
    <3>4. \A h \in Calls : h # entry /\ call'[h].at # "mounting" /\ call[h].at # "mounting"
      BY <1>2, <1>6, <2>2, <3>2 DEF Calls, Committed
    <3>5. HostsInv'
      BY <1>2, <3>1, <3>4 DEF HostsInv
    <3>6. OwnerInv'
      BY <1>2, <2>1, <2>2, <3>1, <3>2, <3>4 DEF OwnerInv, HostsInv, Mounting, Committed
    <3>7. WantedInv'
      BY <1>2, <1>6 DEF WantedInv
    <3> QED
      BY <3>3, <3>5, <3>6, <3>7
  <2>5. GoneInv' /\ MountsInv' /\ ErrorInv' /\ ComingInv' /\ ThereInv'
    BY <1>2, <1>3, <1>6, <2>1, <2>2, CurrentStep DEF Current, InFlight
  <2> QED
    BY <1>1, <1>4, <2>3, <2>4, <2>5 DEF Inv, SlotInv
<1>7. CASE g = generation /\ entry # 0
  <2>1. nav' = nav /\ call' = [call EXCEPT ![g].at = "clearing", ![g].target = entry]
    BY <1>7 DEF Loaded
  <2>2. /\ call'[g].at = "clearing" /\ call'[g].kind = call[g].kind
        /\ call'[g].app = call[g].app /\ call'[g].target = entry
        /\ \A h \in Calls : h # g => call'[h] = call[h]
    BY <1>2, <2>1, TargetFacts DEF Stages
  <2>3. KindsInv'
    BY <1>2, <1>3, <2>2 DEF Inv, KindsInv, Opening
  <2>4. ASSUME RaceFree PROVE TurnsInv' /\ HostsInv' /\ OwnerInv' /\ WantedInv'
    <3>1. TurnsInv /\ HostsInv /\ OwnerInv
      BY <2>4 DEF Inv, SlotInv
    <3>2. \A h \in Calls : h # g => ~Committed(h) /\ ~Committed(h)'
      BY <1>3, <1>7, <2>2, <3>1 DEF TurnsInv, Current, Committed
    <3>3. TurnsInv'
      BY <1>2, <1>7, <2>2, <3>2 DEF TurnsInv, Current, Committed, Mounting, Unmounting
    <3>4. HostsInv' /\ OwnerInv'
      BY <1>2, <2>1, <2>2, <3>1 DEF HostsInv, OwnerInv, Mounting
    <3>5. WantedInv'
      BY <2>2 DEF WantedInv, Unmounting
    <3> QED
      BY <3>3, <3>4, <3>5
  <2>5. GoneInv' /\ MountsInv' /\ ErrorInv' /\ ComingInv' /\ ThereInv'
    BY <1>2, <1>3, <1>7, <2>1, <2>2, CurrentStep DEF Current, InFlight, Mounting
  <2> QED
    BY <1>1, <1>4, <2>3, <2>4, <2>5 DEF Inv, SlotInv
<1> QED
  BY <1>5, <1>6, <1>7

\* Whoever unmounts leaves the slot empty, and nobody is mounting.
LEMMA UnmountEmpties ==
  ASSUME Inv, RaceFree, NEW g \in Calls, Unmounting(g), Unmount(g)
  PROVE  /\ entry' = 0 /\ \A h \in Calls : host'[h] # "inSlot"
         /\ \A h \in Calls : ~Mounting(h)
<1>1. TypeOK /\ TurnsInv /\ HostsInv
  BY DEF Inv, SlotInv
<1>2. \A h \in Calls : ~Mounting(h)
  BY <1>1 DEF TurnsInv, Mounting, Unmounting, Committed
<1>3. \A h \in Calls : host[h] = "inSlot" => h = call[g].target
  BY <1>1, <1>2 DEF TurnsInv, HostsInv, Mounting, Calls
<1>4. /\ entry' = 0
      /\ \A h \in Calls : host'[h] = IF h = call[g].target THEN "removed" ELSE host[h]
  BY <1>1, UnmountFacts
<1>5. \A h \in Calls : host'[h] # "inSlot"
  BY <1>3, <1>4
<1> QED
  BY <1>2, <1>4, <1>5

\* Unmounting removes the host of no call that was not made.
LEMMA UnmountUnused ==
  ASSUME TypeOK, KindsInv, NEW g \in Calls, Unmount(g)
  PROVE  entry' = 0 /\ \A h \in Calls : host[h] # "inSlot" => host'[h] # "inSlot"
BY UnmountFacts

\* After the unmount the slot is empty, so a current openApp may have it.
LEMMA ClearedInv == ASSUME Inv, NEW g \in Calls, Cleared(g) PROVE Inv'
<1>1. TypeOK'
  BY CallTypes DEF Inv, Settle
<1>2. /\ UNCHANGED <<route, access, alive, dirty, active, status, generation,
                     failures, overlapped, orphaned, returned>>
      /\ call[g].at = "clearing" /\ TypeOK /\ KindsInv /\ Unmount(g)
  BY DEF Cleared, Inv
<1>3. RaceFree' = RaceFree
  BY <1>2 DEF RaceFree
<1>4. entry' = 0 /\ \A h \in Calls : host[h] # "inSlot" => host'[h] # "inSlot"
  BY <1>2, UnmountUnused
<1>5. CASE Opening(g) /\ Current(g)
  <2>1. nav' = call[g].app /\ At(g, "styling")
    BY <1>5 DEF Cleared, StartMount, Opening, Current
  <2>2. /\ call'[g].at = "styling" /\ call'[g].kind = call[g].kind
        /\ call'[g].app = call[g].app
        /\ \A h \in Calls : h # g => call'[h] = call[h]
    BY <1>2, <2>1, AtFacts DEF Stages
  <2>3. KindsInv'
    BY <1>2, <1>4, <1>5, <2>2 DEF KindsInv, Opening, Calls
  <2>4. ASSUME RaceFree PROVE TurnsInv' /\ HostsInv' /\ OwnerInv' /\ WantedInv'
    <3>1. /\ TurnsInv
          /\ \A h \in Calls : host'[h] # "inSlot" /\ ~Mounting(h)
      BY <1>2, <2>4, UnmountEmpties DEF Inv, SlotInv, Unmounting
    <3>2. \A h \in Calls : h # g => ~Committed(h) /\ ~Committed(h)'
      BY <1>5, <2>2, <3>1 DEF TurnsInv, Committed
    <3>3. TurnsInv'
      BY <1>4, <2>2, <3>2, <1>2, <1>5 DEF TurnsInv, Current, Committed, Mounting, Unmounting
    <3>4. HostsInv'
      BY <1>4, <2>2, <3>1 DEF HostsInv, Mounting, Calls
    <3>5. OwnerInv'
      BY <2>1, <2>2, <3>1, <3>2 DEF OwnerInv, Mounting, Committed
    <3>6. WantedInv'
      BY <1>4 DEF WantedInv
    <3> QED
      BY <3>3, <3>4, <3>5, <3>6
  <2>5. GoneInv' /\ MountsInv' /\ ErrorInv' /\ ComingInv' /\ ThereInv'
    BY <1>2, <1>5, <2>1, <2>2, CurrentStep DEF InFlight
  <2> QED
    BY <1>1, <1>3, <2>3, <2>4, <2>5 DEF Inv, SlotInv
<1>6. CASE ~(Opening(g) /\ Current(g))
  <2>1. nav' = nav /\ At(g, "done")
    BY <1>6 DEF Cleared, Opening, Current
  <2>2. /\ call'[g].at = "done" /\ call'[g].kind = call[g].kind
        /\ call'[g].app = call[g].app /\ call'[g].target = call[g].target
        /\ \A h \in Calls : h # g => call'[h] = call[h]
    BY <1>2, <2>1, AtFacts DEF Stages
  <2>3. KindsInv'
    BY <1>2, <1>4, <2>2 DEF KindsInv, Opening, Calls
  <2>4. ASSUME RaceFree PROVE TurnsInv' /\ HostsInv' /\ OwnerInv' /\ WantedInv'
    <3>1. /\ TurnsInv
          /\ \A h \in Calls : host'[h] # "inSlot" /\ ~Mounting(h)
      BY <1>2, <2>4, UnmountEmpties DEF Inv, SlotInv, Unmounting
    <3>2. \A h \in Calls : ~Mounting(h)' /\ (Committed(h)' => Committed(h))
      BY <2>2, <3>1 DEF Mounting, Committed
    <3>3. TurnsInv'
      BY <1>2, <1>4, <2>2, <3>1, <3>2 DEF TurnsInv, Current, Opening
    <3>4. HostsInv'
      BY <1>4, <3>1, <3>2 DEF HostsInv, Mounting, Calls
    <3>5. OwnerInv' /\ WantedInv'
      BY <1>4, <3>1, <3>2 DEF OwnerInv, WantedInv
    <3> QED
      BY <3>3, <3>4, <3>5
  <2>5. GoneInv' /\ MountsInv' /\ ErrorInv' /\ ComingInv'
    BY <1>2, <1>6, <2>1, <2>2, OthersStep DEF Mounting
  <2>6. ThereInv'
    <3>1. SUFFICES ASSUME alive, active = route, ~overlapped, ~returned, failures = 0 PROVE FALSE
      BY <1>2 DEF ThereInv
    <3>2. RaceFree
      BY <3>1 DEF Inv, ErrorInv, RaceFree
    <3>3. PICK h \in Calls : Current(h) /\ Opening(h) /\ call[h].at = "done"
      BY <3>1 DEF Inv, ThereInv
    <3>4. g # h /\ Committed(g)
      BY <1>2, <3>3 DEF Committed
    <3> QED
      BY <3>2, <3>3, <3>4 DEF Inv, SlotInv, TurnsInv
  <2> QED
    BY <1>1, <1>3, <2>3, <2>4, <2>5, <2>6 DEF Inv, SlotInv
<1> QED
  BY <1>5, <1>6

\* Once styled, the host goes into a slot that is empty and its own.
LEMMA StyledInv == ASSUME Inv, NEW g \in Calls, Styled(g) PROVE Inv'
<1>1. TypeOK'
  BY CallTypes DEF Inv, Settle
<1>2. /\ UNCHANGED <<route, access, alive, dirty, active, status, generation, entry, nav,
                     failures, overlapped, orphaned, returned>>
      /\ call[g].at = "styling" /\ TypeOK /\ KindsInv /\ At(g, "mounting")
  BY DEF Styled, Inv
<1>3. RaceFree' = RaceFree
  BY <1>2 DEF RaceFree
<1>4. /\ call'[g].at = "mounting" /\ call'[g].kind = call[g].kind
      /\ call'[g].app = call[g].app /\ call'[g].target = call[g].target
      /\ \A h \in Calls : h # g => call'[h] = call[h]
  BY <1>2, AtFacts DEF Stages
<1>5. /\ host'[g] = "inSlot"
      /\ \A h \in Calls : h # g => host'[h] = host[h]
  BY <1>2 DEF Styled, TypeOK
<1>6. KindsInv'
  BY <1>2, <1>4, <1>5 DEF KindsInv, Opening
<1>7. ASSUME RaceFree PROVE TurnsInv' /\ HostsInv' /\ OwnerInv' /\ WantedInv'
  <2>1. TurnsInv /\ HostsInv /\ OwnerInv /\ WantedInv
    BY <1>7 DEF Inv, SlotInv
  <2>2. entry = 0
    BY <1>2, <2>1 DEF TurnsInv, Mounting
  <2>3. TurnsInv'
    BY <1>2, <1>4, <2>1, <2>2 DEF TurnsInv, Current, Opening, Committed, Mounting, Unmounting
  <2>4. HostsInv'
    BY <1>2, <1>4, <1>5, <2>1 DEF HostsInv
  <2>5. OwnerInv'
    BY <1>2, <1>4, <1>5, <2>1 DEF OwnerInv, Mounting
  <2>6. WantedInv'
    BY <1>2, <2>2 DEF WantedInv
  <2> QED
    BY <2>3, <2>4, <2>5, <2>6
<1>8. GoneInv' /\ MountsInv' /\ ErrorInv' /\ ComingInv'
  <2>1. CASE Current(g)
    <3>1. Opening(g) /\ nav = call[g].app
      BY <1>2, <2>1 DEF Inv, KindsInv, MountsInv, Mounting
    <3> QED
      BY <1>2, <1>4, <2>1, <3>1, CurrentStep DEF InFlight
  <2>2. CASE ~Current(g)
    BY <1>2, <1>4, <2>2, OthersStep
  <2> QED
    BY <2>1, <2>2
<1>9. ThereInv'
  <2>1. SUFFICES ASSUME alive, active = route, ~overlapped, ~returned, failures = 0
                 PROVE  \E h \in Calls : /\ Current(h)' /\ Opening(h)' /\ call'[h].at = "done"
                                         /\ entry' = h /\ call'[h].app = route /\ nav' = route
                                         /\ status' = [kind |-> "mounted", app |-> route]
    BY <1>2 DEF ThereInv
  <2>2. PICK h \in Calls : /\ Current(h) /\ Opening(h) /\ call[h].at = "done"
                           /\ entry = h /\ call[h].app = route /\ nav = route
                           /\ status = [kind |-> "mounted", app |-> route]
    BY <2>1 DEF Inv, ThereInv
  <2>3. h # g
    BY <1>2, <2>2
  <2> QED
    BY <1>2, <1>4, <2>2, <2>3 DEF Current, Opening
<1> QED
  BY <1>1, <1>3, <1>6, <1>7, <1>8, <1>9 DEF Inv, SlotInv

\* The app that mounted is there, or, superseded, backs out.
LEMMA MountedInv == ASSUME Inv, NEW g \in Calls, Mounted(g) PROVE Inv'
<1>1. TypeOK'
  BY CallTypes DEF Inv, Settle
<1>2. /\ UNCHANGED <<route, access, alive, generation, host, nav, failures, overlapped,
                     orphaned, returned>>
      /\ call[g].at = "mounting" /\ TypeOK /\ KindsInv /\ entry' = g /\ g \in 0 .. MaxCalls
  BY DEF Mounted, Inv, Calls
<1>3. RaceFree' = RaceFree
  BY <1>2 DEF RaceFree
<1>4. Opening(g) /\ call[g].app \in Apps /\ call[g].app # None
  BY <1>2, SlotAssumption DEF KindsInv, Opening
<1>5. ASSUME RaceFree
      PROVE  /\ TurnsInv /\ HostsInv /\ OwnerInv /\ entry = 0
             /\ \A h \in Calls : h # g => ~Committed(h)
  BY <1>2, <1>5 DEF Inv, SlotInv, TurnsInv, Mounting
<1>6. CASE g # generation
  <2>1. /\ call' = [call EXCEPT ![g].at = "backingOut", ![g].target = g]
        /\ UNCHANGED <<active, dirty, status>>
    BY <1>6 DEF Mounted
  <2>2. /\ call'[g].at = "backingOut" /\ call'[g].kind = call[g].kind
        /\ call'[g].app = call[g].app /\ call'[g].target = g
        /\ \A h \in Calls : h # g => call'[h] = call[h]
    BY <1>2, <2>1, TargetFacts DEF Stages
  <2>3. KindsInv'
    BY <1>2, <1>4, <2>2 DEF KindsInv, Opening
  <2>4. ASSUME RaceFree PROVE TurnsInv' /\ HostsInv' /\ OwnerInv' /\ WantedInv'
    <3>1. \A h \in Calls : h # g => ~Committed(h)'
      BY <1>5, <2>2, <2>4 DEF Committed
    <3>2. TurnsInv'
      BY <1>2, <1>5, <1>6, <2>2, <2>4, <3>1
         DEF TurnsInv, Current, Opening, Committed, Mounting, Unmounting
    <3>3. HostsInv'
      BY <1>2, <1>5, <2>2, <2>4, <3>1 DEF HostsInv, Committed, Calls
    <3>4. OwnerInv'
      BY <1>2, <1>5, <2>2, <2>4 DEF OwnerInv, Mounting
    <3>5. WantedInv'
      BY <2>2 DEF WantedInv, Unmounting
    <3> QED
      BY <3>2, <3>3, <3>4, <3>5
  <2>5. GoneInv' /\ MountsInv' /\ ErrorInv' /\ ComingInv'
    BY <1>2, <1>6, <2>1, <2>2, OthersStep DEF Current, Mounting
  <2>6. ThereInv'
    <3>1. SUFFICES ASSUME alive, active = route, ~overlapped, ~returned, failures = 0 PROVE FALSE
      BY <1>2, <2>1 DEF ThereInv
    <3>2. RaceFree
      BY <3>1 DEF Inv, ErrorInv, RaceFree
    <3>3. PICK h \in Calls : entry = h
      BY <3>1 DEF Inv, ThereInv
    <3> QED
      BY <1>5, <3>2, <3>3 DEF Calls
  <2> QED
    BY <1>1, <1>3, <2>3, <2>4, <2>5, <2>6 DEF Inv, SlotInv
<1>7. CASE g = generation
  <2>1. /\ At(g, "done") /\ active' = call[g].app /\ dirty' = (dirty \/ active # active')
        /\ status' = [kind |-> "mounted", app |-> call[g].app]
    BY <1>7 DEF Mounted, Show
  <2>2. /\ call'[g].at = "done" /\ call'[g].kind = call[g].kind
        /\ call'[g].app = call[g].app /\ call'[g].target = call[g].target
        /\ \A h \in Calls : h # g => call'[h] = call[h]
    BY <1>2, <2>1, AtFacts DEF Stages
  <2>3. KindsInv'
    BY <1>2, <1>4, <2>2 DEF KindsInv, Opening
  <2>4. ASSUME RaceFree PROVE TurnsInv' /\ HostsInv' /\ OwnerInv' /\ WantedInv'
    <3>1. \A h \in Calls : ~Committed(h)'
      BY <1>5, <2>2, <2>4 DEF Committed
    <3>2. TurnsInv'
      BY <3>1 DEF TurnsInv, Committed, Mounting, Unmounting
    <3>3. HostsInv'
      BY <1>2, <1>5, <2>2, <2>4, <3>1 DEF HostsInv, Committed, Calls
    <3>4. OwnerInv'
      BY <1>2, <1>5, <2>2, <2>4 DEF OwnerInv, Mounting
    <3>5. WantedInv'
      BY <1>2, <1>4, <1>7, <2>1, <2>2 DEF WantedInv, Current, Opening
    <3> QED
      BY <3>2, <3>3, <3>4, <3>5
  <2>5. alive /\ ~(~dirty /\ Denied)
    BY <1>4, <1>7 DEF Inv, GoneInv, Current, Opening
  <2>6. GoneInv'
    BY <1>2, <2>1, <2>5 DEF GoneInv, Denied
  <2>7. nav = call[g].app
    BY <1>2, <1>7 DEF Inv, MountsInv, Current, Mounting
  <2>8. MountsInv'
    BY <1>2, <2>2, <1>7 DEF MountsInv, Current, Mounting
  <2>9. ErrorInv'
    BY <1>2, <2>1 DEF Inv, ErrorInv
  <2>10. ComingInv'
    <3>1. SUFFICES ASSUME ~dirty, active = active', Allowed, route \notin Unresolvable,
                          active # route, failures = 0
                   PROVE  FALSE
      BY <1>2, <2>1 DEF ComingInv, Allowed
    <3>2. PICK h \in Calls : Current(h) /\ call[h].app = route
      BY <2>5, <3>1 DEF Inv, ComingInv
    <3> QED
      BY <1>7, <2>1, <3>1, <3>2 DEF Current
  <2>11. ThereInv'
    BY <1>2, <1>4, <1>7, <2>1, <2>2, <2>7 DEF ThereInv, Current, Opening
  <2> QED
    BY <1>1, <1>3, <2>3, <2>4, <2>6, <2>8, <2>9, <2>10, <2>11 DEF Inv, SlotInv
<1> QED
  BY <1>6, <1>7

\* One that backs out leaves the slot to its successor.
LEMMA BackedOutInv == ASSUME Inv, NEW g \in Calls, BackedOut(g) PROVE Inv'
<1>1. TypeOK'
  BY CallTypes DEF Inv, Settle
<1>2. /\ UNCHANGED <<route, access, alive, dirty, active, status, generation, nav,
                     failures, overlapped, orphaned, returned>>
      /\ call[g].at = "backingOut" /\ TypeOK /\ KindsInv /\ Unmount(g) /\ At(g, "done")
  BY DEF BackedOut, Inv
<1>3. RaceFree' = RaceFree
  BY <1>2 DEF RaceFree
<1>4. /\ call'[g].at = "done" /\ call'[g].kind = call[g].kind
      /\ call'[g].app = call[g].app /\ call'[g].target = call[g].target
      /\ \A h \in Calls : h # g => call'[h] = call[h]
  BY <1>2, AtFacts DEF Stages
<1>5. entry' = 0 /\ \A h \in Calls : host[h] # "inSlot" => host'[h] # "inSlot"
  BY <1>2, UnmountUnused
<1>6. KindsInv'
  BY <1>2, <1>4, <1>5 DEF KindsInv, Opening, Calls
<1>7. ASSUME RaceFree PROVE TurnsInv' /\ HostsInv' /\ OwnerInv' /\ WantedInv'
  <2>1. /\ TurnsInv
        /\ \A h \in Calls : host'[h] # "inSlot" /\ ~Mounting(h)
    BY <1>2, <1>7, UnmountEmpties DEF Inv, SlotInv, Unmounting
  <2>2. \A h \in Calls : ~Mounting(h)' /\ (Committed(h)' => Committed(h))
    BY <1>4, <2>1 DEF Mounting, Committed
  <2>3. TurnsInv'
    BY <1>2, <1>4, <1>5, <2>1, <2>2 DEF TurnsInv, Current, Opening
  <2>4. HostsInv'
    BY <1>5, <2>1, <2>2 DEF HostsInv, Mounting, Calls
  <2>5. OwnerInv' /\ WantedInv'
    BY <1>5, <2>1, <2>2 DEF OwnerInv, WantedInv
  <2> QED
    BY <2>3, <2>4, <2>5
<1>8. ~Current(g)
  BY <1>2 DEF Inv, MountsInv
<1>9. GoneInv' /\ MountsInv' /\ ErrorInv' /\ ComingInv'
  BY <1>2, <1>4, <1>8, OthersStep
<1>10. ThereInv'
  <2>1. SUFFICES ASSUME alive, active = route, ~overlapped, ~returned, failures = 0 PROVE FALSE
    BY <1>2 DEF ThereInv
  <2>2. RaceFree
    BY <2>1 DEF Inv, ErrorInv, RaceFree
  <2>3. PICK h \in Calls : Current(h) /\ Opening(h) /\ call[h].at = "done"
    BY <2>1 DEF Inv, ThereInv
  <2>4. g # h /\ Committed(g)
    BY <1>2, <2>3 DEF Committed
  <2> QED
    BY <2>2, <2>3, <2>4 DEF Inv, SlotInv, TurnsInv
<1> QED
  BY <1>1, <1>3, <1>6, <1>7, <1>9, <1>10 DEF Inv, SlotInv

\* A rejection ends the race-free states, or happens outside the slot.
LEMMA FailsInv == ASSUME Inv, NEW g \in Calls, Fails(g) PROVE Inv'
<1>1. TypeOK'
  BY CallTypes DEF Inv
<1>2. /\ UNCHANGED <<route, access, alive, dirty, active, generation, host, entry, nav,
                     overlapped, returned>>
      /\ failures' = failures + 1 /\ failures \in Nat
      /\ InFlight(g) /\ TypeOK /\ KindsInv /\ At(g, "done")
  BY DEF Fails, Inv, TypeOK
<1>3. /\ call'[g].at = "done" /\ call'[g].kind = call[g].kind
      /\ call'[g].app = call[g].app /\ call'[g].target = call[g].target
      /\ \A h \in Calls : h # g => call'[h] = call[h]
  BY <1>2, AtFacts DEF Stages
<1>4. KindsInv'
  BY <1>2, <1>3 DEF KindsInv, Opening, InFlight
<1>5. ASSUME RaceFree' PROVE TurnsInv' /\ HostsInv' /\ OwnerInv' /\ WantedInv'
  <2>1. RaceFree /\ call[g].at \in {"loading", "styling"}
    <3>1. RaceFree /\ call[g].at \notin {"clearing", "mounting", "backingOut"}
      <4>1. ~overlapped' /\ ~orphaned'
        BY <1>5 DEF RaceFree
      <4>2. overlapped' = overlapped
        BY <1>2
      <4>3. orphaned' = (orphaned \/ call[g].at \in {"clearing", "mounting", "backingOut"})
        BY DEF Fails
      <4> QED
        BY <4>1, <4>2, <4>3, Zenon DEF RaceFree
    <3>2. call[g] \in Call
      BY <1>2 DEF TypeOK
    <3>3. call[g].at \in Stages
      BY <3>2 DEF Call
    <3> QED
      BY <1>2, <3>1, <3>3 DEF InFlight, Stages
  <2>2. TurnsInv /\ HostsInv /\ OwnerInv /\ WantedInv
    BY <2>1 DEF Inv, SlotInv
  <2>3. TurnsInv'
    BY <1>2, <1>3, <2>2 DEF TurnsInv, Current, Opening, Committed, Mounting, Unmounting
  <2>4. HostsInv' /\ OwnerInv'
    BY <1>2, <1>3, <2>1, <2>2 DEF HostsInv, OwnerInv, Mounting
  <2>5. WantedInv'
    BY <1>2, <1>3, <2>1, <2>2 DEF WantedInv, Current, Opening, Unmounting
  <2> QED
    BY <2>3, <2>4, <2>5
<1>6. GoneInv'
  <2>1. ~Opening(g) \/ ~Current(g) => status' = status
    BY DEF Fails, ShowError, Opening, Current
  <2>2. \A h \in Calls : Current(h)' = Current(h) /\ Opening(h)' = Opening(h)
    BY <1>2, <1>3 DEF Current, Opening
  <2> QED
    BY <1>2, <2>1, <2>2 DEF Inv, GoneInv, Denied, Current
<1>7. MountsInv'
  BY <1>2, <1>3 DEF Inv, MountsInv, Current, Mounting
<1>8. failures' # 0
  BY <1>2
<1>9. ErrorInv' /\ ComingInv' /\ ThereInv'
  BY <1>8 DEF ErrorInv, ComingInv, ThereInv
<1> QED
  BY <1>1, <1>4, <1>5, <1>6, <1>7, <1>9 DEF Inv, SlotInv

\* One step of any of them.
LEMMA NextInv == Inv /\ [Next]_vars => Inv'
<1> SUFFICES ASSUME Inv, [Next]_vars PROVE Inv'
  OBVIOUS
<1>1. CASE UNCHANGED vars
  BY <1>1 DEF vars, Inv, TypeOK, KindsInv, SlotInv, TurnsInv, HostsInv, OwnerInv, WantedInv,
              GoneInv, MountsInv, ErrorInv, ComingInv, ThereInv, RaceFree, Current, Opening,
              Mounting, Unmounting, Committed, InFlight, Denied, Allowed
<1>2. CASE Effect
  BY <1>2, PendingInv, DeniedInv, AllowedInv DEF Effect
<1>3. CASE Retry \/ Leave \/ Move
  BY <1>3, RetryInv, LeaveInv, MoveInv
<1>4. CASE \E g \in Calls : Settle(g) \/ Fails(g)
  BY <1>4, LoadedInv, ClearedInv, StyledInv, MountedInv, BackedOutInv, FailsInv DEF Settle
<1> QED
  BY <1>1, <1>2, <1>3, <1>4 DEF Next

-----------------------------------------------------------------------------
(* Theorems.                                                               *)

\* The invariant holds throughout.
THEOREM SlotCorrect == Spec => []Inv
BY InitInv, NextInv, PTL DEF Spec

\* Every state of the slot is typed (AppSlot.tsx, createMountManager.ts).
THEOREM SlotTypeCorrect == Spec => []TypeOK
<1>1. Inv => TypeOK
  BY DEF Inv
<1> QED
  BY <1>1, SlotCorrect, PTL

(***************************************************************************)
(* However addresses, access and loads change on the way, two apps are     *)
(* never in the slot together, but for the two named races                 *)
(* (AppSlot.tsx's generations over createMountManager's mount and unmount).*)
(***************************************************************************)
THEOREM OneAppInSlot == Spec => []OneAppAtATime
<1>1. Inv => OneAppAtATime
  <2> SUFFICES ASSUME Inv, RaceFree PROVE Cardinality(InSlot) <= 1
    BY DEF OneAppAtATime, RaceFree
  <2>1. TurnsInv /\ HostsInv
    BY DEF Inv, SlotInv
  <2>2. \A g, h \in InSlot : g = h
    BY <2>1 DEF TurnsInv, HostsInv, InSlot, Mounting, Committed, Calls
  <2>3. InSlot = {} \/ \E g \in InSlot : InSlot = {g}
    BY <2>2
  <2> QED
    BY <2>3, FS_EmptySet, FS_Singleton
<1> QED
  BY <1>1, SlotCorrect, PTL

\* Only the app in the slot may publish breadcrumbs (AppSlot.tsx).
THEOREM NavOwnedBySlot == Spec => []NavOwner
<1>1. Inv => NavOwner
  BY DEF Inv, SlotInv, RaceFree, OwnerInv, NavOwner, InSlot
<1> QED
  BY <1>1, SlotCorrect, PTL

\* Nobody is mounting, unmounting or known, when all has settled.
LEMMA SettledSlot ==
  ASSUME Inv, RaceFree, \A g \in Calls : ~InFlight(g)
  PROVE  \A g \in Calls : ~Unmounting(g) /\ (host[g] = "inSlot" <=> g = entry)
BY DEF Inv, SlotInv, HostsInv, Unmounting, InFlight

(***************************************************************************)
(* Whoever is denied the app, or leaves, leaves nothing mounted: whatever  *)
(* was in the slot or on its way there is gone when all has settled        *)
(* (AppSlot.tsx's showDenied and cleanup).                                 *)
(***************************************************************************)
THEOREM DeniedIsUnloaded == Spec => []Unloaded
<1>1. Inv => Unloaded
  <2> SUFFICES ASSUME Inv, Quiet, ~alive \/ Denied, RaceFree
               PROVE  InSlot = {} /\ entry = 0 /\ nav = None
    BY DEF Unloaded, RaceFree
  <2>1. nav = None /\ \E g \in Calls : Current(g) /\ ~Opening(g)
    BY DEF Inv, GoneInv, Quiet
  <2>2. \A g \in Calls : ~Unmounting(g) /\ (host[g] = "inSlot" <=> g = entry)
    BY SettledSlot DEF Quiet
  <2>3. entry = 0
    BY <2>1, <2>2 DEF Inv, SlotInv, WantedInv
  <2> QED
    BY <2>1, <2>2, <2>3 DEF InSlot, Calls
<1> QED
  BY <1>1, SlotCorrect, PTL

(***************************************************************************)
(* Where the app is allowed, what is on screen when all has settled is the *)
(* app of the address, mounted, known, and the one that may publish, but   *)
(* for the named exceptions (AppSlot.tsx's effect and openApp).            *)
(***************************************************************************)
THEOREM RouteIsShown == Spec => []ShowsRoute
<1>1. Inv => ShowsRoute
  <2> SUFFICES ASSUME Inv, Quiet, alive, Allowed, route \notin Unresolvable,
                      ~overlapped, ~returned, failures = 0
               PROVE  \E g \in Calls : /\ InSlot = {g} /\ entry = g /\ call[g].app = route
                                       /\ active = route /\ nav = route
                                       /\ status = [kind |-> "mounted", app |-> route]
    BY DEF ShowsRoute
  <2>1. RaceFree
    BY DEF Inv, ErrorInv, RaceFree
  <2>2. active = route
    BY DEF Inv, ComingInv, Quiet
  <2>3. PICK g \in Calls : /\ entry = g /\ call[g].app = route /\ nav = route
                           /\ status = [kind |-> "mounted", app |-> route]
    BY <2>2 DEF Inv, ThereInv
  <2>4. InSlot = {g}
    BY <2>1, <2>3, SettledSlot DEF Quiet, InSlot
  <2> QED
    BY <2>2, <2>3, <2>4
<1> QED
  BY <1>1, SlotCorrect, PTL
=============================================================================
