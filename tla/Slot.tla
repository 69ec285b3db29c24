-------------------------------- MODULE Slot --------------------------------
(***************************************************************************)
(* The slot of the shell in which sub-apps run: the component AppSlot      *)
(* (apps/host/src/chrome/AppSlot.tsx) and the mount manager under it       *)
(* (apps/host/src/mount-manager/createMountManager.ts), from the moment    *)
(* the person enters the app area until the component is left.             *)
(*                                                                         *)
(* openApp, showDenied and the cleanup each take a new generation and then *)
(* await; a call is named by its generation, and so is the host element    *)
(* that it mounts.  A call of openApp is a sequence of steps cut where the *)
(* code awaits:                                                            *)
(*                                                                         *)
(*   loading -> clearing -> styling -> mounting -> done | backingOut       *)
(*                                                                         *)
(* and one of showDenied or the cleanup only clears.                       *)
(***************************************************************************)
EXTENDS Naturals, FiniteSets

CONSTANTS Apps,
          Unresolvable,   \* apps registry.resolve refuses
          None,           \* null
          MaxCalls,       \* bound: generations
          MaxMoves,       \* bound: what the person and the tracker do
          MaxFailures     \* bound: rejected promises

ASSUME SlotAssumption ==
  /\ Unresolvable \subseteq Apps /\ None \notin Apps
  /\ MaxCalls \in Nat /\ MaxMoves \in Nat /\ MaxFailures \in Nat

VARIABLES
  route,        \* the app of the address
  access,       \* what the tracker says: apps allowed, or None while loading
  alive,        \* the component is mounted
  dirty,        \* a dependency of the effect changed since it ran
  active,       \* activeAppId
  status,       \* slotStatus
  lastAttempt,  \* lastAttemptAppId
  generation,   \* openGenerationRef
  call,         \* the calls made so far
  host,         \* their host elements
  entry,        \* mountedSlots.get(slot): whose host, 0 for none
  nav,          \* the app that may publish breadcrumbs
  moves, failures,  \* used up of their bounds
  overlapped,   \* an open began while another call was at work in the slot
  orphaned,     \* an app's mount or unmount failed and left its host behind
  returned      \* the address left the active app and came back to it

vars == <<route, access, alive, dirty, active, status, lastAttempt, generation,
          call, host, entry, nav, moves, failures, overlapped, orphaned, returned>>

Calls == 1 .. MaxCalls

Kinds == {"open", "clear"}

Stages == {"unused", "loading", "clearing", "styling", "mounting", "backingOut", "done"}

Call == [kind : Kinds, app : Apps \cup {None}, at : Stages, target : 0 .. MaxCalls]

Status == [kind : {"idle", "loading", "mounted", "error", "denied"}, app : Apps \cup {None}]

TypeOK ==
  /\ route \in Apps
  /\ access \in (SUBSET Apps) \cup {None}
  /\ alive \in BOOLEAN /\ dirty \in BOOLEAN
  /\ active \in Apps \cup {None}
  /\ status \in Status
  /\ lastAttempt \in Apps \cup {None}
  /\ generation \in 0 .. MaxCalls
  /\ call \in [Calls -> Call]
  /\ \A g \in Calls : call[g].at = "unused" <=> g > generation
  /\ host \in [Calls -> {"none", "inSlot", "removed"}]
  /\ entry \in 0 .. MaxCalls
  /\ nav \in Apps \cup {None}
  /\ moves \in 0 .. MaxMoves /\ failures \in 0 .. MaxFailures
  /\ {overlapped, orphaned, returned} \subseteq BOOLEAN

Init ==
  /\ route \in Apps
  /\ access \in {None, Apps}
  /\ alive = TRUE /\ dirty = TRUE
  /\ active = None /\ status = [kind |-> "idle", app |-> None] /\ lastAttempt = None
  /\ generation = 0
  /\ call = [g \in Calls |-> [kind |-> "open", app |-> None, at |-> "unused", target |-> 0]]
  /\ host = [g \in Calls |-> "none"]
  /\ entry = 0 /\ nav = None
  /\ moves = 0 /\ failures = 0 /\ overlapped = FALSE
  /\ orphaned = FALSE /\ returned = FALSE

-----------------------------------------------------------------------------
(* Pieces.                                                                 *)

Show(kind, app) == status' = [kind |-> kind, app |-> app]

\* slotStatus shows the error only of the latest call.
ShowError(g) ==
  status' = IF g = generation THEN [kind |-> "error", app |-> call[g].app] ELSE status

InFlight(g) == call[g].at \notin {"unused", "done"}

\* At work in the slot: what it awaits will change the slot.
Committed(g) == call[g].at \in {"clearing", "styling", "mounting", "backingOut"}

\* Mutant: the counter is not moved on.
NewCallSameGeneration(kind, app, at, target) ==
  /\ generation < MaxCalls
  /\ generation' = generation
  /\ call' = [call EXCEPT ![generation + 1] =
                [kind |-> kind, app |-> app, at |-> at, target |-> target]]

\* ++openGenerationRef.current
NewCall(kind, app, at, target) ==
  /\ generation < MaxCalls
  /\ generation' = generation + 1
  /\ call' = [call EXCEPT ![generation + 1] =
                [kind |-> kind, app |-> app, at |-> at, target |-> target]]

(***************************************************************************)
(* openApp up to its first await.                                          *)
(***************************************************************************)
OpenApp(app) ==
  /\ lastAttempt' = app
  /\ overlapped' = (overlapped \/ \E g \in Calls : Committed(g))
  /\ \/ /\ app \in Unresolvable
        /\ NewCall("open", app, "done", 0)
        /\ Show("error", app)
     \/ /\ app \notin Unresolvable
        /\ NewCall("open", app, "loading", 0)
        /\ Show("loading", app)

(***************************************************************************)
(* mountManager.unmount(slot) where nothing is mounted returns at once;    *)
(* otherwise it awaits the app's own unmount.                              *)
(***************************************************************************)
ClearingFrom(e) == IF e = 0 THEN "done" ELSE "clearing"

ShowDenied(app) ==
  /\ nav' = None
  /\ Show("denied", app)
  /\ IF active # None THEN NewCall("clear", None, ClearingFrom(entry), entry)
                      ELSE NewCall("clear", None, "done", 0)
  /\ active' = None
  /\ dirty' = (active # None)

-----------------------------------------------------------------------------
(* The component.                                                          *)

\* The decision has not come yet.
EffectPending ==
  /\ access = None
  /\ status' = IF route # active THEN [kind |-> "loading", app |-> route] ELSE status
  /\ dirty' = FALSE
  /\ UNCHANGED <<active, lastAttempt, generation, call, nav, overlapped>>

EffectDenied ==
  /\ access # None
  /\ route \notin access
  /\ ShowDenied(route)
  /\ UNCHANGED <<lastAttempt, overlapped>>

EffectAllowed ==
  /\ access # None
  /\ route \in access
  /\ dirty' = FALSE
  /\ IF route # active
       THEN OpenApp(route)
       ELSE UNCHANGED <<status, lastAttempt, generation, call, overlapped>>
  /\ UNCHANGED <<active, nav>>

Effect ==
  /\ alive /\ dirty
  /\ EffectPending \/ EffectDenied \/ EffectAllowed
  /\ UNCHANGED <<route, access, alive, host, entry, moves, failures, orphaned, returned>>

\* "Повторить" on a load that failed.
Retry ==
  /\ alive /\ status.kind = "error" /\ status.app \notin Unresolvable
  /\ lastAttempt # None
  /\ moves < MaxMoves /\ moves' = moves + 1
  /\ OpenApp(lastAttempt)
  /\ UNCHANGED <<route, access, alive, dirty, active, host, entry, nav, failures,
                 orphaned, returned>>

\* The cleanup when the app area is left.
Leave ==
  /\ alive
  /\ moves < MaxMoves /\ moves' = moves + 1
  /\ alive' = FALSE
  /\ nav' = None
  /\ NewCall("clear", None, ClearingFrom(entry), entry)
  /\ UNCHANGED <<route, access, dirty, active, status, lastAttempt, host, entry,
                 failures, overlapped, orphaned, returned>>

(***************************************************************************)
(* The address or the access changes, or is replaced by an equal one: a    *)
(* path inside the app, a reload of the same access.                       *)
(***************************************************************************)
Move ==
  /\ alive
  /\ moves < MaxMoves /\ moves' = moves + 1
  /\ \/ route' \in Apps /\ UNCHANGED access
     \/ access' \in {None, Apps, Apps \ {route}} /\ UNCHANGED route
  /\ returned' = (returned \/ (route' = active /\ route # active))
  /\ dirty' = TRUE
  /\ UNCHANGED <<alive, active, status, lastAttempt, generation, call, host, entry,
                 nav, failures, overlapped, orphaned>>

-----------------------------------------------------------------------------
(* openApp after its awaits.                                               *)

At(g, stage) == call' = [call EXCEPT ![g].at = stage]

\* From here on openApp does not look again before the app is mounted.
StartMount(g) ==
  /\ nav' = call[g].app
  /\ At(g, "styling")

\* Mutant: what was loaded is mounted, superseded or not.
LoadedAnyway(g) ==
  /\ call[g].at = "loading"
  /\ IF entry = 0
       THEN StartMount(g)
       ELSE /\ call' = [call EXCEPT ![g].at = "clearing", ![g].target = entry]
            /\ UNCHANGED nav
  /\ UNCHANGED <<route, access, alive, dirty, active, status, lastAttempt, generation,
                 host, entry, moves, failures, overlapped, orphaned, returned>>

\* Mutant: the app may publish before the one on screen is gone.
LoadedActivates(g) ==
  /\ call[g].at = "loading"
  /\ \/ /\ g # generation
        /\ At(g, "done") /\ UNCHANGED nav
     \/ /\ g = generation /\ entry = 0
        /\ StartMount(g)
     \/ /\ g = generation /\ entry # 0
        /\ call' = [call EXCEPT ![g].at = "clearing", ![g].target = entry]
        /\ nav' = call[g].app
  /\ UNCHANGED <<route, access, alive, dirty, active, status, lastAttempt, generation,
                 host, entry, moves, failures, overlapped, orphaned, returned>>

Loaded(g) ==
  /\ call[g].at = "loading"
  /\ \/ /\ g # generation
        /\ At(g, "done") /\ UNCHANGED nav
     \/ /\ g = generation /\ entry = 0
        /\ StartMount(g)
     \/ /\ g = generation /\ entry # 0
        /\ call' = [call EXCEPT ![g].at = "clearing", ![g].target = entry]
        /\ UNCHANGED nav
  /\ UNCHANGED <<route, access, alive, dirty, active, status, lastAttempt, generation,
                 host, entry, moves, failures, overlapped, orphaned, returned>>

(***************************************************************************)
(* The app's unmount has resolved: its host goes and the slot's entry is   *)
(* deleted, whoever's it is by now.                                        *)
(***************************************************************************)
Unmount(g) ==
  /\ host' = [host EXCEPT ![call[g].target] = "removed"]
  /\ entry' = 0

Cleared(g) ==
  /\ call[g].at = "clearing"
  /\ Unmount(g)
  /\ IF call[g].kind = "open" /\ g = generation
       THEN StartMount(g)
       ELSE At(g, "done") /\ UNCHANGED nav
  /\ UNCHANGED <<route, access, alive, dirty, active, status, lastAttempt, generation,
                 moves, failures, overlapped, orphaned, returned>>

\* Styles are there: the host enters the slot and the app's mount is called.
Styled(g) ==
  /\ call[g].at = "styling"
  /\ host' = [host EXCEPT ![g] = "inSlot"]
  /\ At(g, "mounting")
  /\ UNCHANGED <<route, access, alive, dirty, active, status, lastAttempt, generation,
                 entry, nav, moves, failures, overlapped, orphaned, returned>>

\* Mutant: a superseded call leaves what it mounted.
MountedStays(g) ==
  /\ call[g].at = "mounting"
  /\ entry' = g
  /\ At(g, "done")
  /\ IF g # generation
       THEN UNCHANGED <<active, dirty, status>>
       ELSE /\ active' = call[g].app
            /\ dirty' = (dirty \/ active # active')
            /\ Show("mounted", call[g].app)
  /\ UNCHANGED <<route, access, alive, lastAttempt, generation, host, nav, moves,
                 failures, overlapped, orphaned, returned>>

\* The app's mount has resolved.
Mounted(g) ==
  /\ call[g].at = "mounting"
  /\ entry' = g
  /\ IF g # generation
       THEN /\ call' = [call EXCEPT ![g].at = "backingOut", ![g].target = g]
            /\ UNCHANGED <<active, dirty, status>>
       ELSE /\ At(g, "done")
            /\ active' = call[g].app
            /\ dirty' = (dirty \/ active # active')
            /\ Show("mounted", call[g].app)
  /\ UNCHANGED <<route, access, alive, lastAttempt, generation, host, nav, moves,
                 failures, overlapped, orphaned, returned>>

BackedOut(g) ==
  /\ call[g].at = "backingOut"
  /\ Unmount(g)
  /\ At(g, "done")
  /\ UNCHANGED <<route, access, alive, dirty, active, status, lastAttempt, generation,
                 nav, moves, failures, overlapped, orphaned, returned>>

(***************************************************************************)
(* A promise rejects: openApp's catch shows the error if the call is still *)
(* the latest.  Nothing is cleaned up.                                     *)
(***************************************************************************)
Fails(g) ==
  /\ InFlight(g)
  /\ failures < MaxFailures /\ failures' = failures + 1
  /\ At(g, "done")
  /\ IF call[g].kind = "open" THEN ShowError(g) ELSE UNCHANGED status
  /\ orphaned' = (orphaned \/ call[g].at \in {"clearing", "mounting", "backingOut"})
  /\ UNCHANGED <<route, access, alive, dirty, active, lastAttempt, generation, host,
                 entry, nav, moves, overlapped, returned>>

-----------------------------------------------------------------------------
Settle(g) == Loaded(g) \/ Cleared(g) \/ Styled(g) \/ Mounted(g) \/ BackedOut(g)

Next ==
  \/ Effect \/ Retry \/ Leave \/ Move
  \/ \E g \in Calls : Settle(g) \/ Fails(g)

Spec == Init /\ [][Next]_vars

-----------------------------------------------------------------------------
(* Properties.                                                             *)

InSlot == {g \in Calls : host[g] = "inSlot"}

Quiet == (~alive \/ ~dirty) /\ \A g \in Calls : ~InFlight(g)

Denied == access # None /\ route \notin access

Allowed == access # None /\ route \in access

(***************************************************************************)
(* Superseded calls back out: there is one app in the slot at most, as     *)
(* long as no open began while another call was at work in the slot, and   *)
(* no app's mount or unmount failed.                                       *)
(***************************************************************************)
OneAppAtATime == overlapped \/ orphaned \/ Cardinality(InSlot) <= 1

(***************************************************************************)
(* The app that may publish breadcrumbs is the one in the slot: never      *)
(* another while one is still there.                                       *)
(***************************************************************************)
NavOwner ==
  nav # None /\ ~overlapped /\ ~orphaned => \A g \in InSlot : call[g].app = nav

(***************************************************************************)
(* Once the person is denied the app, or has left the app area, and all is *)
(* settled, nothing is mounted any more and nobody may publish - whatever  *)
(* loads or stylesheets failed, and however the person moved on the way.   *)
(***************************************************************************)
Unloaded ==
  Quiet /\ (~alive \/ Denied) /\ ~overlapped /\ ~orphaned =>
    InSlot = {} /\ entry = 0 /\ nav = None

(***************************************************************************)
(* And while it is allowed, what is on screen when all has settled is the  *)
(* app of the address, known to the mount manager and without a message    *)
(* over it - unless something failed or the person turned back on the way. *)
(***************************************************************************)
ShowsRoute ==
  Quiet /\ alive /\ Allowed /\ route \notin Unresolvable
    /\ ~overlapped /\ ~returned /\ failures = 0 =>
    \E g \in Calls : /\ InSlot = {g} /\ entry = g /\ call[g].app = route
                     /\ active = route /\ nav = route
                     /\ status = [kind |-> "mounted", app |-> route]

(***************************************************************************)
(* "back out instead of racing another mount into the same slot": with no  *)
(* failure at all, one app is left in the slot when all has settled.       *)
(***************************************************************************)
NoMountRace == Quiet /\ failures = 0 => Cardinality(InSlot) <= 1
=============================================================================
