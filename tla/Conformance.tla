----------------------------- MODULE Conformance -----------------------------
(***************************************************************************)
(* The suite an app runs from its own tests (packages/conformance): seven  *)
(* checks, each with an SDK and spies of its own, on one loaded module and *)
(* in one document.  What an app does within a tick of mount counts as     *)
(* done by mount: every check waits that long.                             *)
(***************************************************************************)
EXTENDS Naturals, SequencesExt

\* What an app must not do: each is for one of the checks to see.
Deeds == {"head", "history", "key", "name"}

\* On loading the module, at its first mount only, at every mount, at unmount.
Times == {"import", "first", "mount", "unmount"}

(***************************************************************************)
(* An app: what it does and when, the subscriptions of its first and of a  *)
(* later mount, how many unmount drops, whether its listener throws and    *)
(* whether unmount throws where nothing is mounted.                        *)
(***************************************************************************)
AppsWith(deeds) == [ deeds : deeds, first : 0 .. 2, again : 0 .. 2, drops : 0 .. 2,
                     objects : BOOLEAN, brittle : BOOLEAN ]

\* Mounts of the module so far, subscribers of the check's SDK, what its spies saw.
Loaded == [mounts |-> 0, on |-> FALSE, subscribers |-> 0, seen |-> {}, failed |-> FALSE]

\* createConformanceSdk, and the spies: a check knows nothing of those before it.
Fresh(w) == [w EXCEPT !.subscribers = 0, !.seen = {}, !.on = FALSE, !.failed = FALSE]

Done(app, times) == { d \in Deeds : \E t \in times : <<d, t>> \in app.deeds }

\* A check that has failed has thrown: the rest of it is not run.
Mounted(app, w) ==
  IF w.failed THEN w
  ELSE [w EXCEPT !.mounts = @ + 1, !.on = TRUE,
                 !.subscribers = @ + (IF w.mounts = 0 THEN app.first ELSE app.again),
                 !.seen = @ \cup Done(app, IF w.mounts = 0 THEN {"first", "mount"} ELSE {"mount"})]

Unmounted(app, w) ==
  IF w.failed THEN w
  ELSE [w EXCEPT !.on = FALSE, !.failed = (~w.on /\ app.brittle),
                 !.subscribers = IF @ > app.drops THEN @ - app.drops ELSE 0,
                 !.seen = @ \cup Done(app, {"unmount"})]

\* pushLocation and setHid call the subscribers.
Told(app, w) == [w EXCEPT !.failed = @ \/ (app.objects /\ w.subscribers > 0)]

expect(holds, w) == [w EXCEPT !.failed = @ \/ ~holds]

checkMountUnmountIdempotent(app, w) ==
  LET first == Mounted(app, Fresh(w))
      left == Unmounted(app, first)
      again == Mounted(app, expect(left.subscribers = 0, left))
      away == Unmounted(app, expect(again.subscribers = first.subscribers, again))
  IN Unmounted(app, expect(away.subscribers = 0, away))

\* Only what its own check looks at counts.
checkUnseen(deed, app, w) ==
  LET on == Mounted(app, Fresh(w))
      off == Unmounted(app, expect(deed = "head" => deed \notin on.seen, on))
  IN expect(deed \notin off.seen, off)

checkDocumentHeadUntouched(app, w) == checkUnseen("head", app, w)
checkNoDirectHistoryOrLocationAccess(app, w) == checkUnseen("history", app, w)
checkStorageKeysPrefixed(app, w) == checkUnseen("key", app, w)
checkCustomElementNamesPrefixed(app, w) == checkUnseen("name", app, w)

\* Another household's context is the SDK's own: that expectation always holds.
checkReactsToExternalLocationChange(app, w) == Unmounted(app, Told(app, Mounted(app, Fresh(w))))
checkSurvivesContextChange(app, w) == Unmounted(app, Told(app, Mounted(app, Fresh(w))))

Checks == <<"idempotent", "head", "history", "key", "name", "location", "context">>

run(check, app, w) ==
  CASE check = "idempotent" -> checkMountUnmountIdempotent(app, w)
    [] check = "head" -> checkDocumentHeadUntouched(app, w)
    [] check = "history" -> checkNoDirectHistoryOrLocationAccess(app, w)
    [] check = "key" -> checkStorageKeysPrefixed(app, w)
    [] check = "name" -> checkCustomElementNamesPrefixed(app, w)
    [] check = "location" -> checkReactsToExternalLocationChange(app, w)
    [] check = "context" -> checkSurvivesContextChange(app, w)

\* One after another, each a test of its own: the checks that failed.
runConformanceSuite(app) ==
  FoldLeft(LAMBDA r, check : LET w == run(check, app, r.world) IN
             [world |-> w, caught |-> IF w.failed THEN r.caught \cup {check} ELSE r.caught],
           [world |-> Loaded, caught |-> {}], Checks).caught

-----------------------------------------------------------------------------
(* Facts, about apps with at most two misdeeds.                            *)

SomeApps == AppsWith({ {x, y} : x, y \in Deeds \X Times } \cup {{}})

(***************************************************************************)
(* A check run by itself, as its own tests run it, finds what the app does *)
(* at mount or unmount, be it only the first time (checks.ts:48-138).      *)
(***************************************************************************)
FoundAlone ==
  \A app \in SomeApps : \A d \in Deeds :
    run(d, app, Loaded).failed <=> d \in Done(app, {"first", "mount", "unmount"})

(***************************************************************************)
(* What the suite finds: a leaked or missing subscription, an unmount that *)
(* cannot be repeated, a listener that throws, and what the app does every *)
(* time.  What it does at its first mount only has been done by the time   *)
(* its check runs, and what it does on loading before any check, so        *)
(* neither is found (runConformanceSuite.ts:40-78).                        *)
(***************************************************************************)
FoundBySuite ==
  \A app \in SomeApps :
    LET found == runConformanceSuite(app) IN
      /\ "idempotent" \in found <=> app.drops < app.first \/ app.again # app.first \/ app.brittle
      /\ found \cap {"location", "context"} =
           IF app.objects /\ app.again > 0 THEN {"location", "context"} ELSE {}
      /\ found \cap Deeds = Done(app, {"mount", "unmount"})

ConformanceFacts == FoundAlone /\ FoundBySuite
=============================================================================
