---------------------------- MODULE RemoteLoader ----------------------------
(***************************************************************************)
(* How an app's code and styles come into the page (apps/host/src):        *)
(* createRemoteLoader, and what createMountManager does about stylesheets  *)
(* and the document's head.  Slot has the rest of the mount manager and    *)
(* the races of entries in the slot; here an app that is opened again or   *)
(* replaced is just left.                                                  *)
(*                                                                         *)
(* The federation runtime, the apps' servers and what a remote puts into   *)
(* the head are external: the runtime never asks again for a URL that      *)
(* failed (createRemoteLoader.ts:88-90).                                   *)
(***************************************************************************)
EXTENDS Naturals, Sequences

CONSTANTS Apps,        \* apps with a remote entry
          Tokens,      \* the platform's stylesheet, and the host that serves it
          MaxOpens,    \* bound: apps opened and retried
          MaxFaults    \* bound: what goes wrong

ASSUME LoaderAssumption == Tokens \notin Apps /\ {MaxOpens, MaxFaults} \subseteq Nat

Servers == Apps \cup {Tokens}

Sheets(a) == {Tokens, a}

VARIABLES
  up,         \* the servers that answer
  sheet,      \* styleTextCache: the promise of each stylesheet
  loading,    \* loadingModules: the load whose promise is kept, 0 for none
  failed,     \* failedAttempts
  broken,     \* URLs the runtime has seen fail
  loads,      \* the calls of loadOnce
  opens,      \* the calls of openApp
  nodes,      \* style nodes put into the head, and where they are
  faults      \* used up of its bound

vars == <<up, sheet, loading, failed, broken, loads, opens, nodes, faults>>

LoadIds == DOMAIN loads
OpenIds == DOMAIN opens

\* The generation: the last call of openApp.
Current == Len(opens)

(***************************************************************************)
(* Each load and each mount watches the head while it runs: it is there    *)
(* with an observer, and a node is seen by all that watch when it is put   *)
(* in.  A node is in the head, in an open's shadow root, or discarded.     *)
(***************************************************************************)
Loader(l) == <<"load", l>>
Mounter(k) == <<"mount", k>>
InHead == <<"head", 0>>
Gone == <<"gone", 0>>

Watching ==
  { Loader(l) : l \in { l \in LoadIds : loads[l].asking } } \cup
  { Mounter(k) : k \in { k \in OpenIds : opens[k].stage = "mounting" } }

TypeOK ==
  /\ up \subseteq Servers
  /\ sheet \in [Servers -> {"none", "pending", "text", "rejected"}]
  /\ loading \in [Apps -> {0} \cup LoadIds]
  /\ failed \in [Apps -> 0 .. MaxOpens]
  /\ broken \subseteq Apps \X (0 .. MaxOpens)
  /\ loads \in [LoadIds -> [app : Apps, entry : 0 .. MaxOpens, asking : BOOLEAN,
                            promise : {"pending", "module", "rejected"}]]
  /\ opens \in [OpenIds -> [app : Apps, load : LoadIds, calm : BOOLEAN,
                            stage : {"loading", "styling", "mounting", "mounted", "failed", "left"}]]
  /\ \A n \in nodes : n.by \in n.seen /\ (n.at \in {InHead, Gone} \/ n.at \in n.seen)
  /\ faults \in 0 .. MaxFaults

Init ==
  /\ up = Servers
  /\ sheet = [s \in Servers |-> "none"]
  /\ loading = [a \in Apps |-> 0] /\ failed = [a \in Apps |-> 0]
  /\ broken = {} /\ loads = <<>> /\ opens = <<>> /\ nodes = {} /\ faults = 0

-----------------------------------------------------------------------------
(* The loader.                                                             *)

\* Mutant: one retry URL for every attempt.
oneRetryUrl(a) == IF failed[a] = 0 THEN 0 ELSE 1

\* ensureRemoteRegistered with withRetryParam: the URL by its attempt.
entryOf(a) == failed[a]

Kept(a) == loading[a] # 0

\* loadRemoteModule: the promise that is kept, or a new load.
loadRemoteModule(a) ==
  IF Kept(a) THEN UNCHANGED <<loads, loading>>
  ELSE /\ loads' = Append(loads, [app |-> a, entry |-> entryOf(a), asking |-> TRUE,
                                  promise |-> "pending"])
       /\ loading' = [loading EXCEPT ![a] = Len(loads) + 1]

\* The handler of loadOnce's rejection.
Rejects(l) ==
  /\ loading' = [loading EXCEPT ![loads[l].app] = 0]
  /\ failed' = [failed EXCEPT ![loads[l].app] = @ + 1]

-----------------------------------------------------------------------------
(* Opening an app, from the person's click or retry.                       *)

\* Nothing to share with an attempt begun earlier, and the servers answer.
Calm(a) == Sheets(a) \subseteq up /\ (Kept(a) => loads[loading[a]].promise = "module")

Opens(a) ==
  /\ Current < MaxOpens
  /\ loadRemoteModule(a)
  /\ opens' = Append(opens, [app |-> a, load |-> loading'[a], calm |-> Calm(a),
                             stage |-> "loading"])
  /\ UNCHANGED <<up, sheet, failed, broken, nodes, faults>>

Becomes(k, stage) == opens' = [opens EXCEPT ![k].stage = stage]

\* A superseded call backs out; the current one unmounts what is mounted.
GetsModule(k) ==
  /\ opens[k].stage = "loading" /\ loads[opens[k].load].promise = "module"
  /\ \/ k # Current /\ Becomes(k, "left") /\ UNCHANGED sheet
     \/ /\ k = Current
        /\ opens' = [j \in OpenIds |->
             IF j = k THEN [opens[j] EXCEPT !.stage = "styling"]
             ELSE IF opens[j].stage = "mounted" THEN [opens[j] EXCEPT !.stage = "left"]
             ELSE opens[j]]
        /\ sheet' = [s \in Servers |->
             IF s \in Sheets(opens[k].app) /\ sheet[s] = "none" THEN "pending" ELSE sheet[s]]
  /\ UNCHANGED <<up, loading, failed, broken, loads, nodes, faults>>

GetsNoModule(k) ==
  /\ opens[k].stage = "loading" /\ loads[opens[k].load].promise = "rejected"
  /\ Becomes(k, "failed")
  /\ UNCHANGED <<up, sheet, loading, failed, broken, loads, nodes, faults>>

\* applyStyles: the texts all there, or the first rejection.
GetsStyles(k) ==
  /\ opens[k].stage = "styling"
  /\ \/ /\ \A s \in Sheets(opens[k].app) : sheet[s] = "text"
        /\ Becomes(k, "mounting")
     \/ /\ \E s \in Sheets(opens[k].app) : sheet[s] = "rejected"
        /\ Becomes(k, "failed")
  /\ UNCHANGED <<up, sheet, loading, failed, broken, loads, nodes, faults>>

\* Mutant: a mount takes with it whatever is in the head.
relocatedAll(k) ==
  { IF n.at = InHead \/ Mounter(k) \in n.seen
    THEN [n EXCEPT !.at = Mounter(k)] ELSE n : n \in nodes }

\* withHeadStylesRelocatedTo: whatever the mount's observer has seen.
relocated(k) ==
  { IF Mounter(k) \in n.seen THEN [n EXCEPT !.at = Mounter(k)] ELSE n : n \in nodes }

\* A call superseded meanwhile unmounts what it mounted.
Mounts(k) ==
  /\ opens[k].stage = "mounting"
  /\ Becomes(k, IF k = Current THEN "mounted" ELSE "left")
  /\ nodes' = relocated(k)
  /\ UNCHANGED <<up, sheet, loading, failed, broken, loads, faults>>

\* The app's own mount rejects; the finally clause relocates all the same.
MountFails(k) ==
  /\ opens[k].stage = "mounting"
  /\ faults < MaxFaults /\ faults' = faults + 1
  /\ opens' = [opens EXCEPT ![k].stage = "failed", ![k].calm = FALSE]
  /\ nodes' = relocated(k)
  /\ UNCHANGED <<up, sheet, loading, failed, broken, loads>>

-----------------------------------------------------------------------------
(* The outside.                                                            *)

\* A remote's runtime puts a style into the head, evaluated or mounted.
PutsStyle(by) ==
  /\ by \in Watching /\ \A n \in nodes : n.by # by
  /\ nodes' = nodes \cup {[by |-> by, at |-> InHead, seen |-> Watching]}
  /\ UNCHANGED <<up, sheet, loading, failed, broken, loads, opens, faults>>

\* withoutHeadSideEffects: whatever the load's observer has seen, wherever it is now.
discarded(l) == { IF Loader(l) \in n.seen THEN [n EXCEPT !.at = Gone] ELSE n : n \in nodes }

Asks(l) == loads[l].asking /\ <<loads[l].app, loads[l].entry>> \notin broken

Settles(l, promise) ==
  loads' = [loads EXCEPT ![l].asking = FALSE,
                         ![l].promise = IF @ = "pending" THEN promise ELSE @]

RemoteArrives(l) ==
  /\ Asks(l) /\ loads[l].app \in up
  /\ Settles(l, "module") /\ nodes' = discarded(l)
  /\ UNCHANGED <<up, sheet, loading, failed, broken, opens, faults>>

\* The server is down, or the runtime has this URL for broken.
RemoteFails(l) ==
  /\ loads[l].asking /\ (Asks(l) => loads[l].app \notin up)
  /\ Settles(l, "rejected") /\ nodes' = discarded(l)
  /\ broken' = broken \cup {<<loads[l].app, loads[l].entry>>}
  /\ IF loads[l].promise = "pending" THEN Rejects(l) ELSE UNCHANGED <<loading, failed>>
  /\ UNCHANGED <<up, sheet, opens, faults>>

Fault(a) ==
  /\ faults < MaxFaults /\ faults' = faults + 1
  /\ opens' = [k \in OpenIds |-> IF a \in Sheets(opens[k].app)
                                 THEN [opens[k] EXCEPT !.calm = FALSE] ELSE opens[k]]

\* withTimeout: the remote goes on loading, and its observer goes on watching.
TimesOut(l) ==
  /\ loads[l].asking /\ loads[l].promise = "pending"
  /\ loads' = [loads EXCEPT ![l].promise = "rejected"]
  /\ Rejects(l) /\ Fault(loads[l].app)
  /\ UNCHANGED <<up, sheet, broken, nodes>>

\* toAppModule finds no mount and unmount.
ExportsNoApp(l) ==
  /\ Asks(l) /\ loads[l].promise = "pending"
  /\ Settles(l, "rejected") /\ nodes' = discarded(l)
  /\ Rejects(l) /\ Fault(loads[l].app)
  /\ UNCHANGED <<up, sheet, broken>>

SheetArrives(s) ==
  /\ sheet[s] = "pending"
  /\ sheet' = [sheet EXCEPT ![s] = IF s \in up THEN "text" ELSE "rejected"]
  /\ UNCHANGED <<up, loading, failed, broken, loads, opens, nodes, faults>>

ServerStops(s) ==
  /\ s \in up /\ up' = up \ {s} /\ Fault(s)
  /\ UNCHANGED <<sheet, loading, failed, broken, loads, nodes>>

ServerStarts(s) ==
  /\ s \notin up /\ up' = up \cup {s}
  /\ UNCHANGED <<sheet, loading, failed, broken, loads, opens, nodes, faults>>

Next ==
  \/ \E a \in Apps : Opens(a)
  \/ \E k \in OpenIds : GetsModule(k) \/ GetsNoModule(k) \/ GetsStyles(k) \/ Mounts(k)
                         \/ MountFails(k)
  \/ \E by \in Watching : PutsStyle(by)
  \/ \E l \in LoadIds : RemoteArrives(l) \/ RemoteFails(l) \/ TimesOut(l) \/ ExportsNoApp(l)
  \/ \E s \in Servers : SheetArrives(s) \/ ServerStops(s) \/ ServerStarts(s)

Spec == Init /\ [][Next]_vars

-----------------------------------------------------------------------------
(* Properties.                                                             *)

(***************************************************************************)
(* An app opened, or retried, while the servers answer and with nothing    *)
(* going wrong since, does not end in an error, whatever went wrong before *)
(* (docs/demo-script.md:86-88).  The named exception is a stylesheet that  *)
(* failed once: its rejected promise is kept (createMountManager.ts:59).   *)
(***************************************************************************)
RetryRecovers ==
  \A k \in OpenIds :
    opens[k].stage = "failed" /\ opens[k].calm =>
      \E s \in Sheets(opens[k].app) : sheet[s] = "rejected"

Crowded(n) == n.seen # {n.by}

(***************************************************************************)
(* The styles in the shadow root of the app in the slot are the ones its   *)
(* own mount put into the head, all of them (createMountManager.ts:25-26). *)
(* The named exception is a style put in while another load or mount was   *)
(* watching the head too.                                                  *)
(***************************************************************************)
OwnStyles ==
  \A k \in OpenIds : opens[k].stage = "mounted" =>
    \A n \in nodes : ~Crowded(n) => (n.at = Mounter(k) <=> n.by = Mounter(k))

\* The comment's own words, with no exception (createMountManager.ts:25-26).
KeepsItsStyles ==
  \A k \in OpenIds : opens[k].stage = "mounted" =>
    \A n \in nodes : n.by = Mounter(k) => n.at = Mounter(k)
=============================================================================
