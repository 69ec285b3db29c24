------------------------- MODULE RemoteLoaderProofs -------------------------
(***************************************************************************)
(* Proofs about RemoteLoader, for every set of apps and every bound, and   *)
(* about Registry and PagePolicy: which of an app's attempts the page      *)
(* keeps, which style belongs to which app, and which of the addresses an  *)
(* app names the page's policy lets in.                                    *)
(***************************************************************************)
EXTENDS RemoteLoader, PagePolicy, FiniteSetTheorems,
        WellFoundedInduction, TLAPS

-----------------------------------------------------------------------------
(* The inductive invariant.                                                *)

Load == [app : Apps, entry : 0 .. MaxOpens, asking : BOOLEAN,
         promise : {"pending", "module", "rejected"}]
Open == [app : Apps, load : Nat, calm : BOOLEAN,
         stage : {"loading", "styling", "mounting", "mounted", "failed", "left"}]

\* A load that was not rejected is the one kept, and asks for the latest URL
\* of its app; a rejected one asked for an earlier URL.
LoadInv(l) ==
  LET a == loads[l].app
  IN /\ loads[l].promise = "rejected" => loads[l].entry < failed[a]
     /\ loads[l].promise # "rejected" => loading[a] = l /\ loads[l].entry = failed[a]
     /\ loads[l].promise = "pending" => loads[l].asking
     /\ loads[l].promise = "module" => ~loads[l].asking

\* The promise that is kept is the app's own, and no rejection; an app has
\* failed fewer times than there are loads.
KeptInv(a) ==
  /\ Kept(a) => /\ loads[loading[a]].app = a
                /\ loads[loading[a]].promise # "rejected"
                /\ failed[a] < loading[a]
  /\ ~Kept(a) => failed[a] <= Len(loads)

\* The runtime has seen no URL fail that an attempt to come will ask for.
BrokenInv == \A b \in broken : b[2] < failed[b[1]]

AttemptsInv ==
  /\ loads \in Seq(Load) /\ Len(loads) <= MaxOpens
  /\ loading \in [Apps -> {0} \cup LoadIds] /\ failed \in [Apps -> 0 .. MaxOpens]
  /\ broken \subseteq Apps \X (0 .. MaxOpens)
  /\ \A l \in LoadIds : LoadInv(l)
  /\ \A a \in Apps : KeptInv(a)
  /\ BrokenInv

\* An open that nothing went wrong for has its servers, and a promise that
\* was not rejected; only a stylesheet can have failed it.
OpenInv(k) ==
  /\ opens[k].load \in LoadIds /\ loads[opens[k].load].app = opens[k].app
  /\ opens[k].calm =>
       /\ Sheets(opens[k].app) \subseteq up
       /\ loads[opens[k].load].promise # "rejected"
       /\ opens[k].stage = "failed" => \E s \in Sheets(opens[k].app) : sheet[s] = "rejected"

OpensInv ==
  /\ opens \in Seq(Open) /\ Len(loads) <= Len(opens) /\ Len(opens) <= MaxOpens
  /\ up \subseteq Servers /\ sheet \in [Servers -> {"none", "pending", "text", "rejected"}]
  /\ faults \in 0 .. MaxFaults
  /\ \A k \in OpenIds : OpenInv(k)

\* What can watch the head.
Watchers == { Loader(l) : l \in Nat } \cup { Mounter(k) : k \in Nat }

NodeSpace == [by : Watchers, at : Watchers \cup {InHead, Gone}, seen : SUBSET Watchers]

\* A node leaves the head only for one that has seen it: a load discards it,
\* an open takes it along.
NodeInv(n) ==
  /\ n.by \in n.seen
  /\ n.at \in {InHead, Gone} \cup n.seen
  /\ n.at = Gone => \E l \in Nat : Loader(l) \in n.seen

NodesInv ==
  /\ nodes \subseteq NodeSpace
  /\ \A n \in nodes : NodeInv(n)
  /\ OwnStyles

Inv == AttemptsInv /\ OpensInv /\ NodesInv

USE DEF LoadIds, OpenIds

-----------------------------------------------------------------------------
(* The attempts at an app's code.                                          *)

\* A load is over, or is answered for: nothing else about the loads changes.
Judged(l, asking, promise) ==
  /\ loads' \in Seq(Load) /\ Len(loads') = Len(loads)
  /\ \A m \in LoadIds : /\ loads'[m].app = loads[m].app /\ loads'[m].entry = loads[m].entry
                        /\ m # l => /\ loads'[m].asking = loads[m].asking
                                    /\ loads'[m].promise = loads[m].promise
  /\ loads'[l].asking = asking /\ loads'[l].promise = promise

\* What a load is made of.
LEMMA LoadFields ==
  ASSUME loads \in Seq(Load), NEW l \in LoadIds
  PROVE  /\ loads[l] \in Load /\ loads[l].app \in Apps /\ loads[l].entry \in 0 .. MaxOpens
         /\ loads[l].asking \in BOOLEAN
         /\ loads[l].promise \in {"pending", "module", "rejected"}
<1>1. loads[l] \in Load
  OBVIOUS
<1> QED
  BY <1>1 DEF Load

\* Overwriting a load with the same app and URL is judging it.
LEMMA JudgedBy ==
  ASSUME loads \in Seq(Load), NEW l \in LoadIds, NEW r \in Load,
         r.app = loads[l].app, r.entry = loads[l].entry,
         loads' = [loads EXCEPT ![l] = r]
  PROVE  Judged(l, r.asking, r.promise)
<1>1. loads' \in Seq(Load) /\ Len(loads') = Len(loads)
  OBVIOUS
<1>2. \A m \in LoadIds : loads'[m] = IF m = l THEN r ELSE loads[m]
  OBVIOUS
<1> QED
  BY <1>1, <1>2 DEF Judged

\* A remote that arrives, or fails, answers a load that still waits.
LEMMA SettlesFacts ==
  ASSUME loads \in Seq(Load), NEW l \in LoadIds, NEW promise \in {"module", "rejected"},
         Settles(l, promise)
  PROVE  Judged(l, FALSE, IF loads[l].promise = "pending" THEN promise ELSE loads[l].promise)
<1> DEFINE p == IF loads[l].promise = "pending" THEN promise ELSE loads[l].promise
           r == [loads[l] EXCEPT !.asking = FALSE, !.promise = p]
<1>1. p \in {"pending", "module", "rejected"}
  BY LoadFields
<1>2. loads' = [loads EXCEPT ![l] = r]
  BY DEF Settles
<1> HIDE DEF p
<1>3. /\ r \in Load /\ r.app = loads[l].app /\ r.entry = loads[l].entry
      /\ r.asking = FALSE /\ r.promise = p
  <2>1. loads[l] \in Load
    BY LoadFields
  <2> QED
    BY <1>1, <2>1 DEF Load
<1> HIDE DEF r
<1>4. Judged(l, r.asking, r.promise)
  BY <1>2, <1>3, JudgedBy
<1> QED
  BY <1>3, <1>4 DEF p

\* A timeout answers a load that goes on.
LEMMA TimesOutFacts ==
  ASSUME loads \in Seq(Load), NEW l \in LoadIds, TimesOut(l)
  PROVE  Judged(l, TRUE, "rejected")
<1> DEFINE r == [loads[l] EXCEPT !.promise = "rejected"]
<1>1. loads' = [loads EXCEPT ![l] = r] /\ loads[l].asking
  BY DEF TimesOut
<1>2. /\ r \in Load /\ r.app = loads[l].app /\ r.entry = loads[l].entry
      /\ r.asking = loads[l].asking /\ r.promise = "rejected"
  <2>1. loads[l] \in Load
    BY LoadFields
  <2> QED
    BY <2>1 DEF Load
<1>3. loads[l].asking = TRUE
  <2>1. loads[l].asking \in BOOLEAN
    BY LoadFields
  <2> QED
    BY <1>1, <2>1
<1> HIDE DEF r
<1>4. Judged(l, r.asking, r.promise)
  BY <1>1, <1>2, JudgedBy
<1> QED
  BY <1>2, <1>3, <1>4

\* A rejection takes the promise out and moves the app on to its next URL
\* (the handler of loadOnce's rejection): every later attempt asks for a URL
\* the runtime has not seen fail.
LEMMA RejectsKeeps ==
  ASSUME AttemptsInv, NEW l \in LoadIds, NEW asking \in BOOLEAN, loads[l].promise = "pending",
         Judged(l, asking, "rejected"), Rejects(l),
         broken' \subseteq broken \cup {<<loads[l].app, loads[l].entry>>}
  PROVE  AttemptsInv'
<1> DEFINE a == loads[l].app
<1>1. /\ loads \in Seq(Load) /\ Len(loads) <= MaxOpens /\ loads[l] \in Load /\ a \in Apps
      /\ MaxOpens \in Nat /\ Len(loads) \in Nat /\ l \in 1 .. Len(loads)
  BY LoaderAssumption, LoadFields DEF AttemptsInv
<1>2. loading[a] = l /\ loads[l].entry = failed[a] /\ loads[l].asking
  BY DEF AttemptsInv, LoadInv
<1>3. failed \in [Apps -> 0 .. MaxOpens] /\ loading \in [Apps -> {0} \cup LoadIds]
  BY DEF AttemptsInv
<1>4. failed[a] < l
  BY <1>1, <1>2 DEF AttemptsInv, KeptInv, Kept
<1>5. /\ failed'[a] = failed[a] + 1 /\ loading'[a] = 0
      /\ \A b \in Apps \ {a} : failed'[b] = failed[b] /\ loading'[b] = loading[b]
      /\ DOMAIN failed' = Apps /\ DOMAIN loading' = Apps
  BY <1>1, <1>3 DEF Rejects
<1>6. failed' \in [Apps -> 0 .. MaxOpens] /\ loading' \in [Apps -> {0} \cup LoadIds]
  <2>1. failed[a] + 1 \in 0 .. MaxOpens
    BY <1>1, <1>3, <1>4
  <2> QED
    BY <1>3, <2>1 DEF Rejects
<1>7. LoadIds' = LoadIds /\ loads' \in Seq(Load) /\ Len(loads') = Len(loads)
  BY <1>1 DEF Judged
<1>8. broken' \subseteq Apps \X (0 .. MaxOpens)
  BY <1>1 DEF AttemptsInv, Load
<1>9. ASSUME NEW m \in LoadIds PROVE LoadInv(m)'
  <2>1. /\ LoadInv(m) /\ loads[m] \in Load /\ loads[m].app \in Apps
        /\ failed[loads[m].app] \in 0 .. MaxOpens
    BY <1>3, LoadFields DEF AttemptsInv
  <2>2. CASE m = l
    BY <1>1, <1>2, <1>3, <1>5, <2>2 DEF Judged, LoadInv
  <2>3. CASE m # l
    <3>1. loads'[m].app = loads[m].app /\ loads'[m].entry = loads[m].entry
          /\ loads'[m].asking = loads[m].asking /\ loads'[m].promise = loads[m].promise
      BY <2>3 DEF Judged
    <3>2. CASE loads[m].app = a
      <4>1. loads[m].promise = "rejected"
        BY <1>2, <2>1, <2>3, <3>2 DEF LoadInv
      <4>2. loads[m].entry < failed[a] /\ failed[a] \in Int /\ loads[m].entry \in Int
        BY <2>1, <3>2, <4>1 DEF LoadInv, Load
      <4>3. loads[m].entry < failed[a] + 1
        BY <4>2
      <4> QED
        BY <1>5, <3>1, <3>2, <4>1, <4>3 DEF LoadInv
    <3>3. CASE loads[m].app # a
      <4>1. loads[m].app \in Apps \ {a}
        BY <2>1, <3>3 DEF Load
      <4>2. failed'[loads[m].app] = failed[loads[m].app] /\ loading'[loads[m].app] = loading[loads[m].app]
        BY <1>5, <4>1
      <4> QED
        BY <2>1, <3>1, <4>2 DEF LoadInv
    <3> QED BY <3>2, <3>3
  <2> QED BY <2>2, <2>3
<1>10. ASSUME NEW b \in Apps PROVE KeptInv(b)'
  <2>1. CASE b = a
    <3>1. failed[a] + 1 <= Len(loads)
      BY <1>1, <1>3, <1>4
    <3> QED
      BY <1>5, <1>7, <2>1, <3>1 DEF KeptInv, Kept
  <2>2. CASE b # a
    <3>1. KeptInv(b) /\ failed'[b] = failed[b] /\ loading'[b] = loading[b]
      BY <1>5, <2>2 DEF AttemptsInv
    <3>2. CASE loading[b] # 0
      <4>1. loads[loading[b]].app = b /\ loading[b] \in LoadIds /\ loading[b] # l
        BY <1>3, <2>2, <3>1, <3>2 DEF KeptInv, Kept
      <4>2. loads'[loading[b]].app = b /\ loads'[loading[b]].promise = loads[loading[b]].promise
        BY <4>1 DEF Judged
      <4> QED
        BY <3>1, <3>2, <4>2 DEF KeptInv, Kept
    <3>3. CASE loading[b] = 0
      BY <1>7, <3>1, <3>3 DEF KeptInv, Kept
    <3> QED BY <3>2, <3>3
  <2> QED BY <2>1, <2>2
<1>11. BrokenInv'
  <2>1. SUFFICES ASSUME NEW u \in broken' PROVE u[2] < failed'[u[1]]
    BY DEF BrokenInv
  <2>2. CASE u \in broken
    <3>1. u[2] < failed[u[1]] /\ u[1] \in Apps /\ u[2] \in 0 .. MaxOpens
      BY <2>2 DEF AttemptsInv, BrokenInv
    <3>2. failed[u[1]] \in 0 .. MaxOpens
      BY <1>3, <3>1
    <3> QED
      BY <1>5, <3>1, <3>2
  <2>3. CASE u = <<loads[l].app, loads[l].entry>>
    <3>1. u[1] = a /\ u[2] = failed[a] /\ failed[a] \in 0 .. MaxOpens
      BY <1>1, <1>2, <1>3, <2>3
    <3> QED
      BY <1>5, <3>1
  <2> QED BY <2>2, <2>3
<1> QED
  BY <1>1, <1>6, <1>7, <1>8, <1>9, <1>10, <1>11 DEF AttemptsInv

\* An answer that is no new rejection leaves the kept promises as they are;
\* the URL it breaks, if any, is one that was rejected before.
LEMMA AnswerKeeps ==
  ASSUME AttemptsInv, NEW l \in LoadIds,
         Judged(l, FALSE, IF loads[l].promise = "pending" THEN "module" ELSE loads[l].promise),
         UNCHANGED <<loading, failed>>,
         \/ broken' = broken
         \/ /\ loads[l].promise = "rejected"
            /\ broken' = broken \cup {<<loads[l].app, loads[l].entry>>}
  PROVE  AttemptsInv'
<1>1. loads \in Seq(Load) /\ loads[l] \in Load
  BY DEF AttemptsInv
<1>2. LoadIds' = LoadIds /\ loads' \in Seq(Load) /\ Len(loads') = Len(loads)
  BY <1>1 DEF Judged
<1>3. \A m \in LoadIds : LoadInv(m)'
  <2>1. TAKE m \in LoadIds
  <2>2. LoadInv(m) /\ LoadInv(l)
    BY DEF AttemptsInv
  <2>3. CASE m = l
    BY <1>1, <2>2, <2>3 DEF LoadInv, Judged, Load
  <2>4. CASE m # l
    BY <2>2, <2>4 DEF LoadInv, Judged
  <2> QED BY <2>3, <2>4
<1>4. \A a \in Apps : KeptInv(a)'
  <2>1. TAKE a \in Apps
  <2>2. KeptInv(a) /\ loading[a] \in {0} \cup LoadIds
    BY DEF AttemptsInv
  <2>3. CASE loading[a] = 0
    BY <1>2, <2>2, <2>3 DEF KeptInv, Kept
  <2>4. CASE loading[a] \in LoadIds /\ loading[a] # 0
    <3>1. loads'[loading[a]].app = a /\ loads'[loading[a]].promise # "rejected"
      BY <1>1, <2>2, <2>4 DEF KeptInv, Kept, Judged, Load
    <3> QED
      BY <2>2, <2>4, <3>1 DEF KeptInv, Kept
  <2> QED BY <2>2, <2>3, <2>4
<1>5. BrokenInv' /\ broken' \subseteq Apps \X (0 .. MaxOpens)
  <2>1. CASE broken' = broken
    BY <2>1 DEF AttemptsInv, BrokenInv
  <2>2. CASE loads[l].promise = "rejected" /\ broken' = broken \cup {<<loads[l].app, loads[l].entry>>}
    BY <1>1, <2>2 DEF AttemptsInv, BrokenInv, LoadInv, Load
  <2> QED BY <2>1, <2>2
<1> QED
  BY <1>2, <1>3, <1>4, <1>5 DEF AttemptsInv

\* A new attempt asks for the app's latest URL, and is kept.
LEMMA AttemptKeeps ==
  ASSUME AttemptsInv, NEW a \in Apps, Len(loads) < MaxOpens, loadRemoteModule(a),
         UNCHANGED <<failed, broken>>
  PROVE  /\ AttemptsInv'
         /\ loading'[a] \in LoadIds' /\ loads'[loading'[a]].app = a
         /\ loads'[loading'[a]].promise # "rejected"
         /\ Len(loads') \in {Len(loads), Len(loads) + 1}
         /\ \A l \in LoadIds : l \in LoadIds' /\ loads'[l] = loads[l]
<1>1. CASE Kept(a)
  <2>1. UNCHANGED <<loads, loading, failed, broken>>
    BY <1>1 DEF loadRemoteModule
  <2>2. AttemptsInv'
    BY <2>1 DEF AttemptsInv, LoadInv, KeptInv, Kept, BrokenInv
  <2>3. loading[a] \in LoadIds /\ loads[loading[a]].app = a /\ loads[loading[a]].promise # "rejected"
    BY <1>1 DEF AttemptsInv, KeptInv, Kept
  <2> QED BY <2>1, <2>2, <2>3
<1>2. CASE ~Kept(a)
  <2> DEFINE r == [app |-> a, entry |-> failed[a], asking |-> TRUE, promise |-> "pending"]
             n == Len(loads) + 1
  <2>1. loads \in Seq(Load) /\ failed[a] \in 0 .. MaxOpens /\ loading[a] = 0 /\ MaxOpens \in Nat
    BY <1>2, LoaderAssumption DEF AttemptsInv, Kept
  <2>2. r \in Load /\ r.app = a /\ r.entry = failed[a] /\ r.asking = TRUE /\ r.promise = "pending"
    BY <2>1 DEF Load
  <2>3. loads' = Append(loads, r) /\ loading' = [loading EXCEPT ![a] = n]
    BY <1>2 DEF loadRemoteModule, entryOf
  <2> HIDE DEF r
  <2>4. /\ loads' \in Seq(Load) /\ Len(loads') = n /\ loads'[n] = r
        /\ LoadIds' = LoadIds \cup {n} /\ n \notin LoadIds /\ n # 0 /\ n <= MaxOpens
        /\ \A l \in LoadIds : loads'[l] = loads[l]
    BY <2>1, <2>2, <2>3
  <2>5. loading'[a] = n /\ loading' \in [Apps -> {0} \cup LoadIds']
        /\ \A b \in Apps \ {a} : loading'[b] = loading[b]
    BY <2>3, <2>4 DEF AttemptsInv
  <2>6. ASSUME NEW l \in LoadIds' PROVE LoadInv(l)'
    <3>1. CASE l = n
      BY <2>2, <2>4, <2>5, <3>1 DEF LoadInv
    <3>2. CASE l \in LoadIds
      <4>1. LoadInv(l) /\ loads[l] \in Load /\ loads'[l] = loads[l] /\ l # 0
        BY <2>1, <2>4, <3>2 DEF AttemptsInv
      <4>2. loads[l].promise # "rejected" => loads[l].app # a
        BY <2>1, <4>1 DEF LoadInv
      <4>3. loads[l].promise # "rejected" => loading'[loads[l].app] = loading[loads[l].app]
        BY <2>5, <4>1, <4>2 DEF Load
      <4> QED
        BY <4>1, <4>3 DEF LoadInv
    <3> QED BY <2>4, <3>1, <3>2
  <2>7. ASSUME NEW b \in Apps PROVE KeptInv(b)'
    <3>1. KeptInv(b) /\ failed[b] \in 0 .. MaxOpens /\ loading[b] \in {0} \cup LoadIds
      BY DEF AttemptsInv
    <3>2. CASE b = a
      <4>1. failed[a] <= Len(loads)
        BY <1>2, <3>1, <3>2 DEF KeptInv
      <4>2. failed[a] < n
        BY <2>1, <4>1
      <4> QED
        BY <2>2, <2>4, <2>5, <3>2, <4>2 DEF KeptInv, Kept
    <3>3. CASE b # a /\ loading[b] = 0
      <4>1. failed[b] <= Len(loads) /\ loading'[b] = 0
        BY <2>5, <3>1, <3>3 DEF KeptInv, Kept
      <4>2. failed[b] <= n
        BY <2>1, <3>1, <4>1
      <4> QED
        BY <2>4, <4>1, <4>2 DEF KeptInv, Kept
    <3>4. CASE b # a /\ loading[b] # 0
      <4>1. loading'[b] = loading[b] /\ loads'[loading[b]] = loads[loading[b]]
        BY <2>4, <2>5, <3>1, <3>4
      <4> QED
        BY <3>1, <3>4, <4>1 DEF KeptInv, Kept
    <3> QED BY <3>2, <3>3, <3>4
  <2>8. BrokenInv' /\ broken' \subseteq Apps \X (0 .. MaxOpens) /\ failed' \in [Apps -> 0 .. MaxOpens]
    BY DEF AttemptsInv, BrokenInv
  <2>9. AttemptsInv'
    BY <2>4, <2>5, <2>6, <2>7, <2>8 DEF AttemptsInv
  <2> QED BY <2>2, <2>4, <2>5, <2>9
<1> QED BY <1>1, <1>2

-----------------------------------------------------------------------------
(* The opens.                                                              *)

\* The opens stay, of the same app and load, and none calms down again.
OpensStay ==
  /\ opens' \in Seq(Open) /\ Len(opens') = Len(opens)
  /\ \A k \in OpenIds : /\ opens'[k].app = opens[k].app /\ opens'[k].load = opens[k].load
                        /\ opens'[k].calm => opens[k].calm

\* No open becomes a mounted one.
NoneMounts == \A k \in OpenIds : opens'[k].stage = "mounted" => opens[k].stage = "mounted"

\* What an open is made of.
LEMMA OpenFields ==
  ASSUME opens \in Seq(Open), NEW k \in OpenIds
  PROVE  /\ opens[k] \in Open /\ opens[k].app \in Apps /\ opens[k].load \in Nat
         /\ opens[k].calm \in BOOLEAN
         /\ opens[k].stage \in {"loading", "styling", "mounting", "mounted", "failed", "left"}
<1>1. opens[k] \in Open
  OBVIOUS
<1> QED
  BY <1>1 DEF Open

\* Opens rewritten one by one are still the opens.
LEMMA Rewritten ==
  ASSUME opens \in Seq(Open), DOMAIN opens' = OpenIds, opens' = [k \in OpenIds |-> opens'[k]],
         \A k \in OpenIds : opens'[k] \in Open
  PROVE  opens' \in Seq(Open) /\ Len(opens') = Len(opens)
<1>1. opens' \in [1 .. Len(opens) -> Open] /\ Len(opens) \in Nat
  OBVIOUS
<1> QED
  BY <1>1

\* An open moves to its next stage.
LEMMA BecomesFacts ==
  ASSUME opens \in Seq(Open), NEW k \in OpenIds,
         NEW stage \in {"loading", "styling", "mounting", "mounted", "failed", "left"},
         Becomes(k, stage)
  PROVE  /\ OpensStay
         /\ \A j \in OpenIds : /\ opens'[j].stage = IF j = k THEN stage ELSE opens[j].stage
                               /\ opens'[j].calm = opens[j].calm
<1> DEFINE r == [opens[k] EXCEPT !.stage = stage]
<1>1. opens' = [opens EXCEPT ![k] = r]
  BY DEF Becomes
<1>2. /\ r \in Open /\ r.app = opens[k].app /\ r.load = opens[k].load
      /\ r.calm = opens[k].calm /\ r.stage = stage
  <2>1. opens[k] \in Open
    BY OpenFields
  <2> QED
    BY <2>1 DEF Open
<1> HIDE DEF r
<1>3. opens' \in Seq(Open) /\ Len(opens') = Len(opens)
  BY <1>1, <1>2
<1>4. \A j \in OpenIds : opens'[j] = IF j = k THEN r ELSE opens[j]
  BY <1>1
<1> QED
  BY <1>2, <1>3, <1>4 DEF OpensStay

\* An app's own failure to mount is an open's end that is not calm.
LEMMA MountFailsFacts ==
  ASSUME opens \in Seq(Open), NEW k \in OpenIds, MountFails(k)
  PROVE  /\ OpensStay /\ opens'[k].calm = FALSE /\ opens'[k].stage = "failed"
         /\ \A j \in OpenIds \ {k} : opens'[j] = opens[j]
<1> DEFINE r == [opens[k] EXCEPT !.stage = "failed", !.calm = FALSE]
<1>1. opens' = [opens EXCEPT ![k] = r]
  BY DEF MountFails
<1>2. /\ r \in Open /\ r.app = opens[k].app /\ r.load = opens[k].load
      /\ r.calm = FALSE /\ r.stage = "failed"
  <2>1. opens[k] \in Open
    BY OpenFields
  <2> QED
    BY <2>1 DEF Open
<1> HIDE DEF r
<1>3. opens' \in Seq(Open) /\ Len(opens') = Len(opens)
  BY <1>1, <1>2
<1>4. \A j \in OpenIds : opens'[j] = IF j = k THEN r ELSE opens[j]
  BY <1>1
<1> QED
  BY <1>2, <1>3, <1>4 DEF OpensStay

\* A fault is marked on every open it may be felt by.
LEMMA FaultFacts ==
  ASSUME opens \in Seq(Open), faults \in 0 .. MaxFaults, NEW a, Fault(a)
  PROVE  /\ OpensStay /\ faults' \in 0 .. MaxFaults
         /\ \A k \in OpenIds : /\ opens'[k].stage = opens[k].stage
                               /\ opens'[k].calm => a \notin Sheets(opens[k].app)
<1>1. /\ opens' = [k \in OpenIds |-> opens'[k]] /\ DOMAIN opens' = OpenIds
      /\ \A k \in OpenIds : opens'[k] = IF a \in Sheets(opens[k].app)
                                       THEN [opens[k] EXCEPT !.calm = FALSE] ELSE opens[k]
  BY DEF Fault
<1>2. ASSUME NEW k \in OpenIds
      PROVE  /\ opens'[k] \in Open /\ opens'[k].app = opens[k].app /\ opens'[k].load = opens[k].load
             /\ opens'[k].stage = opens[k].stage
             /\ opens'[k].calm => opens[k].calm /\ a \notin Sheets(opens[k].app)
  <2>1. opens[k] \in Open
    BY OpenFields
  <2>2. CASE a \in Sheets(opens[k].app)
    <3>1. opens'[k] = [opens[k] EXCEPT !.calm = FALSE]
      BY <1>1, <2>2
    <3> QED
      BY <2>1, <3>1 DEF Open
  <2>3. CASE a \notin Sheets(opens[k].app)
    BY <1>1, <2>1, <2>3
  <2> QED BY <2>2, <2>3
<1>3. opens' \in Seq(Open) /\ Len(opens') = Len(opens)
  BY <1>1, <1>2, Rewritten
<1>4. faults' \in 0 .. MaxFaults
  BY LoaderAssumption DEF Fault
<1> QED
  BY <1>2, <1>3, <1>4 DEF OpensStay

\* The module is there: the current open goes on to its styles and whatever is
\* mounted is left; a superseded one is left itself.
LEMMA GetsModuleFacts ==
  ASSUME opens \in Seq(Open), NEW k \in OpenIds, GetsModule(k)
  PROVE  /\ OpensStay /\ NoneMounts
         /\ \A j \in OpenIds : opens'[j].stage = "failed" => opens[j].stage = "failed"
<1>1. CASE Becomes(k, "left")
  BY <1>1, BecomesFacts DEF NoneMounts
<1>2. CASE ~Becomes(k, "left")
  <2>1. opens' = [j \in OpenIds |->
             IF j = k THEN [opens[j] EXCEPT !.stage = "styling"]
             ELSE IF opens[j].stage = "mounted" THEN [opens[j] EXCEPT !.stage = "left"]
             ELSE opens[j]]
    BY <1>2 DEF GetsModule
  <2>2. /\ opens' = [j \in OpenIds |-> opens'[j]] /\ DOMAIN opens' = OpenIds
        /\ \A j \in OpenIds : opens'[j] \in { opens[j], [opens[j] EXCEPT !.stage = "styling"],
                                            [opens[j] EXCEPT !.stage = "left"] }
    BY <2>1
  <2>3. ASSUME NEW j \in OpenIds
        PROVE  /\ opens'[j] \in Open /\ opens'[j].app = opens[j].app /\ opens'[j].load = opens[j].load
               /\ opens'[j].calm = opens[j].calm
               /\ opens'[j].stage \in {opens[j].stage, "styling", "left"}
    <3>1. opens[j] \in Open
      BY OpenFields
    <3> QED
      BY <2>2, <3>1 DEF Open
  <2>4. opens' \in Seq(Open) /\ Len(opens') = Len(opens)
    BY <2>2, <2>3, Rewritten
  <2> QED
    BY <2>3, <2>4 DEF OpensStay, NoneMounts
<1> QED BY <1>1, <1>2

\* Opens that stay keep what is said of them, if the outside keeps to it: a
\* calm open's servers are up and its load is not rejected now, a failed
\* stylesheet stays failed, and a calm open fails only by one.
LEMMA OpensKeep ==
  ASSUME AttemptsInv, OpensInv, OpensStay, LoadIds' = LoadIds,
         \A l \in LoadIds : loads'[l].app = loads[l].app,
         \A k \in OpenIds : opens'[k].calm =>
           /\ Sheets(opens[k].app) \subseteq up'
           /\ loads[opens[k].load].promise # "rejected" => loads'[opens[k].load].promise # "rejected"
           /\ opens'[k].stage = "failed" =>
                opens[k].stage = "failed" \/ \E s \in Sheets(opens[k].app) : sheet'[s] = "rejected",
         \A s \in Servers : sheet[s] = "rejected" => sheet'[s] = "rejected",
         sheet' \in [Servers -> {"none", "pending", "text", "rejected"}],
         up' \subseteq Servers, faults' \in 0 .. MaxFaults,
         Len(loads') = Len(loads)
  PROVE  OpensInv'
<1>1. OpenIds' = OpenIds /\ opens' \in Seq(Open) /\ Len(opens') = Len(opens) /\ opens \in Seq(Open)
  BY DEF OpensStay, OpensInv
<1>2. ASSUME NEW k \in OpenIds PROVE OpenInv(k)'
  <2>1. OpenInv(k) /\ opens[k].app \in Apps
    BY OpenFields DEF OpensInv
  <2>2. opens'[k].app = opens[k].app /\ opens'[k].load = opens[k].load /\ (opens'[k].calm => opens[k].calm)
    BY DEF OpensStay
  <2>3. opens[k].load \in LoadIds /\ loads[opens[k].load].app = opens[k].app
    BY <2>1 DEF OpenInv
  <2>4. opens'[k].load \in LoadIds' /\ loads'[opens'[k].load].app = opens'[k].app
    BY <2>2, <2>3
  <2>5. ASSUME opens'[k].calm
        PROVE  /\ Sheets(opens'[k].app) \subseteq up'
               /\ loads'[opens'[k].load].promise # "rejected"
               /\ opens'[k].stage = "failed" => \E s \in Sheets(opens'[k].app) : sheet'[s] = "rejected"
    <3>1. loads[opens[k].load].promise # "rejected"
      BY <2>1, <2>2, <2>5 DEF OpenInv
    <3>2. opens'[k].stage = "failed" => \E s \in Sheets(opens[k].app) : sheet'[s] = "rejected"
      <4>1. Sheets(opens[k].app) \subseteq Servers
        BY <2>1 DEF Sheets, Servers
      <4>2. opens[k].stage = "failed" => \E s \in Sheets(opens[k].app) : sheet[s] = "rejected"
        BY <2>1, <2>2, <2>5 DEF OpenInv
      <4> QED
        BY <2>5, <4>1, <4>2
    <3> QED
      BY <2>2, <2>5, <3>1, <3>2
  <2> QED
    BY <2>4, <2>5 DEF OpenInv
<1> QED
  BY <1>1, <1>2 DEF OpensInv

-----------------------------------------------------------------------------
(* Every action keeps the attempts and the opens.                          *)

\* Nothing of the loader is touched.
LEMMA AttemptsSame == ASSUME AttemptsInv, UNCHANGED <<loads, loading, failed, broken>> PROVE AttemptsInv'
BY DEF AttemptsInv, LoadInv, KeptInv, Kept, BrokenInv

\* Opening an app begins an attempt, or joins the one that is kept.
LEMMA OpensStep ==
  ASSUME AttemptsInv, OpensInv, NEW a \in Apps, Opens(a)
  PROVE  /\ AttemptsInv' /\ OpensInv'
         /\ \A k \in OpenIds' : opens'[k].stage = "mounted" => k \in OpenIds /\ opens[k].stage = "mounted"
<1> DEFINE r == [app |-> a, load |-> loading'[a], calm |-> Calm(a), stage |-> "loading"]
           n == Len(opens) + 1
<1>1. /\ loadRemoteModule(a) /\ Len(opens) < MaxOpens /\ opens' = Append(opens, r)
      /\ UNCHANGED <<up, sheet, failed, broken, nodes, faults>>
  BY DEF Opens, Current
<1>2. /\ opens \in Seq(Open) /\ loads \in Seq(Load) /\ Len(loads) <= Len(opens)
      /\ Len(opens) \in Nat /\ Len(loads) \in Nat /\ MaxOpens \in Nat
  BY LoaderAssumption DEF OpensInv, AttemptsInv
<1>3. /\ AttemptsInv'
      /\ loading'[a] \in LoadIds' /\ loads'[loading'[a]].app = a
      /\ loads'[loading'[a]].promise # "rejected"
      /\ Len(loads') \in {Len(loads), Len(loads) + 1}
      /\ \A l \in LoadIds : l \in LoadIds' /\ loads'[l] = loads[l]
  <2>1. Len(loads) < MaxOpens
    BY <1>1, <1>2
  <2> QED
    BY <1>1, <2>1, AttemptKeeps
<1>4. r \in Open /\ r.app = a /\ r.load = loading'[a] /\ r.stage = "loading" /\ (r.calm => Sheets(a) \subseteq up)
  <2>1. loads' \in Seq(Load)
    BY <1>3 DEF AttemptsInv
  <2>2. loading'[a] \in Nat /\ Calm(a) \in BOOLEAN
    BY <1>3, <2>1 DEF Calm
  <2> QED
    BY <2>2 DEF Open, Calm
<1> HIDE DEF r
<1>5. /\ opens' \in Seq(Open) /\ Len(opens') = n /\ opens'[n] = r /\ OpenIds' = OpenIds \cup {n}
      /\ \A k \in OpenIds : opens'[k] = opens[k]
  BY <1>1, <1>2, <1>4
<1>6. ASSUME NEW k \in OpenIds' PROVE OpenInv(k)'
  <2>1. CASE k = n
    BY <1>1, <1>3, <1>4, <1>5, <2>1 DEF OpenInv
  <2>2. CASE k \in OpenIds
    <3>1. OpenInv(k) /\ opens'[k] = opens[k] /\ up' = up /\ sheet' = sheet
      BY <1>1, <1>5, <2>2 DEF OpensInv
    <3>2. opens[k].load \in LoadIds' /\ loads'[opens[k].load] = loads[opens[k].load]
      BY <1>3, <3>1 DEF OpenInv
    <3> QED
      BY <3>1, <3>2 DEF OpenInv
  <2> QED BY <1>5, <2>1, <2>2
<1>7. OpensInv'
  <2>1. Len(loads') <= n /\ n <= MaxOpens
    BY <1>1, <1>2, <1>3
  <2> QED
    BY <1>1, <1>5, <1>6, <2>1 DEF OpensInv
<1>8. \A k \in OpenIds' : opens'[k].stage = "mounted" => k \in OpenIds /\ opens[k].stage = "mounted"
  BY <1>4, <1>5
<1> QED BY <1>3, <1>7, <1>8

\* An open moves on: its module is there or not, its styles are, the app
\* mounts or fails to.
LEMMA OpenMoves ==
  ASSUME AttemptsInv, OpensInv, NEW k \in OpenIds,
         GetsModule(k) \/ GetsNoModule(k) \/ GetsStyles(k) \/ Mounts(k) \/ MountFails(k)
  PROVE  AttemptsInv' /\ OpensInv' /\ OpensStay /\ (~Mounts(k) => NoneMounts)
<1> USE DEF OpensInv
<1>1. UNCHANGED <<up, loading, failed, broken, loads>>
  BY DEF GetsModule, GetsNoModule, GetsStyles, Mounts, MountFails
<1>2. AttemptsInv' /\ (\A l \in LoadIds : loads'[l] = loads[l]) /\ LoadIds' = LoadIds /\ opens[k].app \in Apps
  BY <1>1, AttemptsSame, OpenFields
<1>3. /\ sheet' \in [Servers -> {"none", "pending", "text", "rejected"}]
      /\ \A s \in Servers : sheet[s] = "rejected" => sheet'[s] = "rejected"
      /\ faults' \in 0 .. MaxFaults
  <2>1. CASE GetsModule(k)
    BY <2>1 DEF GetsModule
  <2>2. CASE GetsNoModule(k) \/ GetsStyles(k) \/ Mounts(k)
    BY <2>2 DEF GetsNoModule, GetsStyles, Mounts
  <2>3. CASE MountFails(k)
    BY <2>3, LoaderAssumption DEF MountFails
  <2> QED BY <2>1, <2>2, <2>3
<1>4. /\ OpensStay /\ (~Mounts(k) => NoneMounts)
      /\ \A j \in OpenIds : opens'[j].stage = "failed" /\ opens'[j].calm =>
           opens[j].stage = "failed" \/ \E s \in Sheets(opens[j].app) : sheet'[s] = "rejected"
  <2>1. CASE GetsModule(k)
    BY <2>1, GetsModuleFacts
  <2>2. CASE GetsNoModule(k)
    <3>1. Becomes(k, "failed") /\ loads[opens[k].load].promise = "rejected"
      BY <2>2 DEF GetsNoModule
    <3>2. OpensStay /\ \A j \in OpenIds : /\ opens'[j].stage = IF j = k THEN "failed" ELSE opens[j].stage
                                          /\ opens'[j].calm = opens[j].calm
      BY <3>1, BecomesFacts
    <3>3. ~opens[k].calm
      BY <3>1 DEF OpenInv
    <3> QED
      BY <3>2, <3>3 DEF NoneMounts
  <2>3. CASE GetsStyles(k)
    <3>1. sheet' = sheet
      BY <2>3 DEF GetsStyles
    <3>2. CASE Becomes(k, "mounting")
      BY <3>2, BecomesFacts DEF NoneMounts
    <3>3. CASE Becomes(k, "failed") /\ \E s \in Sheets(opens[k].app) : sheet[s] = "rejected"
      <4>1. OpensStay /\ \A j \in OpenIds : opens'[j].stage = IF j = k THEN "failed" ELSE opens[j].stage
        BY <3>3, BecomesFacts
      <4> QED
        BY <3>1, <3>3, <4>1 DEF NoneMounts
    <3> QED BY <2>3, <3>2, <3>3 DEF GetsStyles
  <2>4. CASE Mounts(k)
    <3>1. PICK stage \in {"mounted", "left"} : Becomes(k, stage)
      BY <2>4 DEF Mounts
    <3>2. OpensStay /\ \A j \in OpenIds : opens'[j].stage = IF j = k THEN stage ELSE opens[j].stage
      BY <3>1, BecomesFacts
    <3> QED
      BY <2>4, <3>2
  <2>5. CASE MountFails(k)
    BY <2>5, MountFailsFacts DEF NoneMounts
  <2> QED BY <2>1, <2>2, <2>3, <2>4, <2>5
<1>5. ASSUME NEW j \in OpenIds, opens'[j].calm PROVE Sheets(opens[j].app) \subseteq up'
  BY <1>1, <1>4, <1>5 DEF OpensStay, OpenInv
<1>6. OpensInv'
  BY <1>1, <1>2, <1>3, <1>4, <1>5, OpensKeep
<1> QED BY <1>2, <1>4, <1>6

\* The answer to an attempt comes, or comes too late, or is no app.
LEMMA LoadMoves ==
  ASSUME AttemptsInv, OpensInv, NEW l \in LoadIds,
         RemoteArrives(l) \/ RemoteFails(l) \/ TimesOut(l) \/ ExportsNoApp(l)
  PROVE  AttemptsInv' /\ OpensInv' /\ OpensStay /\ NoneMounts
<1> DEFINE a == loads[l].app
<1>1. /\ loads \in Seq(Load) /\ opens \in Seq(Open) /\ faults \in 0 .. MaxFaults /\ LoadInv(l) /\ a \in Apps
      /\ loads[l].asking \in BOOLEAN /\ loads[l].promise \in {"pending", "module", "rejected"}
  BY LoadFields DEF AttemptsInv, OpensInv
<1>2. UNCHANGED <<up, sheet>>
  BY DEF RemoteArrives, RemoteFails, TimesOut, ExportsNoApp
<1>3. opens' = opens => OpensStay /\ NoneMounts
  BY <1>1 DEF OpensStay, NoneMounts
\* A promise becomes a rejection only if no calm open waits for it.
<1>4. ASSUME AttemptsInv', NEW asking, NEW promise, Judged(l, asking, promise), OpensStay, faults' \in 0 .. MaxFaults,
             \A k \in OpenIds : opens'[k].stage = opens[k].stage,
             \A k \in OpenIds : opens'[k].calm /\ opens[k].load = l => promise # "rejected"
      PROVE  AttemptsInv' /\ OpensInv' /\ OpensStay /\ NoneMounts
  <2>1. LoadIds' = LoadIds /\ Len(loads') = Len(loads) /\ \A m \in LoadIds : loads'[m].app = loads[m].app
    BY <1>1, <1>4 DEF Judged
  <2>2. ASSUME NEW k \in OpenIds, opens'[k].calm
        PROVE  /\ Sheets(opens[k].app) \subseteq up'
               /\ loads[opens[k].load].promise # "rejected" => loads'[opens[k].load].promise # "rejected"
    <3>1. OpenInv(k) /\ opens[k].calm
      BY <1>4, <2>2 DEF OpensInv, OpensStay
    <3>2. CASE opens[k].load = l
      BY <1>2, <1>4, <2>2, <3>1, <3>2 DEF OpenInv, Judged
    <3>3. CASE opens[k].load # l
      BY <1>2, <1>4, <3>1, <3>3 DEF OpenInv, Judged
    <3> QED BY <3>2, <3>3
  <2>3. OpensInv'
    BY <1>2, <1>4, <2>1, <2>2, OpensKeep DEF OpensInv
  <2> QED
    BY <1>4, <2>3 DEF NoneMounts
<1>5. CASE RemoteArrives(l)
  <2>1. /\ Settles(l, "module") /\ UNCHANGED <<loading, failed, broken, opens, faults>> /\ loads[l].asking
    BY <1>5 DEF RemoteArrives, Asks
  <2>2. Judged(l, FALSE, IF loads[l].promise = "pending" THEN "module" ELSE loads[l].promise)
    BY <1>1, <2>1, SettlesFacts
  <2>3. AttemptsInv'
    BY <2>1, <2>2, AnswerKeeps
  <2>4. \A k \in OpenIds : opens'[k].calm /\ opens[k].load = l => loads[l].promise # "rejected"
    BY <2>1 DEF OpensInv, OpenInv
  <2> DEFINE p == IF loads[l].promise = "pending" THEN "module" ELSE loads[l].promise
  <2>5. Judged(l, FALSE, p) /\ \A k \in OpenIds : opens'[k].calm /\ opens[k].load = l => p # "rejected"
    BY <2>2, <2>4
  <2> HIDE DEF p
  <2>6. OpensStay /\ faults' \in 0 .. MaxFaults /\ \A k \in OpenIds : opens'[k].stage = opens[k].stage
    BY <1>1, <1>3, <2>1
  <2> QED
    BY <1>4, <2>3, <2>5, <2>6
<1>6. CASE RemoteFails(l)
  <2>1. /\ Settles(l, "rejected") /\ UNCHANGED <<opens, faults>> /\ loads[l].asking
        /\ broken' = broken \cup {<<loads[l].app, loads[l].entry>>}
    BY <1>6 DEF RemoteFails
  <2>2. loads[l].promise \in {"pending", "rejected"}
    BY <1>1, <2>1 DEF LoadInv
  <2>3. Judged(l, FALSE, IF loads[l].promise = "pending" THEN "rejected" ELSE loads[l].promise)
    BY <1>1, <2>1, SettlesFacts
  <2>4. Judged(l, FALSE, "rejected")
    BY <2>2, <2>3
  <2>5. AttemptsInv'
    <3>1. CASE loads[l].promise = "pending"
      <4>1. Rejects(l)
        BY <1>6, <3>1 DEF RemoteFails
      <4> QED
        BY <2>1, <2>4, <3>1, <4>1, RejectsKeeps
    <3>2. CASE loads[l].promise = "rejected"
      <4>1. UNCHANGED <<loading, failed>>
        BY <1>6, <3>2 DEF RemoteFails
      <4>2. Judged(l, FALSE, IF loads[l].promise = "pending" THEN "module" ELSE loads[l].promise)
        BY <2>4, <3>2
      <4> QED
        BY <2>1, <3>2, <4>1, <4>2, AnswerKeeps
    <3> QED BY <2>2, <3>1, <3>2
  \* A calm open's server is up, and its URL is no broken one.
  <2>6. ASSUME NEW k \in OpenIds, opens[k].calm, opens[k].load = l PROVE FALSE
    <3>1. OpenInv(k) /\ opens[k].app = a
      BY <2>6 DEF OpensInv, OpenInv
    <3>2. a \in up /\ loads[l].promise = "pending"
      BY <2>2, <2>6, <3>1 DEF OpenInv, Sheets
    <3>3. <<a, loads[l].entry>> \in broken
      BY <1>6, <3>2 DEF RemoteFails, Asks
    <3>4. loads[l].entry < failed[a] /\ loads[l].entry = failed[a]
      BY <1>1, <3>2, <3>3 DEF AttemptsInv, BrokenInv, LoadInv
    <3>5. failed[a] \in 0 .. MaxOpens
      BY <1>1 DEF AttemptsInv
    <3> QED BY <3>4, <3>5
  <2> QED
    BY <1>1, <1>3, <1>4, <2>1, <2>4, <2>5, <2>6
<1>7. CASE TimesOut(l) \/ ExportsNoApp(l)
  <2>1. /\ loads[l].promise = "pending" /\ Rejects(l) /\ Fault(a) /\ broken' = broken
    BY <1>7 DEF TimesOut, ExportsNoApp
  <2>2. PICK asking \in BOOLEAN : Judged(l, asking, "rejected")
    <3>1. CASE TimesOut(l)
      BY <1>1, <3>1, TimesOutFacts
    <3>2. CASE ExportsNoApp(l)
      <4>1. Settles(l, "rejected")
        BY <3>2 DEF ExportsNoApp
      <4> QED
        BY <1>1, <2>1, <4>1, SettlesFacts
    <3> QED BY <1>7, <3>1, <3>2
  <2>3. AttemptsInv'
    BY <2>1, <2>2, RejectsKeeps
  <2>4. /\ OpensStay /\ faults' \in 0 .. MaxFaults
        /\ \A k \in OpenIds : /\ opens'[k].stage = opens[k].stage
                              /\ opens'[k].calm => a \notin Sheets(opens[k].app)
    BY <1>1, <2>1, FaultFacts
  <2>5. ASSUME NEW k \in OpenIds, opens'[k].calm, opens[k].load = l PROVE FALSE
    <3>1. opens[k].app = a
      BY <2>5 DEF OpensInv, OpenInv
    <3> QED
      BY <2>4, <2>5, <3>1 DEF Sheets
  <2> QED
    BY <1>4, <2>2, <2>3, <2>4, <2>5
<1> QED BY <1>5, <1>6, <1>7

\* A stylesheet comes, or its server stops or starts.
LEMMA ServerMoves ==
  ASSUME AttemptsInv, OpensInv, NEW s \in Servers,
         SheetArrives(s) \/ ServerStops(s) \/ ServerStarts(s)
  PROVE  AttemptsInv' /\ OpensInv' /\ OpensStay /\ NoneMounts
<1>1. UNCHANGED <<loading, failed, broken, loads>>
  BY DEF SheetArrives, ServerStops, ServerStarts
<1>2. AttemptsInv' /\ LoadIds' = LoadIds /\ (\A l \in LoadIds : loads'[l] = loads[l]) /\ Len(loads') = Len(loads)
  BY <1>1, AttemptsSame
<1>3. /\ opens \in Seq(Open) /\ faults \in 0 .. MaxFaults /\ up \subseteq Servers
      /\ sheet \in [Servers -> {"none", "pending", "text", "rejected"}]
  BY DEF OpensInv
<1>4. /\ sheet' \in [Servers -> {"none", "pending", "text", "rejected"}] /\ up' \subseteq Servers
      /\ \A t \in Servers : sheet[t] = "rejected" => sheet'[t] = "rejected"
  BY <1>3 DEF SheetArrives, ServerStops, ServerStarts
<1>5. /\ OpensStay /\ faults' \in 0 .. MaxFaults
      /\ \A k \in OpenIds : opens'[k].stage = opens[k].stage
      /\ \A k \in OpenIds : opens'[k].calm => Sheets(opens[k].app) \subseteq up'
  <2>1. CASE ServerStops(s)
    <3>1. Fault(s) /\ up' = up \ {s}
      BY <2>1 DEF ServerStops
    <3>2. /\ OpensStay /\ faults' \in 0 .. MaxFaults
          /\ \A k \in OpenIds : /\ opens'[k].stage = opens[k].stage
                                /\ opens'[k].calm => s \notin Sheets(opens[k].app)
      BY <1>3, <3>1, FaultFacts
    <3>3. \A k \in OpenIds : opens'[k].calm => Sheets(opens[k].app) \subseteq up
      BY <3>2 DEF OpensStay, OpensInv, OpenInv
    <3> QED BY <3>1, <3>2, <3>3
  <2>2. CASE SheetArrives(s) \/ ServerStarts(s)
    <3>1. opens' = opens /\ faults' = faults /\ up \subseteq up'
      BY <2>2 DEF SheetArrives, ServerStarts
    <3> QED
      BY <1>3, <3>1 DEF OpensStay, OpensInv, OpenInv
  <2> QED BY <2>1, <2>2
<1>6. \A k \in OpenIds : loads'[opens[k].load].promise = loads[opens[k].load].promise
  BY <1>1
<1>7. OpensInv'
  BY <1>2, <1>4, <1>5, <1>6, OpensKeep
<1> QED BY <1>2, <1>5, <1>7 DEF NoneMounts

-----------------------------------------------------------------------------
(* The styles in the head.                                                 *)

\* A load, a mount, the head and nowhere are four different places.
LEMMA Places ==
  /\ InHead # Gone
  /\ \A l \in Nat : Loader(l) \notin {InHead, Gone}
  /\ \A k \in Nat : Mounter(k) \notin {InHead, Gone}
  /\ \A l, k \in Nat : Loader(l) # Mounter(k)
  /\ \A j, k \in Nat : Mounter(j) = Mounter(k) => j = k
BY DEF Loader, Mounter, InHead, Gone

\* Whoever watches is a load or a mount.
LEMMA WhoWatches ==
  ASSUME AttemptsInv, OpensInv
  PROVE  /\ Watching \subseteq Watchers
         /\ \A k \in OpenIds : Mounter(k) \in Watching => opens[k].stage = "mounting"
<1>1. LoadIds \subseteq Nat /\ OpenIds \subseteq Nat
  BY DEF AttemptsInv, OpensInv
<1>2. Watching \subseteq Watchers
  BY <1>1 DEF Watching, Watchers
<1>3. ASSUME NEW k \in OpenIds, Mounter(k) \in Watching PROVE opens[k].stage = "mounting"
  <2>1. PICK j \in OpenIds : Mounter(k) = Mounter(j) /\ opens[j].stage = "mounting"
    BY <1>1, <1>3, Places DEF Watching
  <2> QED
    BY <1>1, <2>1, Places
<1> QED BY <1>2, <1>3

\* Moving a node changes where it is, and nothing else about it.
LEMMA MovedNode ==
  ASSUME NEW m \in NodeSpace, NEW p \in Watchers \cup {InHead, Gone}
  PROVE  LET n == [m EXCEPT !.at = p]
         IN n \in NodeSpace /\ n.by = m.by /\ n.seen = m.seen /\ n.at = p
BY DEF NodeSpace

\* A mount takes along what its observer has seen, and leaves the rest.
LEMMA Relocates ==
  ASSUME NodesInv, NEW k \in Nat, NEW n \in relocated(k)
  PROVE  /\ n \in NodeSpace /\ NodeInv(n)
         /\ \E m \in nodes : /\ n.by = m.by /\ n.seen = m.seen
                             /\ IF Mounter(k) \in m.seen THEN n.at = Mounter(k) ELSE n.at = m.at
<1>1. PICK m \in nodes : n = IF Mounter(k) \in m.seen THEN [m EXCEPT !.at = Mounter(k)] ELSE m
  BY DEF relocated
<1>2. m \in NodeSpace /\ NodeInv(m) /\ Mounter(k) \in Watchers
  BY DEF NodesInv, Watchers
<1>3. CASE Mounter(k) \in m.seen
  <2>1. n \in NodeSpace /\ n.by = m.by /\ n.seen = m.seen /\ n.at = Mounter(k)
    BY <1>1, <1>2, <1>3, MovedNode
  <2>2. NodeInv(n)
    BY <1>2, <1>3, <2>1, Places DEF NodeInv
  <2> QED BY <1>3, <2>1, <2>2
<1>4. CASE Mounter(k) \notin m.seen
  BY <1>1, <1>2, <1>4
<1> QED BY <1>3, <1>4

\* A load discards what its observer has seen, and leaves the rest.
LEMMA Discards ==
  ASSUME NodesInv, NEW l \in Nat, NEW n \in discarded(l)
  PROVE  /\ n \in NodeSpace /\ NodeInv(n)
         /\ \E m \in nodes : /\ n.by = m.by /\ n.seen = m.seen
                             /\ IF Loader(l) \in m.seen THEN n.at = Gone ELSE n.at = m.at
<1>1. PICK m \in nodes : n = IF Loader(l) \in m.seen THEN [m EXCEPT !.at = Gone] ELSE m
  BY DEF discarded
<1>2. m \in NodeSpace /\ NodeInv(m)
  BY DEF NodesInv
<1>3. CASE Loader(l) \in m.seen
  <2>1. n \in NodeSpace /\ n.by = m.by /\ n.seen = m.seen /\ n.at = Gone
    BY <1>1, <1>2, <1>3, MovedNode
  <2>2. NodeInv(n)
    BY <1>2, <1>3, <2>1 DEF NodeInv
  <2> QED BY <1>3, <2>1, <2>2
<1>4. CASE Loader(l) \notin m.seen
  BY <1>1, <1>2, <1>4
<1> QED BY <1>3, <1>4

\* The styles of a mounted app are its own, one node at a time.
Own(k, n) == ~Crowded(n) => (n.at = Mounter(k) <=> n.by = Mounter(k))

\* Where no app becomes mounted and no node moves, its styles stay its own.
LEMMA NodesSame ==
  ASSUME NodesInv, nodes' = nodes,
         \A k \in OpenIds' : opens'[k].stage = "mounted" => k \in OpenIds /\ opens[k].stage = "mounted"
  PROVE  NodesInv'
BY DEF NodesInv, NodeInv, OwnStyles, Crowded

\* A node taken along by its own mount is in that app's shadow root, and no
\* node that only one has seen leaves the app it belongs to.
LEMMA RelocatedKeeps ==
  ASSUME OpensInv, NodesInv, NEW k \in OpenIds, nodes' = relocated(k), OpenIds' = OpenIds,
         \A j \in OpenIds \ {k} : opens'[j].stage = "mounted" => opens[j].stage = "mounted"
  PROVE  NodesInv'
<1>1. OpenIds \subseteq Nat /\ k \in Nat
  BY DEF OpensInv
<1>2. ASSUME NEW j \in OpenIds, opens'[j].stage = "mounted", NEW n \in nodes' PROVE Own(j, n)
  <2>1. PICK m \in nodes : /\ n.by = m.by /\ n.seen = m.seen
                           /\ IF Mounter(k) \in m.seen THEN n.at = Mounter(k) ELSE n.at = m.at
    BY <1>1, Relocates
  <2>2. SUFFICES ASSUME m.seen = {m.by} PROVE n.at = Mounter(j) <=> m.by = Mounter(j)
    BY <2>1 DEF Own, Crowded
  <2>3. NodeInv(m) /\ j \in Nat
    BY <1>1 DEF NodesInv
  <2>4. CASE Mounter(k) \in m.seen
    <3>1. n.at = Mounter(k) /\ m.by = Mounter(k)
      BY <2>1, <2>2, <2>4
    <3> QED BY <3>1
  <2>5. CASE Mounter(k) \notin m.seen /\ j = k
    <3>1. n.at = m.at /\ m.by # Mounter(k) /\ m.at \in {InHead, Gone, m.by}
      BY <2>1, <2>2, <2>3, <2>5 DEF NodeInv
    <3> QED
      BY <1>1, <2>5, <3>1, Places
  <2>6. CASE Mounter(k) \notin m.seen /\ j # k
    <3>1. opens[j].stage = "mounted" /\ n.at = m.at
      BY <1>2, <2>1, <2>6
    <3> QED
      BY <2>2, <3>1 DEF NodesInv, OwnStyles, Crowded
  <2> QED BY <2>4, <2>5, <2>6
<1>3. \A n \in nodes' : n \in NodeSpace /\ NodeInv(n)
  BY <1>1, Relocates
<1> QED
  BY <1>2, <1>3 DEF NodesInv, OwnStyles, Own, NodeInv, Crowded

\* A load discards no node that only a mount has seen.
LEMMA DiscardedKeeps ==
  ASSUME AttemptsInv, OpensInv, NodesInv, NEW l \in LoadIds, nodes' = discarded(l),
         OpenIds' = OpenIds, NoneMounts
  PROVE  NodesInv'
<1>1. OpenIds \subseteq Nat /\ l \in Nat
  BY DEF OpensInv, AttemptsInv
<1>2. ASSUME NEW j \in OpenIds, opens'[j].stage = "mounted", NEW n \in nodes' PROVE Own(j, n)
  <2>1. PICK m \in nodes : /\ n.by = m.by /\ n.seen = m.seen
                           /\ IF Loader(l) \in m.seen THEN n.at = Gone ELSE n.at = m.at
    BY <1>1, Discards
  <2>2. SUFFICES ASSUME m.seen = {m.by} PROVE n.at = Mounter(j) <=> m.by = Mounter(j)
    BY <2>1 DEF Own, Crowded
  <2>3. CASE Loader(l) \in m.seen
    <3>1. n.at = Gone /\ m.by = Loader(l)
      BY <2>1, <2>2, <2>3
    <3> QED
      BY <1>1, <3>1, Places
  <2>4. CASE Loader(l) \notin m.seen
    <3>1. opens[j].stage = "mounted" /\ n.at = m.at
      BY <1>2, <2>1, <2>4 DEF NoneMounts
    <3> QED
      BY <2>2, <3>1 DEF NodesInv, OwnStyles, Crowded
  <2> QED BY <2>3, <2>4
<1>3. \A n \in nodes' : n \in NodeSpace /\ NodeInv(n)
  BY <1>1, Discards
<1> QED
  BY <1>2, <1>3 DEF NodesInv, OwnStyles, Own, NodeInv, Crowded

\* A style put into the head belongs to no mounted app: a mounted app watches
\* no longer.
LEMMA PutKeeps ==
  ASSUME AttemptsInv, OpensInv, NodesInv, NEW by \in Watching, PutsStyle(by)
  PROVE  NodesInv'
<1> DEFINE new == [by |-> by, at |-> InHead, seen |-> Watching]
<1>1. nodes' = nodes \cup {new} /\ opens' = opens
  BY DEF PutsStyle
<1>2. new \in NodeSpace /\ NodeInv(new) /\ new.at = InHead /\ new.by = by
  BY WhoWatches, Places DEF NodeSpace, NodeInv
<1> HIDE DEF new
<1>3. ASSUME NEW k \in OpenIds, opens[k].stage = "mounted" PROVE Own(k, new)
  <2>1. by # Mounter(k)
    BY <1>3, WhoWatches
  <2>2. k \in Nat
    BY DEF OpensInv
  <2> QED
    BY <1>2, <2>1, <2>2, Places DEF Own
<1> QED
  BY <1>1, <1>2, <1>3 DEF NodesInv, OwnStyles, Own, NodeInv, Crowded

-----------------------------------------------------------------------------
(* The theorems.                                                           *)

\* The page begins with nothing asked for and nothing opened.
LEMMA Starts == Init => Inv
<1> SUFFICES ASSUME Init PROVE Inv
  OBVIOUS
<1>1. /\ loads = <<>> /\ opens = <<>> /\ broken = {} /\ nodes = {} /\ faults = 0 /\ up = Servers
      /\ loading = [a \in Apps |-> 0] /\ failed = [a \in Apps |-> 0] /\ sheet = [s \in Servers |-> "none"]
  BY DEF Init
<1>2. loads \in Seq(Load) /\ Len(loads) = 0 /\ opens \in Seq(Open) /\ Len(opens) = 0
  BY <1>1
<1>3. MaxOpens \in Nat /\ MaxFaults \in Nat
  BY LoaderAssumption
<1>4. AttemptsInv
  BY <1>1, <1>2, <1>3 DEF AttemptsInv, LoadInv, KeptInv, Kept, BrokenInv
<1>5. OpensInv
  BY <1>1, <1>2, <1>3 DEF OpensInv, OpenInv
<1>6. NodesInv
  BY <1>1, <1>2 DEF NodesInv, OwnStyles
<1> QED BY <1>4, <1>5, <1>6 DEF Inv

\* Every step keeps the invariant.
LEMMA Continues == Inv /\ [Next]_vars => Inv'
<1> SUFFICES ASSUME Inv, [Next]_vars PROVE Inv'
  OBVIOUS
<1> USE DEF Inv
<1>1. ASSUME NEW a \in Apps, Opens(a) PROVE Inv'
  <2>1. nodes' = nodes
    BY <1>1 DEF Opens
  <2> QED
    BY <1>1, <2>1, OpensStep, NodesSame
<1>2. ASSUME NEW k \in OpenIds, GetsModule(k) \/ GetsNoModule(k) \/ GetsStyles(k) \/ Mounts(k) \/ MountFails(k)
      PROVE  Inv'
  <2>1. AttemptsInv' /\ OpensInv' /\ OpensStay /\ (~Mounts(k) => NoneMounts)
    BY <1>2, OpenMoves
  <2>2. OpenIds' = OpenIds
    BY <2>1 DEF OpensStay, OpensInv
  <2>3. CASE GetsModule(k) \/ GetsNoModule(k) \/ GetsStyles(k)
    <3>1. nodes' = nodes /\ ~Mounts(k)
      BY <2>3 DEF GetsModule, GetsNoModule, GetsStyles, Mounts
    <3> QED
      BY <2>1, <2>2, <3>1, NodesSame DEF NoneMounts
  <2>4. CASE Mounts(k)
    <3>1. PICK stage \in {"mounted", "left"} : Becomes(k, stage)
      BY <2>4 DEF Mounts
    <3>2. \A j \in OpenIds \ {k} : opens'[j].stage = opens[j].stage
      BY <3>1, BecomesFacts DEF OpensInv
    <3>3. nodes' = relocated(k)
      BY <2>4 DEF Mounts
    <3> QED
      BY <2>1, <2>2, <3>2, <3>3, RelocatedKeeps
  <2>5. CASE MountFails(k)
    <3>1. nodes' = relocated(k) /\ \A j \in OpenIds \ {k} : opens'[j] = opens[j]
      BY <2>5, MountFailsFacts DEF MountFails, OpensInv
    <3> QED
      BY <2>1, <2>2, <3>1, RelocatedKeeps
  <2> QED BY <1>2, <2>3, <2>4, <2>5
<1>3. ASSUME NEW by \in Watching, PutsStyle(by) PROVE Inv'
  <2>1. UNCHANGED <<up, sheet, loading, failed, broken, loads, opens, faults>>
    BY <1>3 DEF PutsStyle
  <2>2. OpensInv'
    BY <2>1 DEF OpensInv, OpenInv
  <2> QED
    BY <1>3, <2>1, <2>2, AttemptsSame, PutKeeps
<1>4. ASSUME NEW l \in LoadIds, RemoteArrives(l) \/ RemoteFails(l) \/ TimesOut(l) \/ ExportsNoApp(l)
      PROVE  Inv'
  <2>1. AttemptsInv' /\ OpensInv' /\ OpensStay /\ NoneMounts
    BY <1>4, LoadMoves
  <2>2. OpenIds' = OpenIds
    BY <2>1 DEF OpensStay, OpensInv
  <2>3. CASE TimesOut(l)
    <3>1. nodes' = nodes
      BY <2>3 DEF TimesOut
    <3> QED
      BY <2>1, <2>2, <3>1, NodesSame DEF NoneMounts
  <2>4. CASE ~TimesOut(l)
    <3>1. nodes' = discarded(l)
      BY <1>4, <2>4 DEF RemoteArrives, RemoteFails, ExportsNoApp
    <3> QED
      BY <2>1, <2>2, <3>1, DiscardedKeeps
  <2> QED BY <2>3, <2>4
<1>5. ASSUME NEW s \in Servers, SheetArrives(s) \/ ServerStops(s) \/ ServerStarts(s) PROVE Inv'
  <2>1. AttemptsInv' /\ OpensInv' /\ OpensStay /\ NoneMounts
    BY <1>5, ServerMoves
  <2>2. OpenIds' = OpenIds /\ nodes' = nodes
    BY <1>5, <2>1 DEF OpensStay, OpensInv, SheetArrives, ServerStops, ServerStarts
  <2> QED
    BY <2>1, <2>2, NodesSame DEF NoneMounts
<1>6. CASE UNCHANGED vars
  <2>1. AttemptsInv'
    BY <1>6, AttemptsSame DEF vars
  <2>2. OpensInv' /\ NodesInv'
    BY <1>6 DEF vars, OpensInv, OpenInv, NodesInv, NodeInv, OwnStyles, Crowded
  <2> QED BY <2>1, <2>2
<1> QED
  BY <1>1, <1>2, <1>3, <1>4, <1>5, <1>6 DEF Next

\* The invariant holds of every state of the loader.
THEOREM LoaderCorrect == Spec => []Inv
<1>1. Inv /\ [Next]_vars => Inv'
  BY Continues
<1> QED BY Starts, <1>1, PTL DEF Spec

\* Every variable of the loader keeps to its type.
THEOREM LoaderTypeCorrect == Spec => []TypeOK
<1>1. Inv => TypeOK
  <2> SUFFICES ASSUME Inv PROVE TypeOK
    OBVIOUS
  <2>1. loads \in [LoadIds -> Load] /\ opens \in [OpenIds -> Open]
    BY DEF Inv, AttemptsInv, OpensInv
  <2>2. opens \in [OpenIds -> [app : Apps, load : LoadIds, calm : BOOLEAN,
                     stage : {"loading", "styling", "mounting", "mounted", "failed", "left"}]]
    BY <2>1 DEF Inv, OpensInv, OpenInv, Open
  <2> QED
    BY <2>1, <2>2 DEF TypeOK, Load, Inv, AttemptsInv, OpensInv, NodesInv, NodeInv
<1> QED BY LoaderCorrect, <1>1, PTL

\* An app opened, or retried, with its servers up and nothing going wrong since
\* ends in an error only over a stylesheet that failed once (createRemoteLoader's
\* retry URLs against the runtime that never asks again for a broken one).
THEOREM RetriesRecover == Spec => []RetryRecovers
<1>1. Inv => RetryRecovers
  BY DEF Inv, OpensInv, OpenInv, RetryRecovers
<1> QED BY LoaderCorrect, <1>1, PTL

\* The shadow root of the app in the slot has the styles of its own mount, all
\* of them and no others, but for those put in while another load or mount was
\* watching the head (withHeadStylesRelocatedTo, withoutHeadSideEffects).
THEOREM StylesAreOwn == Spec => []OwnStyles
<1>1. Inv => OwnStyles
  BY DEF Inv, NodesInv
<1> QED BY LoaderCorrect, <1>1, PTL

-----------------------------------------------------------------------------
(* What the page may load (Registry).                                      *)

\* What resolve gives is a manifest of the registry with the app's name.
LEMMA ResolvedIsListed ==
  ASSUME NEW ms, NEW appId, resolve(ms, appId).ok
  PROVE  /\ resolve(ms, appId).manifest \in list(ms)
         /\ resolve(ms, appId).manifest.id = appId
<1> DEFINE known == { m \in list(ms) : m.id = appId }
           m0 == CHOOSE m \in known : TRUE
<1>1. known # {} /\ m0.contract = SUPPORTED_CONTRACT_MAJOR
  <2>1. CASE known = {}
    BY <2>1 DEF resolve
  <2>2. CASE known # {} /\ m0.contract # SUPPORTED_CONTRACT_MAJOR
    BY <2>2 DEF resolve
  <2> QED BY <2>1, <2>2
<1>2. resolve(ms, appId).manifest = m0
  BY <1>1 DEF resolve
<1>3. m0 \in known
  BY <1>1
<1> QED BY <1>2, <1>3

\* Of some overrides one is the latest.
LEMMA LatestExists ==
  ASSUME NEW n \in Nat, NEW T \in SUBSET (1 .. n), T # {}
  PROVE  \E i \in T : \A j \in T : j <= i
<1> DEFINE Later(i) == { j \in T : j > i }
           D == { Later(i) : i \in T }
           R == StrictSubsetOrdering(1 .. n)
<1>1. IsWellFoundedOn(R, FiniteSubsetsOf(1 .. n))
  BY FS_StrictSubsetOrderingWellFounded
<1>2. D \subseteq SUBSET (1 .. n) /\ D # {}
  OBVIOUS
<1>3. D \subseteq FiniteSubsetsOf(1 .. n)
  <2>1. FiniteSubsetsOf(1 .. n) = SUBSET (1 .. n)
    <3>1. IsFiniteSet(1 .. n)
      BY FS_Interval
    <3> QED BY <3>1, FS_FiniteSubsetsOfFinite
  <2> QED BY <1>2, <2>1
<1>4. PICK x \in D : \A y \in D : ~ (<<y, x>> \in R)
  <2> HIDE DEF R, D
  <2> QED BY <1>1, <1>2, <1>3, WFMin
<1>5. PICK i \in T : x = Later(i)
  BY <1>4
<1>6. ASSUME NEW j \in T, j > i PROVE FALSE
  <2>1. Later(j) \in D
    BY <1>6
  <2>2. Later(j) \subseteq Later(i) /\ j \in Later(i) /\ j \notin Later(j)
    <3>1. j \in 1 .. n /\ i \in 1 .. n
      BY <1>6
    <3>2. \A k \in T : k > j => k > i
      BY <1>6, <3>1
    <3>3. Later(j) \subseteq Later(i)
      BY <3>2
    <3>4. ~(j > j)
      BY <3>1
    <3> QED BY <1>6, <3>3, <3>4
  <2>3. <<Later(j), x>> \in R
    BY <2>2, <1>5, <1>2, <2>1 DEF StrictSubsetOrdering
  <2> QED BY <2>1, <2>3, <1>4
<1> QED BY <1>6

\* The origin the code reads off a URL is the one the browser asks for it.
LEMMA UrlsAreRead ==
  ASSUME NEW u \in Urls
  PROVE  originOf(u) = Site[u]
<1>1. WithPort \cap Urls = {} /\ (u \notin Absolute => Site[u] = Self)
  BY RegistryAssumption
<1> QED BY <1>1 DEF originOf

\* What an override names is a URL.
LEMMA OverrideType ==
  ASSUME NEW params \in Seq(RemoteParam), NEW a \in DOMAIN parseRemoteOverrides(params)
  PROVE  parseRemoteOverrides(params)[a] \in Urls
<1> DEFINE overriding == { i \in DOMAIN params : /\ params[i].appId # Nothing
                                                 /\ params[i].remoteEntry # Nothing }
           Of == { i \in overriding : params[i].appId = a }
           last == CHOOSE i \in Of : \A j \in Of : j <= i
<1>1. /\ a \in { params[i].appId : i \in overriding }
      /\ parseRemoteOverrides(params)[a] = params[last].remoteEntry
  BY DEF parseRemoteOverrides
<1>2. Of # {} /\ Of \subseteq 1 .. Len(params)
  BY <1>1
<1>3. \E i \in Of : \A j \in Of : j <= i
  <2> HIDE DEF Of
  <2>1. Len(params) \in Nat /\ Of \in SUBSET (1 .. Len(params))
    BY <1>2
  <2> QED BY <1>2, <2>1, LatestExists
<1>4. last \in Of
  <2> HIDE DEF Of
  <2> QED BY <1>3
<1>5. last \in DOMAIN params /\ params[last].remoteEntry # Nothing
  BY <1>4
<1>6. params[last] \in RemoteParam
  BY <1>5
<1> QED BY <1>1, <1>5, <1>6 DEF RemoteParam

\* What the query leaves of a registry are manifests.
LEMMA OverriddenType ==
  ASSUME NEW ms \in Seq(Manifest), NEW params \in Seq(RemoteParam), NEW i \in DOMAIN ms
  PROVE  loadRegistry(ms, params)[i] \in Manifest
<1> DEFINE overrides == parseRemoteOverrides(params)
<1>1. ms[i] \in Manifest
  OBVIOUS
<1>2. CASE ms[i].id \in DOMAIN overrides
  <2>1. overrides[ms[i].id] \in Urls
    BY <1>2, OverrideType
  <2>2. loadRegistry(ms, params)[i] = [ms[i] EXCEPT !.remoteEntry = overrides[ms[i].id]]
    BY <1>2 DEF loadRegistry, applyRemoteOverrides
  <2> QED BY <1>1, <2>1, <2>2 DEF Manifest
<1>3. CASE ms[i].id \notin DOMAIN overrides
  BY <1>1, <1>3 DEF loadRegistry, applyRemoteOverrides
<1> QED BY <1>2, <1>3

\* An app that resolves is one of the registry's, as the query leaves it.
LEMMA ResolvedType ==
  ASSUME NEW ms \in Seq(Manifest), NEW params \in Seq(RemoteParam), NEW appId,
         resolve(loadRegistry(ms, params), appId).ok
  PROVE  \E i \in DOMAIN ms :
           /\ resolve(loadRegistry(ms, params), appId).manifest = loadRegistry(ms, params)[i]
           /\ loadRegistry(ms, params)[i] \in Manifest
<1> DEFINE rs == loadRegistry(ms, params)
           m == resolve(rs, appId).manifest
<1>1. m \in list(rs)
  BY ResolvedIsListed
<1>2. DOMAIN rs = DOMAIN ms
  BY DEF loadRegistry, applyRemoteOverrides
<1>3. PICK i \in DOMAIN ms : m = rs[i]
  <2> HIDE DEF rs, m
  <2> QED BY <1>1, <1>2 DEF list
<1>4. rs[i] \in Manifest
  BY OverriddenType
<1> QED BY <1>3, <1>4

\* Whatever the query overrides and whichever app is resolved, a browser with
\* the policy served for that query lets in every URL the app names, absolute
\* or relative (buildContentSecurityPolicy against loadRegistry and resolve).
THEOREM PolicyLetsInEveryApp ==
  ASSUME NEW ms \in Seq(Manifest), NEW params \in Seq(RemoteParam), NEW appId,
         resolve(loadRegistry(ms, params), appId).ok
  PROVE  LetsIn(policyForRequestUrl(ms, params),
                WithUrlsOnly(resolve(loadRegistry(ms, params), appId).manifest))
<1> DEFINE rs == loadRegistry(ms, params)
           p == buildContentSecurityPolicy(rs)
<1>1. PICK i \in DOMAIN ms : /\ resolve(rs, appId).manifest = rs[i]
                             /\ rs[i] \in Manifest
  BY ResolvedType
<1> DEFINE m == rs[i]
<1>2. i \in DOMAIN rs
  BY DEF loadRegistry, applyRemoteOverrides
<1>3. /\ m.remoteEntry \in Urls
      /\ \A u \in m.styles : u \in Urls
  BY <1>1 DEF Manifest
<1>4. policyForRequestUrl(ms, params) = p
  BY DEF policyForRequestUrl, loadRegistry
<1> HIDE DEF rs
<1>5. Site[m.remoteEntry] \in p.script \cap p.connect \cap p.frame
  <2>1. originOf(m.remoteEntry) \in { originOf(n.remoteEntry) : n \in { rs[k] : k \in DOMAIN rs } }
    BY <1>2
  <2>2. originOf(m.remoteEntry) = Site[m.remoteEntry]
    BY <1>3, UrlsAreRead
  <2> QED BY <2>1, <2>2 DEF buildContentSecurityPolicy
<1>6. ASSUME NEW u \in m.styles PROVE Site[u] \in p.style \cap p.connect
  <2>1. originOf(u) \in { originOf(v) : v \in UNION { n.styles : n \in { rs[k] : k \in DOMAIN rs } } }
    BY <1>2
  <2>2. originOf(u) = Site[u]
    BY <1>3, UrlsAreRead
  <2> QED BY <2>1, <2>2 DEF buildContentSecurityPolicy
<1>7. ASSUME NEW u \in m.connect \cap Urls PROVE Site[u] \in p.connect
  <2>1. originOf(u) \in { originOf(v) : v \in UNION { n.connect : n \in { rs[k] : k \in DOMAIN rs } } }
    BY <1>2
  <2>2. originOf(u) = Site[u]
    BY UrlsAreRead
  <2> QED BY <2>1, <2>2 DEF buildContentSecurityPolicy
<1>8. /\ WithUrlsOnly(m).remoteEntry = m.remoteEntry
      /\ WithUrlsOnly(m).styles = m.styles
      /\ WithUrlsOnly(m).connect = m.connect \cap Urls
  BY <1>1 DEF WithUrlsOnly, Manifest
<1>9. LetsIn(p, WithUrlsOnly(m))
  BY <1>5, <1>6, <1>7, <1>8 DEF LetsIn
<1> QED BY <1>1, <1>4, <1>9 DEF rs

\* A domain declared without a scheme is shut out unless something else lets
\* its site in: a page that may connect to a site other than its own has a
\* manifest that names it by a URL (originOf's catch and its host:port).
THEOREM OnlyUrlsLetIn ==
  ASSUME NEW ms \in Seq(Manifest), NEW params \in Seq(RemoteParam),
         NEW site \in policyForRequestUrl(ms, params).connect,
         site \notin {Self, Null}
  PROVE  \E i \in DOMAIN ms :
           LET m == loadRegistry(ms, params)[i]
           IN \E u \in {m.remoteEntry} \cup m.styles \cup m.connect :
                u \in Absolute /\ Site[u] = site
<1> DEFINE rs == loadRegistry(ms, params)
           each == { rs[k] : k \in DOMAIN rs }
<1>1. \E n \in each : \E u \in {n.remoteEntry} \cup n.styles \cup n.connect : originOf(u) = site
  <2> HIDE DEF rs
  <2>1. policyForRequestUrl(ms, params) = buildContentSecurityPolicy(rs)
    BY DEF policyForRequestUrl, loadRegistry, rs
  <2>2. site \in {Self} \cup { originOf(n.remoteEntry) : n \in each }
                 \cup { originOf(u) : u \in UNION { n.styles : n \in each } }
                 \cup { originOf(u) : u \in UNION { n.connect : n \in each } }
    BY <2>1 DEF buildContentSecurityPolicy
  <2> QED BY <2>2
<1>2. PICK i \in DOMAIN rs : \E u \in {rs[i].remoteEntry} \cup rs[i].styles \cup rs[i].connect :
                                originOf(u) = site
  BY <1>1
<1>3. PICK u \in {rs[i].remoteEntry} \cup rs[i].styles \cup rs[i].connect : originOf(u) = site
  BY <1>2
<1>4. u \in Absolute /\ Site[u] = site
  BY <1>3 DEF originOf
<1>5. DOMAIN rs = DOMAIN ms
  BY DEF loadRegistry, applyRemoteOverrides
<1> QED BY <1>3, <1>4, <1>5

-----------------------------------------------------------------------------
(* The page and its policy (PagePolicy).                                   *)

\* Until the person strays, the address has the document's query, and so had
\* the chrome when it mounted; who logged out had none to lose.
PageInv ==
  /\ PageTypeOK
  /\ ~strayed => /\ ~Strays(address, served)
                 /\ session = "logout" => served = NoOverride
                 /\ read # None => read = served

LEMMA SearchType ==
  ASSUME NEW a \in Addresses
  PROVE  a.query \in Queries /\ Search(a) \in Queries
BY PageAssumption DEF Addresses, Search, NoOverride

\* The rules keep an address's query, but for the root's and after a logout.
LEMMA RedirectedKeeps ==
  ASSUME NEW a \in Addresses, NEW s, NEW query,
         ~Strays(a, query), s = "logout" => query = NoOverride
  PROVE  ~Strays(Redirected(a, s), query)
BY DEF Redirected, Strays, Addresses, At, NoOverride

LEMMA RedirectedType ==
  ASSUME NEW a \in Addresses, NEW s
  PROVE  Redirected(a, s) \in Addresses
BY PageAssumption DEF Redirected, Addresses, At, NoOverride

LEMMA PageInitInv == PageInit => PageInv
BY SearchType DEF PageInit, PageInv, PageTypeOK, Strays

\* Landing somewhere, with no loss of the document's query the person did not
\* ask for.
LEMMA LandsInv ==
  ASSUME PageInv, NEW a \in Addresses,
         NEW s \in {"pending", "in", "expired", "logout"},
         Lands(a, s), UNCHANGED <<data, served>>, strayed' \in BOOLEAN,
         ~strayed' => /\ ~strayed /\ ~Strays(a, served)
                      /\ s = "logout" => served = NoOverride
  PROVE  PageInv'
<1> DEFINE b == Redirected(a, s)
<1>1. b \in Addresses /\ address' = b /\ session' = s
  BY RedirectedType DEF Lands
<1>2. read' \in {None, read, Search(b)}
  BY DEF Lands
<1>3. PageTypeOK'
  <2>1. Search(b) \in Queries
    BY <1>1, SearchType
  <2> QED BY <1>1, <1>2, <2>1 DEF PageInv, PageTypeOK
<1>4. ASSUME ~strayed' PROVE ~Strays(b, served)
  BY <1>4, RedirectedKeeps
<1>5. ASSUME ~strayed', read' # None PROVE read' = served
  <2>1. b.at = "shell" /\ read' \in {read, Search(b)}
    <3>1. ~(s = "in" /\ b.at = "shell") => read' = None
      BY DEF Lands
    <3>2. b.at = "shell"
      BY <1>5, <3>1
    <3> QED BY <1>2, <1>5, <3>2
  <2>2. Search(b) = served
    BY <2>1, <1>4, <1>5 DEF Search, Strays
  <2>3. read # None => read = served
    BY <1>5 DEF PageInv
  <2> QED BY <2>1, <2>2, <2>3, <1>5
<1>6. /\ ~strayed' => ~Strays(address', served')
      /\ ~strayed' => (session' = "logout" => served' = NoOverride)
  BY <1>1, <1>4
<1> QED BY <1>3, <1>5, <1>6 DEF PageInv, Strays

LEMMA PageNextInv == PageInv /\ [PageNext]_pageVars => PageInv'
<1> SUFFICES ASSUME PageInv, [PageNext]_pageVars PROVE PageInv'
  OBVIOUS
<1> USE DEF PageInv
<1>0. address \in Addresses /\ strayed \in BOOLEAN
  BY DEF PageTypeOK
<1>1. ASSUME NEW a \in Addresses, Loads(a) PROVE PageInv'
  BY <1>1, SearchType DEF Loads, PageTypeOK, Strays
<1>2. ASSUME NEW a \in Addresses, PersonMoves(a) PROVE PageInv'
  <2>1. strayed' \in BOOLEAN /\ (~strayed' => ~strayed /\ ~Strays(a, served))
    BY <1>2, <1>0 DEF PersonMoves, Strays
  <2>2. session \in {"pending", "in", "expired", "logout"}
    BY DEF PageTypeOK
  <2> QED BY <1>2, <2>1, <2>2, LandsInv DEF PersonMoves
<1>3. ASSUME NEW s \in {"in", "expired"}, SessionBecomes(s) PROVE PageInv'
  BY <1>0, <1>3, LandsInv DEF SessionBecomes
<1>4. CASE PageLogsOut
  <2>1. strayed' \in BOOLEAN /\ (~strayed' => ~strayed /\ served = NoOverride)
    BY <1>4, <1>0 DEF PageLogsOut
  <2> QED BY <1>0, <1>4, <2>1, LandsInv DEF PageLogsOut
<1>5. ASSUME NEW q \in Queries, MovesOnInShell(q) PROVE PageInv'
  BY <1>0, <1>5 DEF MovesOnInShell, PageTypeOK, Strays, At, Addresses
<1>6. CASE UNCHANGED pageVars
  BY <1>6 DEF pageVars, PageTypeOK, Strays
<1> QED BY <1>1, <1>2, <1>3, <1>4, <1>5, <1>6 DEF PageNext

\* For every registry, every query and every way through sign-in, expiry and
\* sign-in again, the document lets in the apps its chrome opens, with every
\* URL they name, until the person strays from its query (policyForRequestUrl
\* against loadRegistry, across decideRouteRedirect).
THEOREM PolicyStaysInStep == PageSpec => []PolicyInStep
<1>1. ASSUME PageInv, read # None, ~strayed, NEW m \in Resolved
      PROVE  LetsIn(policy, WithUrlsOnly(m))
  <2>1. read = served /\ served \in Queries /\ data \in Registries
    BY <1>1 DEF PageInv, PageTypeOK
  <2>2. data \in Seq(Manifest) /\ served \in Seq(RemoteParam)
    BY <2>1, PageAssumption
  <2>3. PICK i \in Ids : /\ resolve(loadRegistry(data, served), i).ok
                         /\ m = resolve(loadRegistry(data, served), i).manifest
    BY <1>1, <2>1 DEF Resolved
  <2> QED BY <2>2, <2>3, PolicyLetsInEveryApp DEF policy
<1>2. PageInv => PolicyInStep
  BY <1>1 DEF PolicyInStep
<1> QED BY PageInitInv, PageNextInv, <1>2, PTL DEF PageSpec
=============================================================================
