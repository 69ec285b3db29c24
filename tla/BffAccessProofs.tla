-------------------------- MODULE BffAccessProofs --------------------------
(***************************************************************************)
(* Proofs about BffAccess, for every number of requests, sessions, users,  *)
(* households and apps and for every value of the time limits.             *)
(***************************************************************************)
EXTENDS BffAccess, TLAPS

-----------------------------------------------------------------------------
(* Types.                                                                  *)

LEMMA FreeSlotType == FreeSlot \in Request
  BY BffAssumption DEF FreeSlot, NoView, Request, View, Phases, Replies

\* What is left of a cache after some keys are removed.
LEMMA WithoutType ==
  ASSUME NEW e, NEW S, NEW D, NEW T,
         DOMAIN e \subseteq D, \A k \in DOMAIN e : e[k] \in T
  PROVE  /\ DOMAIN Without(e, S) = DOMAIN e \ S
         /\ DOMAIN Without(e, S) \subseteq D
         /\ \A k \in DOMAIN Without(e, S) : /\ k \in DOMAIN e
                                            /\ Without(e, S)[k] = e[k]
                                            /\ Without(e, S)[k] \in T
  BY DEF Without

\* Storing a view keeps nothing but old entries, and adds the new one.
LEMMA AfterSetEntries ==
  ASSUME NEW e, NEW key, NEW value, NEW at
  PROVE  LET f == AfterSet(e, key, value, at)
         IN  /\ DOMAIN f \subseteq DOMAIN e \cup {key}
             /\ f[key] = [value |-> value, expiresAt |-> at + Ttl]
             /\ key \in DOMAIN f
             /\ \A k \in DOMAIN f : k # key => k \in DOMAIN e /\ f[k] = e[k]
<1> DEFINE kept == IF Cardinality(DOMAIN e) >= PruneThreshold
                     THEN PruneExpired(e, at) ELSE e
<1>1. /\ DOMAIN kept \subseteq DOMAIN e
      /\ \A k \in DOMAIN kept : kept[k] = e[k]
  BY DEF PruneExpired, Without
<1> HIDE DEF kept
<1>2. AfterSet(e, key, value, at) =
        [k \in DOMAIN kept \cup {key} |->
           IF k = key THEN [value |-> value, expiresAt |-> at + Ttl] ELSE kept[k]]
  BY DEF AfterSet, kept
<1>3. QED
  BY <1>1, <1>2

LEMMA InitType == Init => TypeOK
<1> SUFFICES ASSUME Init PROVE TypeOK
  OBVIOUS
<1>1. PICK installed \in [Households -> SUBSET Apps],
           members \in [Households -> SUBSET Users],
           grants \in [Households -> [Users -> SUBSET Apps]] :
        hist = [h \in Households |->
                  <<[since |-> 0, installed |-> installed[h],
                     members |-> members[h], grants |-> grants[h]]>>]
  BY DEF Init
<1>2. \A h \in Households : hist[h] \in Seq(HouseholdState) /\ Len(hist[h]) = 1
  BY <1>1 DEF HouseholdState
<1>3. hist \in [Households -> Seq(HouseholdState)]
  BY <1>1, <1>2
<1>4. QED
  BY <1>2, <1>3, FreeSlotType DEF Init, TypeOK, EmptyCache

LEMMA IntrospectionType ==
  ASSUME TypeOK, NEW r \in Requests
  PROVE  /\ UserAt(r) \in Users
         /\ CacheKey(r) \in Sessions \X Households
         /\ \A s \in Sessions, h \in Households : NoView(s, h) \in View
         /\ IntrospectionReply(r) \in Replies
         /\ TokenReply(r) \in Replies
         /\ \A h \in Households : Version(hist[h]) \in Nat \ {0}
         /\ \A h \in Households : Current(hist[h]) \in HouseholdState
<1>1. \A h \in Households : hist[h] \in Seq(HouseholdState) /\ Len(hist[h]) > 0
  BY DEF TypeOK
<1>2. \A h \in Households : /\ Version(hist[h]) \in Nat \ {0}
                            /\ Current(hist[h]) \in HouseholdState
  BY <1>1 DEF Version, Current
<1>3. QED
  BY <1>2, BffAssumption
     DEF TypeOK, Request, UserAt, CacheKey, KeyOf, NoView, View,
         IntrospectionReply, TokenReply, Replies

LEMMA ChangeType ==
  ASSUME TypeOK, NEW h \in Households, NEW next \in HouseholdState,
         NEW scope \in Scope, ChangeHousehold(h, next, scope)
  PROVE  TypeOK'
<1>1. hist[h] \in Seq(HouseholdState) /\ Len(hist[h]) > 0
  BY DEF TypeOK
<1>2. /\ Append(hist[h], next) \in Seq(HouseholdState)
      /\ Len(Append(hist[h], next)) = Len(hist[h]) + 1
  BY <1>1
<1>3. /\ hist' \in [Households -> Seq(HouseholdState)]
      /\ \A k \in Households : Len(hist'[k]) > 0
  BY <1>1, <1>2 DEF TypeOK, ChangeHousehold
<1>4. webhooks' \subseteq Webhook
  BY <1>1 DEF TypeOK, ChangeHousehold, Webhook, Version
<1>5. QED
  BY <1>3, <1>4 DEF TypeOK, ChangeHousehold

LEMMA RemovalType ==
  ASSUME TypeOK, NEW S
  PROVE  /\ DOMAIN Without(entries, S) \subseteq Sessions \X Households
         /\ \A k \in DOMAIN Without(entries, S) : Without(entries, S)[k] \in Entry
<1>1. /\ DOMAIN entries \subseteq Sessions \X Households
      /\ \A k \in DOMAIN entries : entries[k] \in Entry
  BY DEF TypeOK
<1>2. QED
  BY <1>1, WithoutType

LEMMA LearnType ==
  ASSUME TypeOK, NEW scope \in Scope, NEW ver \in Nat, Learn(scope, ver)
  PROVE  known' \in [Users -> [Households -> Nat]]
  BY DEF TypeOK, Learn

LEMMA MarkType ==
  ASSUME TypeOK, NEW scope
  PROVE  /\ MarkOvertaken(req, scope) \in [Requests -> Request]
         /\ \A r \in Requests :
              MarkOvertaken(req, scope)[r] =
                [req[r] EXCEPT !.view.raced = @ \/ Overtaken(r, scope)]
<1>1. ASSUME NEW r \in Requests
      PROVE  /\ MarkOvertaken(req, scope)[r] \in Request
             /\ MarkOvertaken(req, scope)[r] =
                  [req[r] EXCEPT !.view.raced = @ \/ Overtaken(r, scope)]
  <2>1. req[r] \in Request
    BY DEF TypeOK
  <2>2. CASE Overtaken(r, scope)
    BY <2>1, <2>2 DEF MarkOvertaken, Request, View
  <2>3. CASE ~Overtaken(r, scope)
    BY <2>1, <2>3 DEF MarkOvertaken, Request, View
  <2>4. QED
    BY <2>2, <2>3
<1>2. QED
  BY <1>1 DEF MarkOvertaken

LEMMA TypeStep == TypeOK /\ [Next]_vars => TypeOK'
<1> SUFFICES ASSUME TypeOK, [Next]_vars PROVE TypeOK'
  OBVIOUS
<1>1. ASSUME NEW h \in Households, ChangeForAll(h) PROVE TypeOK'
  <2>1. PICK installed \in SUBSET Apps,
             members \in {Current(hist[h]).members, {}} :
          ChangeHousehold(h, [since |-> now, installed |-> installed, members |-> members,
                              grants |-> Current(hist[h]).grants],
                          [hid |-> h, userId |-> AnyUser])
    BY <1>1 DEF ChangeForAll
  <2>2. Current(hist[h]) \in HouseholdState /\ now \in Nat
    BY IntrospectionType DEF TypeOK, Version, Current
  <2>3. [since |-> now, installed |-> installed, members |-> members,
         grants |-> Current(hist[h]).grants] \in HouseholdState
    BY <2>2 DEF HouseholdState
  <2>4. [hid |-> h, userId |-> AnyUser] \in Scope
    BY DEF Scope
  <2>5. QED
    BY <2>1, <2>3, <2>4, ChangeType
<1>2. ASSUME NEW h \in Households, NEW u \in Users, ChangeMember(h, u) PROVE TypeOK'
  <2>1. PICK members \in SUBSET Users, grants \in [Users -> SUBSET Apps] :
          ChangeHousehold(h, [since |-> now, installed |-> Current(hist[h]).installed,
                              members |-> members, grants |-> grants],
                          [hid |-> h, userId |-> u])
    BY <1>2 DEF ChangeMember
  <2>2. Current(hist[h]) \in HouseholdState /\ now \in Nat
    BY DEF TypeOK, Current
  <2>3. [since |-> now, installed |-> Current(hist[h]).installed,
         members |-> members, grants |-> grants] \in HouseholdState
    BY <2>2 DEF HouseholdState
  <2>4. [hid |-> h, userId |-> u] \in Scope
    BY DEF Scope
  <2>5. QED
    BY <2>1, <2>3, <2>4, ChangeType
<1>3. ASSUME NEW s \in Sessions, RevokeSession(s) PROVE TypeOK'
  BY <1>3 DEF TypeOK, RevokeSession
<1>4. ASSUME NEW m \in webhooks, LoseWebhook(m) PROVE TypeOK'
  BY <1>4 DEF TypeOK, LoseWebhook
<1>5. ASSUME NEW r \in Requests, NEW s \in Sessions, NEW h \in Households,
             NEW app \in Apps \cup {NoApp}, Start(r, s, h, app)
      PROVE  TypeOK'
  <2>1. NoView(s, h) \in View /\ Version(hist[h]) \in Nat
    BY IntrospectionType DEF Version
  <2>2. QED
    BY <2>1, <1>5 DEF TypeOK, Start, Request, Phases, Replies
<1>6. ASSUME NEW r \in Requests, LoadCached(r) PROVE TypeOK'
  <2>1. req[r] \in Request /\ entries[CacheKey(r)].value \in View
    BY <1>6 DEF TypeOK, LoadCached, Hit, Entry
  <2>2. req' \in [Requests -> Request]
    BY <2>1, <1>6 DEF TypeOK, LoadCached, Request, Phases
  <2>3. /\ DOMAIN entries' \subseteq Sessions \X Households
        /\ \A k \in DOMAIN entries' : entries'[k] \in Entry
    BY <1>6 DEF TypeOK, LoadCached, AfterGet
  <2>4. QED
    BY <2>2, <2>3, <1>6 DEF TypeOK, LoadCached
<1>7. ASSUME NEW r \in Requests, LoadIntrospect(r) PROVE TypeOK'
  <2>1. req' \in [Requests -> Request]
    <3>1. req[r] \in Request /\ now \in Nat
      BY DEF TypeOK
    <3>2. QED
      BY <3>1, <1>7 DEF TypeOK, LoadIntrospect, Request, Phases
  <2>2. /\ DOMAIN entries' \subseteq Sessions \X Households
        /\ \A k \in DOMAIN entries' : entries'[k] \in Entry
    BY <1>7, RemovalType DEF LoadIntrospect, AfterGet
  <2>3. QED
    BY <2>1, <2>2, <1>7 DEF TypeOK, LoadIntrospect
<1>8. ASSUME NEW r \in Requests, IdentityIntrospects(r) PROVE TypeOK'
  <2>1. /\ req[r] \in Request
        /\ IntrospectionReply(r) \in Replies
        /\ Version(hist[req[r].hid]) \in Nat
    BY IntrospectionType DEF TypeOK, Request
  <2>2. QED
    BY <2>1, <1>8 DEF TypeOK, IdentityIntrospects, Request, View, Phases
<1>9. ASSUME NEW r \in Requests, StoreView(r) PROVE TypeOK'
  <2>1. req[r] \in Request /\ now \in Nat /\ now + Ttl \in Nat
    BY CacheAssumption DEF TypeOK
  <2>2. req' \in [Requests -> Request]
    BY <2>1, <1>9 DEF TypeOK, StoreView, Request, Phases
  <2>3. [value |-> req[r].view, expiresAt |-> now + Ttl] \in Entry
    BY <2>1 DEF Entry, Request
  <2>4. CacheKey(r) \in Sessions \X Households
    BY IntrospectionType
  <2>5. /\ DOMAIN entries' \subseteq Sessions \X Households
        /\ \A k \in DOMAIN entries' : entries'[k] \in Entry
    <3> DEFINE f == AfterSet(entries, CacheKey(r), req[r].view, now)
    <3>1. entries' = f
      BY <1>9 DEF StoreView
    <3>2. /\ DOMAIN f \subseteq DOMAIN entries \cup {CacheKey(r)}
          /\ f[CacheKey(r)] = [value |-> req[r].view, expiresAt |-> now + Ttl]
          /\ \A k \in DOMAIN f : k # CacheKey(r) => k \in DOMAIN entries /\ f[k] = entries[k]
      BY AfterSetEntries
    <3> HIDE DEF f
    <3>3. QED
      BY <2>3, <2>4, <3>1, <3>2 DEF TypeOK
  <2>6. QED
    BY <2>2, <2>5, <1>9 DEF TypeOK, StoreView
<1>10. ASSUME NEW r \in Requests, TokenRefused(r) PROVE TypeOK'
  <2> DEFINE scope == [hid |-> req[r].hid, userId |-> UserAt(r)]
  <2>1. req[r] \in Request /\ UserAt(r) \in Users
    BY IntrospectionType DEF TypeOK
  <2>7. scope \in Scope /\ req[r].view.ver + 1 \in Nat
    BY <2>1 DEF Request, Scope, View
  <2>2. known' \in [Users -> [Households -> Nat]]
    BY <2>7, <1>10, LearnType DEF TokenRefused
  <2>3. MarkOvertaken(req, scope) \in [Requests -> Request]
    BY MarkType
  <2>4. req' \in [Requests -> Request]
    BY <2>3, <1>10 DEF TokenRefused, Request, Phases, Replies
  <2>5. /\ DOMAIN entries' \subseteq Sessions \X Households
        /\ \A k \in DOMAIN entries' : entries'[k] \in Entry
    BY <1>10, RemovalType DEF TokenRefused, AfterInvalidate
  <2>6. QED
    BY <2>2, <2>4, <2>5, <1>10 DEF TypeOK, TokenRefused
<1>11. ASSUME NEW m \in webhooks, NEW again \in BOOLEAN, DeliverWebhook(m, again)
       PROVE  TypeOK'
  <2>1. m.scope \in Scope /\ m.ver \in Nat
    BY DEF TypeOK, Webhook
  <2>2. known' \in [Users -> [Households -> Nat]]
    BY <2>1, <1>11, LearnType DEF DeliverWebhook
  <2>3. req' \in [Requests -> Request]
    BY <1>11, MarkType DEF DeliverWebhook
  <2>4. /\ DOMAIN entries' \subseteq Sessions \X Households
        /\ \A k \in DOMAIN entries' : entries'[k] \in Entry
    BY <1>11, RemovalType DEF DeliverWebhook, AfterInvalidate
  <2>5. webhooks' \subseteq Webhook
    BY <1>11 DEF TypeOK, DeliverWebhook
  <2>6. QED
    BY <2>2, <2>3, <2>4, <2>5, <1>11 DEF TypeOK, DeliverWebhook
<1>12. CASE Restart
  BY <1>12, FreeSlotType DEF TypeOK, Restart, EmptyCache
<1>13. CASE Tick
  BY <1>13 DEF TypeOK, Tick
<1>14. ASSUME NEW r \in Requests, IntrospectionArrives(r) PROVE TypeOK'
  <2>1. req[r] \in Request
    BY DEF TypeOK
  <2>2. QED
    BY <2>1, <1>14 DEF TypeOK, IntrospectionArrives, Request, Phases, Replies
<1>15. ASSUME NEW r \in Requests, IntrospectionRefused(r) PROVE TypeOK'
  <2>1. req[r] \in Request
    BY DEF TypeOK
  <2>2. QED
    BY <2>1, <1>15 DEF TypeOK, IntrospectionRefused, Request, Phases, Replies, Goto
<1>16. ASSUME NEW r \in Requests, SessionEnded(r) PROVE TypeOK'
  <2>1. req[r] \in Request
    BY DEF TypeOK
  <2>2. QED
    BY <2>1, <1>16 DEF TypeOK, SessionEnded, Request, Phases, Replies, Done
<1>17. ASSUME NEW r \in Requests, StoreFails(r) PROVE TypeOK'
  <2>1. req[r] \in Request
    BY DEF TypeOK
  <2>2. QED
    BY <2>1, <1>17 DEF TypeOK, StoreFails, Request, Phases, Replies, Done
<1>18. ASSUME NEW r \in Requests, UpstreamFails(r) PROVE TypeOK'
  <2>1. req[r] \in Request
    BY DEF TypeOK
  <2>2. PICK reply \in {"unavailable", "error"} :
          req' = [req EXCEPT ![r].pc = "done", ![r].reply = reply, ![r].at = 0]
    BY <1>18 DEF UpstreamFails, Done
  <2>3. req' \in [Requests -> Request]
    BY <2>1, <2>2 DEF TypeOK, Request, Phases, Replies
  <2>4. QED
    BY <2>3, <1>18 DEF TypeOK, UpstreamFails
<1>19. ASSUME NEW r \in Requests, AnswerAccess(r) PROVE TypeOK'
  <2>1. req[r] \in Request
    BY DEF TypeOK
  <2>2. QED
    BY <2>1, <1>19 DEF TypeOK, AnswerAccess, Request, Phases, Replies, Done
<1>20. ASSUME NEW r \in Requests, GatewayDecides(r) PROVE TypeOK'
  <2>1. req[r] \in Request
    BY DEF TypeOK
  <2>2. QED
    <3> DEFINE decision == DecideGatewayAccess(req[r].view, req[r].app)
    <3>1. decision \in {"allow", "not_installed", "no_grant"}
      BY DEF DecideGatewayAccess
    <3>2. \/ req' = [req EXCEPT ![r].pc = "routing"]
          \/ req' = [req EXCEPT ![r].pc = "done", ![r].reply = decision, ![r].at = 0]
             /\ decision \in Replies
      BY <1>20, <3>1 DEF GatewayDecides, Goto, Done, Replies
    <3> HIDE DEF decision
    <3>3. req' \in [Requests -> Request]
      <4>1. CASE req' = [req EXCEPT ![r].pc = "routing"]
        BY <2>1, <4>1 DEF TypeOK, Request, Phases
      <4>2. CASE /\ req' = [req EXCEPT ![r].pc = "done", ![r].reply = decision, ![r].at = 0]
                 /\ decision \in Replies
        BY <2>1, <4>2 DEF TypeOK, Request, Phases
      <4>3. QED
        BY <3>2, <4>1, <4>2
    <3>4. QED
      BY <3>3, <1>20 DEF TypeOK, GatewayDecides
<1>21. ASSUME NEW r \in Requests, NoBackend(r) PROVE TypeOK'
  <2>1. req[r] \in Request
    BY DEF TypeOK
  <2>2. QED
    BY <2>1, <1>21 DEF TypeOK, NoBackend, Request, Phases, Replies, Done
<1>22. ASSUME NEW r \in Requests, SendToken(r) PROVE TypeOK'
  <2>1. req[r] \in Request
    BY DEF TypeOK
  <2>2. QED
    BY <2>1, <1>22 DEF TypeOK, SendToken, Request, Phases, Replies
<1>23. ASSUME NEW r \in Requests, IdentityIssuesToken(r) PROVE TypeOK'
  <2>1. req[r] \in Request
    BY DEF TypeOK
  <2>2. QED
    BY <2>1, <1>23, IntrospectionType DEF TypeOK, IdentityIssuesToken, Request, Phases, Replies
<1>24. ASSUME NEW r \in Requests, Forward(r) PROVE TypeOK'
  <2>1. req[r] \in Request
    BY DEF TypeOK
  <2>2. QED
    BY <2>1, <1>24 DEF TypeOK, Forward, Request, Phases, Replies, Done
<1>25. ASSUME NEW r \in Requests, Finish(r) PROVE TypeOK'
  <2>1. req[r] \in Request
    BY DEF TypeOK
  <2>2. QED
    BY <2>1, <1>25, FreeSlotType DEF TypeOK, Finish, Request, Phases, Replies
<1>26. CASE UNCHANGED vars
  BY <1>26 DEF TypeOK, vars
<1>27. QED
  BY <1>1, <1>2, <1>3, <1>4, <1>5, <1>6, <1>7, <1>8, <1>9, <1>10, <1>11, <1>12, <1>13, <1>14, <1>15, <1>16, <1>17, <1>18, <1>19, <1>20, <1>21, <1>22, <1>23, <1>24, <1>25, <1>26
     DEF Next, IdentityStep, RequestStep

(***************************************************************************)
(* TypeOK holds in every state the BFF reaches.                            *)
(***************************************************************************)
THEOREM TypeCorrect == Spec => []TypeOK
  BY InitType, TypeStep, PTL DEF Spec

-----------------------------------------------------------------------------
(* The inductive invariant.                                                *)

RequestInv(r) == TimingInv(r) /\ ViewInv(r) /\ GatewayInv(r)

LEMMA MaxAgeType == MaxAge \in Nat /\ MaxAge = UpstreamTimeout + StoreDelay + Ttl
  BY BffAssumption, CacheAssumption DEF MaxAge

\* A view that is within a bound is within every weaker one.
LEMMA ViewEarlier ==
  ASSUME TypeOK, NEW view \in View, NEW s \in Sessions,
         NEW t \in Int, NEW weaker \in Int, weaker <= t,
         ViewWithin(view, s, t)
  PROVE  ViewWithin(view, s, weaker)
<1>1. /\ hist[view.hid] \in Seq(HouseholdState)
      /\ endedAt[s] \in Nat \cup {Never}
  BY DEF TypeOK, View
<1>2. CurrentSince(hist[view.hid], view.ver, weaker)
  <2>1. CASE view.ver = Len(hist[view.hid])
    BY <2>1 DEF CurrentSince
  <2>2. CASE /\ view.ver # Len(hist[view.hid])
             /\ hist[view.hid][view.ver + 1].since >= t
    <3>1. view.ver + 1 \in 1 .. Len(hist[view.hid])
      BY <1>1, <2>2 DEF ViewWithin, Version, View
    <3>2. hist[view.hid][view.ver + 1].since \in Nat
      <4>1. hist[view.hid][view.ver + 1] \in HouseholdState
        BY <1>1, <3>1
      <4>2. QED
        BY <4>1 DEF HouseholdState
    <3>3. QED
      BY <2>2, <3>2 DEF CurrentSince
  <2>3. QED
    BY <2>1, <2>2 DEF ViewWithin, CurrentSince
<1>3. endedAt[s] = Never \/ endedAt[s] >= weaker
  BY <1>1 DEF ViewWithin
<1>4. QED
  BY <1>2, <1>3 DEF ViewWithin

\* identity-service may move on: what was true until t is still only that.
LEMMA ViewKept ==
  ASSUME TypeOK, NEW view \in View, NEW s \in Sessions, NEW t \in Int, t <= now,
         ViewWithin(view, s, t),
         \A h \in Households :
           \/ hist'[h] = hist[h]
           \/ \E next \in HouseholdState : /\ next.since = now
                                           /\ hist'[h] = Append(hist[h], next),
         endedAt'[s] = endedAt[s] \/ endedAt'[s] = now
  PROVE  ViewWithin(view, s, t)'
<1> DEFINE h == hist[view.hid]
<1>1. h \in Seq(HouseholdState) /\ now \in Nat /\ view.hid \in Households
  BY DEF TypeOK, View
<1>2. view.ver \in 1 .. Len(h)
  BY DEF ViewWithin, Version
<1>3. CASE hist'[view.hid] = h
  BY <1>3 DEF ViewWithin, CurrentSince, Version
<1>4. CASE hist'[view.hid] # h
  <2>1. PICK next \in HouseholdState : /\ next.since = now
                                       /\ hist'[view.hid] = Append(h, next)
    BY <1>1, <1>4
  <2>2. /\ Len(hist'[view.hid]) = Len(h) + 1
        /\ \A v \in 1 .. Len(h) : hist'[view.hid][v] = h[v]
        /\ hist'[view.hid][Len(h) + 1] = next
    BY <1>1, <2>1
  <2>3. CurrentSince(hist'[view.hid], view.ver, t)
    <3>1. CASE view.ver = Len(h)
      BY <2>1, <2>2, <3>1 DEF CurrentSince
    <3>2. CASE view.ver # Len(h)
      BY <1>1, <1>2, <2>2, <3>2 DEF CurrentSince, ViewWithin
    <3>3. QED
      BY <3>1, <3>2
  <2>4. QED
    BY <1>1, <1>2, <2>2, <2>3 DEF ViewWithin, Version
<1>5. QED
  BY <1>3, <1>4

LEMMA SameRequest ==
  ASSUME NEW r \in Requests, req'[r] = req[r], RequestInv(r),
         UNCHANGED <<now, hist, endedAt, known>>
  PROVE  RequestInv(r)'
  BY DEF RequestInv, TimingInv, ViewInv, GatewayInv, Decided, UserAt,
         ViewWithin, NotOutdated

LEMMA SameEntry ==
  ASSUME NEW k \in DOMAIN entries, entries'[k] = entries[k], EntryInv(k),
         UNCHANGED <<now, hist, endedAt, known>>
  PROVE  EntryInv(k)'
  BY DEF EntryInv, ViewWithin, NotOutdated

\* A step of request r alone: the others and the entries it leaves keep
\* their part of the invariant.
LEMMA LocalStep ==
  ASSUME Inv, NEW r \in Requests, RequestInv(r)',
         \A q \in Requests \ {r} : req'[q] = req[q],
         \A k \in DOMAIN entries' : \/ k \in DOMAIN entries /\ entries'[k] = entries[k]
                                    \/ EntryInv(k)',
         UNCHANGED <<now, hist, endedAt, webhooks, known>>
  PROVE  Inv'
<1>1. \A q \in Requests : RequestInv(q)'
  BY SameRequest DEF Inv, RequestInv
<1>2. \A k \in DOMAIN entries' : EntryInv(k)'
  BY SameEntry DEF Inv
<1>3. ToldInv'
  BY DEF Inv, ToldInv
<1>4. QED
  BY <1>1, <1>2, <1>3 DEF Inv, RequestInv

LEMMA InitInv == Init => Inv
<1> SUFFICES ASSUME Init PROVE Inv
  OBVIOUS
<1>1. TypeOK
  BY InitType
<1>2. FreeSlot \in Request /\ FreeSlot.pc = "idle" /\ FreeSlot.reply = "none"
  BY FreeSlotType DEF FreeSlot
<1>3. FreeSlot.view.hid = FreeSlot.hid /\ FreeSlot.view.userId = UserOf[FreeSlot.session]
  BY DEF FreeSlot, NoView
<1>4. ASSUME NEW r \in Requests PROVE RequestInv(r)
  <2>1. req[r] = FreeSlot
    BY DEF Init
  <2>2. QED
    BY <1>2, <1>3, <2>1 DEF RequestInv, TimingInv, ViewInv, GatewayInv, Decided, UserAt
<1>5. DOMAIN entries = {} /\ webhooks = {}
  BY DEF Init, EmptyCache
<1>6. \A u \in Users, h \in Households : known[u][h] = 0 /\ Len(hist[h]) \in Nat
  BY <1>1 DEF Init, TypeOK
<1>7. QED
  BY <1>4, <1>5, <1>6 DEF Inv, RequestInv, ToldInv, Version

\* identity-service changes something, or ends a session.
LEMMA IdentityInv ==
  ASSUME TypeOK, Inv, UNCHANGED <<now, entries, known, req>>,
         \A h \in Households :
           \/ hist'[h] = hist[h]
           \/ \E next \in HouseholdState : /\ next.since = now
                                           /\ hist'[h] = Append(hist[h], next),
         \A s \in Sessions : endedAt'[s] = endedAt[s] \/ endedAt'[s] = now,
         \A m \in webhooks' : m \in webhooks \/ m.ver <= Version(hist'[m.scope.hid])
  PROVE  Inv'
<1>1. \A h \in Households : hist[h] \in Seq(HouseholdState)
  BY DEF TypeOK
<1>2. \A h \in Households : /\ Len(hist[h]) \in Nat
                            /\ Len(hist'[h]) \in Nat
                            /\ Len(hist'[h]) >= Len(hist[h])
                            /\ \A v \in 1 .. Len(hist[h]) : hist'[h][v] = hist[h][v]
  <2> SUFFICES ASSUME NEW h \in Households
               PROVE  /\ Len(hist[h]) \in Nat
                      /\ Len(hist'[h]) \in Nat
                      /\ Len(hist'[h]) >= Len(hist[h])
                      /\ \A v \in 1 .. Len(hist[h]) : hist'[h][v] = hist[h][v]
    OBVIOUS
  <2>1. CASE hist'[h] = hist[h]
    BY <1>1, <2>1
  <2>2. CASE hist'[h] # hist[h]
    <3>1. PICK next \in HouseholdState : hist'[h] = Append(hist[h], next)
      BY <2>2
    <3>2. QED
      BY <1>1, <3>1
  <2>3. QED
    BY <2>1, <2>2
<1>3. \A view \in View, s \in Sessions, t \in Int :
        t <= now /\ ViewWithin(view, s, t) => ViewWithin(view, s, t)'
  BY ViewKept
<1>4. ASSUME NEW r \in Requests PROVE RequestInv(r)'
  <2>1. /\ req[r] \in Request /\ req'[r] = req[r] /\ now' = now /\ now \in Nat
        /\ RequestInv(r)
    BY DEF TypeOK, Inv, RequestInv
  <2>2. /\ req[r].view \in View /\ req[r].session \in Sessions
        /\ req[r].at \in Nat /\ req[r].viewAt \in Nat /\ req[r].hid \in Households
        /\ req[r].start \in Nat
    BY <2>1 DEF Request
  <2>3. TimingInv(r)' /\ (Decided(r)' <=> Decided(r))
    BY <2>1 DEF RequestInv, TimingInv, Decided
  <2>4. /\ req[r].at - UpstreamTimeout \in Int /\ req[r].at - UpstreamTimeout <= req[r].at
        /\ req[r].viewAt - MaxAge \in Int /\ req[r].viewAt - MaxAge <= req[r].viewAt
    BY <2>2, MaxAgeType, BffAssumption
  <2>5. NotOutdated(req[r].view) => NotOutdated(req[r].view)'
    BY <2>1 DEF NotOutdated
  <2>6. req[r].pc = "answered" /\ req[r].reply = "ok" =>
          ViewWithin(req[r].view, req[r].session, req[r].at)'
    BY <1>3, <2>1, <2>2 DEF RequestInv, ViewInv, TimingInv
  <2>7. req[r].pc = "persisting" =>
          ViewWithin(req[r].view, req[r].session, req[r].at - UpstreamTimeout)'
    BY <1>3, <2>1, <2>2, <2>4 DEF RequestInv, ViewInv, TimingInv
  <2>8. Decided(r) => ViewWithin(req[r].view, req[r].session, req[r].viewAt - MaxAge)'
    BY <1>3, <2>1, <2>2, <2>4 DEF RequestInv, ViewInv, TimingInv
  <2>9. ViewInv(r)'
    BY <2>1, <2>3, <2>5, <2>6, <2>7, <2>8 DEF RequestInv, ViewInv, UserAt
  <2>10. Decided(r) => /\ req[r].view.ver \in 1 .. Len(hist[req[r].hid])
                       /\ hist'[req[r].hid][req[r].view.ver] = hist[req[r].hid][req[r].view.ver]
    BY <1>2, <2>1, <2>2 DEF RequestInv, ViewInv, ViewWithin, Version
  <2>11. GatewayInv(r)'
    <3> DEFINE h == hist[req[r].hid]
               new == hist'[req[r].hid]
    <3>1. /\ Len(h) \in Nat /\ Len(new) \in Nat /\ Len(h) <= Len(new)
          /\ \A v \in 1 .. Len(h) : new[v] = h[v]
      BY <1>2, <2>2
    <3>2. GatewayInv(r)
      BY <2>1 DEF RequestInv
    <3>3. req[r].pc # "idle" => req[r].start \in 1 .. Len(new)
      BY <2>2, <3>1, <3>2 DEF GatewayInv, Version
    <3>4. req[r].pc \in {"routing", "tokenSent", "tokenAnswered"} =>
            Allows(new[req[r].view.ver], UserAt(r), req[r].app)
      BY <2>10, <3>2 DEF GatewayInv, Decided
    <3>5. req[r].pc = "tokenAnswered" /\ req[r].reply = "refused" =>
            req[r].view.ver < Len(new)
      BY <2>2, <3>1, <3>2 DEF GatewayInv, Version, View
    <3>6. \/ req[r].pc = "tokenAnswered" /\ req[r].reply = "ok"
          \/ req[r].pc = "done" /\ req[r].reply = "forwarded"
          => \E v \in req[r].start .. Len(new) : Allows(new[v], UserAt(r), req[r].app)
      <4> SUFFICES ASSUME \/ req[r].pc = "tokenAnswered" /\ req[r].reply = "ok"
                          \/ req[r].pc = "done" /\ req[r].reply = "forwarded"
                   PROVE  \E v \in req[r].start .. Len(new) :
                            Allows(new[v], UserAt(r), req[r].app)
        OBVIOUS
      <4>1. PICK v \in req[r].start .. Len(h) : Allows(h[v], UserAt(r), req[r].app)
        BY <3>2 DEF GatewayInv, Version
      <4>2. req[r].start \in 1 .. Len(h)
        BY <3>2 DEF GatewayInv, Version
      <4>3. v \in req[r].start .. Len(new) /\ new[v] = h[v]
        BY <2>2, <3>1, <4>1, <4>2
      <4>4. QED
        BY <4>1, <4>3
    <3>7. req[r].pc = "done" /\ req[r].reply \in {"not_installed", "no_grant"} =>
            ~Allows(new[req[r].view.ver], UserAt(r), req[r].app)
      BY <2>10, <3>2 DEF GatewayInv, Decided
    <3>8. QED
      BY <2>1, <3>3, <3>4, <3>5, <3>6, <3>7 DEF GatewayInv, Version, UserAt
  <2>12. QED
    BY <2>3, <2>9, <2>11 DEF RequestInv
<1>5. ASSUME NEW k \in DOMAIN entries PROVE EntryInv(k)'
  <2> DEFINE e == entries[k]
  <2>1. /\ e \in Entry /\ k \in Sessions \X Households /\ now \in Nat
        /\ now' = now /\ entries'[k] = e /\ EntryInv(k)
    BY DEF TypeOK, Inv
  <2>2. e.value \in View /\ k[1] \in Sessions /\ e.expiresAt \in Nat
    BY <2>1 DEF Entry
  <2>3. e.expiresAt - MaxAge \in Int /\ e.expiresAt - MaxAge <= now
    BY <2>1, <2>2, MaxAgeType, BffAssumption, CacheAssumption DEF EntryInv
  <2>4. ViewWithin(e.value, k[1], e.expiresAt - MaxAge)'
    BY <1>3, <2>1, <2>2, <2>3 DEF EntryInv
  <2>5. NotOutdated(e.value)'
    BY <2>1 DEF EntryInv, NotOutdated
  <2>6. QED
    BY <2>1, <2>4, <2>5 DEF EntryInv
<1>6. ToldInv'
  <2>1. \A u \in Users, h \in Households : known[u][h] \in Nat
    BY DEF TypeOK
  <2>2. \A m \in webhooks : m.ver \in Nat /\ m.scope.hid \in Households
    BY DEF TypeOK, Webhook, Scope
  <2>3. QED
    BY <1>2, <2>1, <2>2 DEF Inv, ToldInv, Version
<1>7. QED
  BY <1>4, <1>5, <1>6 DEF Inv, RequestInv

(***************************************************************************)
(* Steps of one request.                                                   *)
(***************************************************************************)
LEMMA RequestFacts ==
  ASSUME TypeOK, Inv, NEW r \in Requests
  PROVE  /\ req[r] \in Request /\ RequestInv(r) /\ now \in Nat
         /\ req[r].view \in View /\ req[r].session \in Sessions
         /\ req[r].hid \in Households /\ req[r].at \in Nat /\ req[r].viewAt \in Nat
         /\ hist[req[r].hid] \in Seq(HouseholdState)
         /\ Version(hist[req[r].hid]) \in Nat \ {0}
<1>1. req[r] \in Request /\ RequestInv(r) /\ now \in Nat
  BY DEF TypeOK, Inv, RequestInv
<1>2. QED
  BY <1>1 DEF Request, TypeOK, Version

LEMMA StartInv ==
  ASSUME TypeOK, Inv, NEW r \in Requests, NEW s \in Sessions, NEW h \in Households,
         NEW app \in Apps \cup {NoApp}, Start(r, s, h, app)
  PROVE  Inv'
<1>1. Version(hist[h]) \in Nat \ {0}
  BY DEF TypeOK, Version
<1>2. req'[r] = [pc |-> "authed", session |-> s, hid |-> h, app |-> app,
                 start |-> Version(hist[h]), at |-> 0, view |-> NoView(s, h),
                 viewAt |-> 0, reply |-> "none"]
  BY DEF Start, TypeOK
<1>3. RequestInv(r)'
  BY <1>1, <1>2
     DEF Start, RequestInv, TimingInv, ViewInv, GatewayInv, Decided, UserAt, NoView
<1>4. QED
  BY <1>3, LocalStep DEF Start, TypeOK

LEMMA LoadCachedInv ==
  ASSUME TypeOK, Inv, NEW r \in Requests, LoadCached(r)
  PROVE  Inv'
<1> DEFINE e == entries[CacheKey(r)]
<1>1. /\ CacheKey(r) \in DOMAIN entries /\ e.expiresAt > now
      /\ entries' = entries
  BY DEF LoadCached, Hit, Expired, AfterGet, TypeOK, Entry
<1>2. e \in Entry /\ e.value \in View /\ e.expiresAt \in Nat /\ EntryInv(CacheKey(r))
  BY <1>1 DEF TypeOK, Entry, Inv
<1>3. CacheKey(r)[1] = req[r].session /\ CacheKey(r)[2] = req[r].hid
  BY DEF CacheKey, KeyOf
<1>4. req'[r] = [req[r] EXCEPT !.pc = "decide", !.viewAt = now, !.view = e.value]
  BY DEF LoadCached, TypeOK
<1>5. /\ e.expiresAt - MaxAge \in Int /\ now - MaxAge \in Int
      /\ now - MaxAge <= e.expiresAt - MaxAge
  BY <1>1, <1>2, RequestFacts, MaxAgeType
<1>6. ViewWithin(e.value, req[r].session, now - MaxAge)
  BY <1>2, <1>3, <1>5, RequestFacts, ViewEarlier DEF EntryInv
<1>8. RequestInv(r)'
  <2> DEFINE value == e.value
  <2> HIDE DEF value
  <2>0. req'[r] = [req[r] EXCEPT !.pc = "decide", !.viewAt = now, !.view = value]
    BY <1>4 DEF value
  <2>1. /\ req'[r].pc = "decide" /\ req'[r].viewAt = now /\ req'[r].view = value
        /\ req'[r].session = req[r].session /\ req'[r].hid = req[r].hid
        /\ req'[r].start = req[r].start
    BY <2>0, RequestFacts DEF Request
  <2>6. /\ now' = now /\ hist' = hist /\ endedAt' = endedAt
        /\ value.hid = req[r].hid /\ value.userId = UserAt(r)
        /\ ViewWithin(value, req[r].session, now - MaxAge)
    BY <1>2, <1>3, <1>6 DEF LoadCached, EntryInv, UserAt, value
  <2>2. TimingInv(r)'
    BY <2>1, <2>6, RequestFacts DEF TimingInv, Decided
  <2>3. ViewInv(r)'
    BY <2>1, <2>6 DEF ViewInv, ViewWithin, Decided, UserAt, MaxAge
  <2>4. GatewayInv(r)'
    BY <2>1, RequestFacts DEF GatewayInv, RequestInv, LoadCached
  <2>5. QED
    BY <2>2, <2>3, <2>4 DEF RequestInv
<1>9. QED
  BY <1>1, <1>8, LocalStep DEF LoadCached, TypeOK

LEMMA LoadIntrospectInv ==
  ASSUME TypeOK, Inv, NEW r \in Requests, LoadIntrospect(r)
  PROVE  Inv'
<1>1. /\ req'[r].pc = "introspecting" /\ req'[r].at = now
      /\ req'[r].view = req[r].view /\ req'[r].session = req[r].session
      /\ req'[r].hid = req[r].hid /\ req'[r].start = req[r].start
  BY RequestFacts DEF LoadIntrospect, TypeOK, Request
<1>2. RequestInv(r)'
  BY <1>1, RequestFacts, BffAssumption
     DEF RequestInv, TimingInv, ViewInv, GatewayInv, Decided, UserAt, LoadIntrospect
<1>3. \A k \in DOMAIN entries' : k \in DOMAIN entries /\ entries'[k] = entries[k]
  BY DEF LoadIntrospect, AfterGet, Without
<1>4. QED
  BY <1>2, <1>3, LocalStep DEF LoadIntrospect, TypeOK

LEMMA IdentityIntrospectsInv ==
  ASSUME TypeOK, Inv, NEW r \in Requests, IdentityIntrospects(r)
  PROVE  Inv'
<1> DEFINE ver == Version(hist[req[r].hid])
<1>1. req'[r] = [req[r] EXCEPT !.pc = "answered", !.reply = IntrospectionReply(r),
                               !.view = [req[r].view EXCEPT !.ver = ver]]
  BY RequestFacts DEF IdentityIntrospects, TypeOK
<1>2. /\ req'[r].pc = "answered" /\ req'[r].at = req[r].at
      /\ req'[r].reply = IntrospectionReply(r)
      /\ req'[r].view = [req[r].view EXCEPT !.ver = ver]
      /\ req'[r].session = req[r].session /\ req'[r].hid = req[r].hid
      /\ req'[r].start = req[r].start
  BY <1>1, RequestFacts DEF Request
<1>3. /\ req'[r].view.ver = ver /\ req'[r].view.hid = req[r].hid
      /\ req'[r].view.userId = UserAt(r)
  <2>1. req[r].view.hid = req[r].hid /\ req[r].view.userId = UserAt(r)
    BY RequestFacts DEF RequestInv, ViewInv
  <2>2. QED
    BY <1>2, <2>1, RequestFacts DEF View
<1>4. UNCHANGED <<now, hist, endedAt, known>>
  BY DEF IdentityIntrospects
<1>5. req'[r].reply = "ok" => ViewWithin(req[r].view, req[r].session, req[r].at)'
  BY <1>2, <1>3, <1>4, RequestFacts
     DEF IntrospectionReply, ViewWithin, CurrentSince, Version, Current
<1>6. NotOutdated(req[r].view)'
  <2>1. UserAt(r) \in Users
    BY IntrospectionType
  <2>2. known[UserAt(r)][req[r].hid] \in Nat /\ known[UserAt(r)][req[r].hid] <= ver
    BY <2>1, RequestFacts DEF Inv, ToldInv, TypeOK
  <2> HIDE DEF ver
  <2>3. ver \in Nat
    BY RequestFacts DEF ver
  <2>4. QED
    BY <1>3, <1>4, <2>2, <2>3 DEF NotOutdated
<1>7. RequestInv(r)'
  <2>1. TimingInv(r)'
    BY <1>2, <1>4, RequestFacts DEF RequestInv, TimingInv, Decided, IdentityIntrospects
  <2>2. ViewInv(r)'
    BY <1>2, <1>3, <1>5, <1>6 DEF ViewInv, Decided, UserAt
  <2>3. GatewayInv(r)'
    BY <1>2, <1>4, RequestFacts DEF RequestInv, GatewayInv, IdentityIntrospects
  <2>4. QED
    BY <2>1, <2>2, <2>3 DEF RequestInv
<1>8. QED
  BY <1>7, LocalStep DEF IdentityIntrospects, TypeOK

LEMMA IntrospectionArrivesInv ==
  ASSUME TypeOK, Inv, NEW r \in Requests, IntrospectionArrives(r)
  PROVE  Inv'
<1>1. /\ req'[r].pc = "persisting" /\ req'[r].at = now
      /\ req'[r].view = req[r].view /\ req'[r].session = req[r].session
      /\ req'[r].hid = req[r].hid /\ req'[r].start = req[r].start
  BY RequestFacts DEF IntrospectionArrives, TypeOK, Request
<1>2. /\ now - UpstreamTimeout \in Int
      /\ now - UpstreamTimeout <= req[r].at
      /\ ViewWithin(req[r].view, req[r].session, req[r].at)
      /\ NotOutdated(req[r].view)
  BY RequestFacts, BffAssumption DEF RequestInv, TimingInv, ViewInv, IntrospectionArrives
<1>3. ViewWithin(req[r].view, req[r].session, now - UpstreamTimeout)
  BY <1>2, RequestFacts, ViewEarlier
<1>4. RequestInv(r)'
  <2>1. TimingInv(r)'
    BY <1>1, RequestFacts, BffAssumption DEF TimingInv, Decided, IntrospectionArrives
  <2>2. ViewInv(r)'
    BY <1>1, <1>2, <1>3, RequestFacts
       DEF RequestInv, ViewInv, Decided, UserAt, ViewWithin, NotOutdated, IntrospectionArrives
  <2>3. GatewayInv(r)'
    BY <1>1, RequestFacts DEF RequestInv, GatewayInv, IntrospectionArrives
  <2>4. QED
    BY <2>1, <2>2, <2>3 DEF RequestInv
<1>5. QED
  BY <1>4, LocalStep DEF IntrospectionArrives, TypeOK

LEMMA StoreViewInv ==
  ASSUME TypeOK, Inv, NEW r \in Requests, StoreView(r)
  PROVE  Inv'
<1> DEFINE key == CacheKey(r)
           view == req[r].view
<1>1. /\ req'[r].pc = "decide" /\ req'[r].viewAt = now /\ req'[r].view = view
      /\ req'[r].session = req[r].session /\ req'[r].hid = req[r].hid
      /\ req'[r].start = req[r].start
  BY RequestFacts DEF StoreView, TypeOK, Request
<1>2. /\ ViewWithin(view, req[r].session, req[r].at - UpstreamTimeout)
      /\ NotOutdated(view) /\ now <= req[r].at + StoreDelay
      /\ view.hid = req[r].hid /\ view.userId = UserAt(r)
  BY RequestFacts DEF RequestInv, TimingInv, ViewInv, StoreView
<1>3. /\ req[r].at - UpstreamTimeout \in Int
      /\ (now + Ttl) - MaxAge \in Int
      /\ (now + Ttl) - MaxAge <= req[r].at - UpstreamTimeout
      /\ now - MaxAge \in Int
      /\ now - MaxAge <= req[r].at - UpstreamTimeout
  <2>1. /\ now \in Nat /\ req[r].at \in Nat /\ Ttl \in Nat
        /\ UpstreamTimeout \in Nat /\ StoreDelay \in Nat
    BY RequestFacts, BffAssumption, CacheAssumption
  <2>2. QED
    BY <1>2, <2>1, MaxAgeType
<1>4. /\ ViewWithin(view, req[r].session, (now + Ttl) - MaxAge)
      /\ ViewWithin(view, req[r].session, now - MaxAge)
  BY <1>2, <1>3, RequestFacts, ViewEarlier
<1>5. RequestInv(r)'
  <2>1. TimingInv(r)'
    BY <1>1, RequestFacts DEF TimingInv, Decided, StoreView
  <2>2. ViewInv(r)'
    BY <1>1, <1>2, <1>4 DEF ViewInv, Decided, UserAt, ViewWithin, StoreView, MaxAge
  <2>3. GatewayInv(r)'
    BY <1>1, RequestFacts DEF RequestInv, GatewayInv, StoreView
  <2>4. QED
    BY <2>1, <2>2, <2>3 DEF RequestInv
<1>6. ASSUME NEW k \in DOMAIN entries'
      PROVE  \/ k \in DOMAIN entries /\ entries'[k] = entries[k]
             \/ EntryInv(k)'
  <2> DEFINE f == AfterSet(entries, key, view, now)
  <2>1. entries' = f
    BY DEF StoreView
  <2>2. /\ f[key] = [value |-> view, expiresAt |-> now + Ttl]
        /\ \A q \in DOMAIN f : q # key => q \in DOMAIN entries /\ f[q] = entries[q]
    BY AfterSetEntries
  <2> HIDE DEF f
  <2>3. CASE k # key
    BY <2>1, <2>2, <2>3
  <2>4. CASE k = key
    <3>1. /\ entries'[k].value = view /\ entries'[k].expiresAt = now + Ttl
          /\ k[1] = req[r].session /\ k[2] = req[r].hid
      BY <2>1, <2>2, <2>4 DEF CacheKey, KeyOf
    <3>2. now' = now /\ now + Ttl <= now + Ttl
      BY RequestFacts, CacheAssumption DEF StoreView
    <3>3. EntryInv(k)'
      BY <1>2, <1>4, <3>1, <3>2
         DEF EntryInv, ViewWithin, NotOutdated, UserAt, StoreView, MaxAge
    <3>4. QED
      BY <3>3
  <2>5. QED
    BY <2>3, <2>4
<1>7. QED
  BY <1>5, <1>6, LocalStep DEF StoreView, TypeOK

(***************************************************************************)
(* The remaining steps of a request leave its view alone: they end it, or  *)
(* carry on with a view it already goes by.                                *)
(***************************************************************************)
SameView(r) ==
  /\ req'[r].session = req[r].session /\ req'[r].hid = req[r].hid
  /\ req'[r].start = req[r].start /\ req'[r].app = req[r].app
  /\ req'[r].view = req[r].view /\ req'[r].viewAt = req[r].viewAt

LEMMA FailureInv ==
  ASSUME TypeOK, Inv, NEW r \in Requests, SameView(r),
         req'[r].pc = "done",
         req'[r].reply \in {"refused", "unauthenticated", "unavailable", "error"},
         UNCHANGED <<now, hist, endedAt, known>>,
         req[r].pc # "idle"
  PROVE  RequestInv(r)'
  BY RequestFacts
     DEF SameView, RequestInv, TimingInv, ViewInv, GatewayInv, Decided, UserAt

LEMMA CarryOnInv ==
  ASSUME TypeOK, Inv, NEW r \in Requests, SameView(r), Decided(r), Decided(r)',
         UNCHANGED <<now, hist, endedAt, known>>, GatewayInv(r)'
  PROVE  RequestInv(r)'
<1>1. TimingInv(r)'
  BY RequestFacts DEF SameView, RequestInv, TimingInv, Decided
<1>2. ViewInv(r)'
  BY RequestFacts DEF SameView, RequestInv, ViewInv, ViewWithin, Decided, UserAt
<1>3. QED
  BY <1>1, <1>2 DEF RequestInv

LEMMA FailuresInv ==
  ASSUME TypeOK, Inv, NEW r \in Requests,
         UpstreamFails(r) \/ SessionEnded(r) \/ IntrospectionRefused(r)
           \/ StoreFails(r) \/ NoBackend(r)
  PROVE  Inv'
<1>1. /\ SameView(r) /\ req'[r].pc = "done" /\ req[r].pc # "idle"
      /\ req'[r].reply \in {"refused", "unauthenticated", "unavailable", "error"}
  BY RequestFacts
     DEF UpstreamFails, SessionEnded, IntrospectionRefused, StoreFails, NoBackend,
         Done, Goto, SameView, TypeOK, Request
<1>2. /\ UNCHANGED <<now, hist, endedAt, webhooks, known, entries>>
      /\ \A q \in Requests \ {r} : req'[q] = req[q]
  BY DEF UpstreamFails, SessionEnded, IntrospectionRefused, StoreFails, NoBackend,
         Done, Goto, TypeOK
<1>3. RequestInv(r)'
  BY <1>1, <1>2, FailureInv
<1>4. QED
  BY <1>2, <1>3, LocalStep

LEMMA AnswerAccessInv ==
  ASSUME TypeOK, Inv, NEW r \in Requests, AnswerAccess(r)
  PROVE  Inv'
<1>1. /\ SameView(r) /\ req[r].pc = "decide" /\ req'[r].pc = "done" /\ req'[r].reply = "ok"
  BY RequestFacts DEF AnswerAccess, Done, SameView, TypeOK, Request
<1>2. GatewayInv(r)'
  BY <1>1, RequestFacts DEF SameView, GatewayInv, RequestInv, AnswerAccess
<1>3. RequestInv(r)'
  BY <1>1, <1>2, CarryOnInv DEF Decided, AnswerAccess
<1>4. QED
  BY <1>3, LocalStep DEF AnswerAccess, Done, TypeOK

LEMMA GatewayDecidesInv ==
  ASSUME TypeOK, Inv, NEW r \in Requests, GatewayDecides(r)
  PROVE  Inv'
<1> DEFINE h == hist[req[r].hid]
           past == h[req[r].view.ver]
           decision == DecideGatewayAccess(req[r].view, req[r].app)
<1>1. /\ req[r].view.hid = req[r].hid /\ req[r].view.userId = UserAt(r)
      /\ UserAt(r) \in past.members
      /\ req[r].pc = "decide"
  BY RequestFacts DEF RequestInv, ViewInv, ViewWithin, Decided, GatewayDecides
<1>2. /\ decision = "allow" => Allows(past, UserAt(r), req[r].app)
      /\ decision \in {"not_installed", "no_grant"} => ~Allows(past, UserAt(r), req[r].app)
      /\ decision \in {"allow", "not_installed", "no_grant"}
  BY <1>1 DEF DecideGatewayAccess, Allows
<1>3. /\ SameView(r)
      /\ \/ decision = "allow" /\ req'[r].pc = "routing"
         \/ /\ decision \in {"not_installed", "no_grant"}
            /\ req'[r].pc = "done" /\ req'[r].reply = decision
  <2> HIDE DEF decision
  <2>1. CASE decision = "allow"
    <3>1. req'[r] = [req[r] EXCEPT !.pc = "routing"]
      BY <2>1 DEF decision, GatewayDecides, Goto, TypeOK
    <3>2. QED
      BY <2>1, <3>1, RequestFacts DEF SameView, Request
  <2>2. CASE decision # "allow"
    <3>1. req'[r] = [req[r] EXCEPT !.pc = "done", !.reply = decision, !.at = 0]
      BY <2>2 DEF decision, GatewayDecides, Done, TypeOK
    <3>2. QED
      BY <1>2, <2>2, <3>1, RequestFacts DEF SameView, Request
  <2>3. QED
    BY <2>1, <2>2
<1> HIDE DEF decision
<1>4. GatewayInv(r)'
  BY <1>1, <1>2, <1>3, RequestFacts
     DEF SameView, GatewayInv, RequestInv, UserAt, GatewayDecides
<1>5. RequestInv(r)'
  BY <1>1, <1>3, <1>4, CarryOnInv DEF Decided, GatewayDecides
<1>6. \A q \in Requests \ {r} : req'[q] = req[q]
  BY DEF GatewayDecides, Done, Goto, TypeOK
<1>7. QED
  BY <1>5, <1>6, LocalStep DEF GatewayDecides

LEMMA SendTokenInv ==
  ASSUME TypeOK, Inv, NEW r \in Requests, SendToken(r)
  PROVE  Inv'
<1>1. SameView(r) /\ req[r].pc = "routing" /\ req'[r].pc = "tokenSent"
  BY RequestFacts DEF SendToken, SameView, TypeOK, Request
<1>2. GatewayInv(r)'
  BY <1>1, RequestFacts DEF SameView, GatewayInv, RequestInv, UserAt, SendToken
<1>3. RequestInv(r)'
  BY <1>1, <1>2, CarryOnInv DEF Decided, SendToken
<1>4. QED
  BY <1>3, LocalStep DEF SendToken, TypeOK

LEMMA IdentityIssuesTokenInv ==
  ASSUME TypeOK, Inv, NEW r \in Requests, IdentityIssuesToken(r)
  PROVE  Inv'
<1> DEFINE h == hist[req[r].hid]
<1>1. /\ SameView(r) /\ req[r].pc = "tokenSent" /\ req'[r].pc = "tokenAnswered"
      /\ req'[r].reply = TokenReply(r)
  <2> DEFINE reply == TokenReply(r)
  <2>1. req'[r] = [req[r] EXCEPT !.pc = "tokenAnswered", !.reply = reply]
    BY DEF IdentityIssuesToken, TypeOK
  <2>2. req[r].pc = "tokenSent"
    BY DEF IdentityIssuesToken
  <2> HIDE DEF reply
  <2>3. SameView(r) /\ req'[r].pc = "tokenAnswered" /\ req'[r].reply = reply
    BY <2>1, RequestFacts DEF SameView, Request
  <2>4. QED
    BY <2>2, <2>3 DEF reply
<1>2. /\ Len(h) \in Nat \ {0} /\ req[r].start \in 1 .. Len(h)
      /\ req[r].view.ver \in 1 .. Len(h)
      /\ Allows(h[req[r].view.ver], UserAt(r), req[r].app)
  BY <1>1, RequestFacts
     DEF RequestInv, GatewayInv, ViewInv, ViewWithin, Decided, Version
<1>3. TokenReply(r) = "refused" => req[r].view.ver < Len(h)
  BY <1>2 DEF TokenReply, Current
<1>4. TokenReply(r) = "ok" =>
        \E v \in req[r].start .. Len(h) : Allows(h[v], UserAt(r), req[r].app)
  BY <1>2 DEF TokenReply, Current
<1>5. GatewayInv(r)'
  BY <1>1, <1>2, <1>3, <1>4
     DEF SameView, GatewayInv, UserAt, Version, IdentityIssuesToken
<1>6. RequestInv(r)'
  BY <1>1, <1>5, CarryOnInv DEF Decided, IdentityIssuesToken
<1>7. QED
  BY <1>6, LocalStep DEF IdentityIssuesToken, TypeOK

LEMMA ForwardInv ==
  ASSUME TypeOK, Inv, NEW r \in Requests, Forward(r)
  PROVE  Inv'
<1>1. /\ SameView(r) /\ req[r].pc = "tokenAnswered" /\ req[r].reply = "ok"
      /\ req'[r].pc = "done" /\ req'[r].reply = "forwarded"
  BY RequestFacts DEF Forward, Done, SameView, TypeOK, Request
<1>2. GatewayInv(r)'
  BY <1>1, RequestFacts DEF SameView, GatewayInv, RequestInv, UserAt, Forward
<1>3. RequestInv(r)'
  BY <1>1, <1>2, CarryOnInv DEF Decided, Forward
<1>4. QED
  BY <1>3, LocalStep DEF Forward, Done, TypeOK

LEMMA FreeSlotInv ==
  ASSUME NEW r \in Requests, req'[r] = FreeSlot
  PROVE  RequestInv(r)'
<1>1. FreeSlot \in Request /\ FreeSlot.pc = "idle" /\ FreeSlot.reply = "none"
  BY FreeSlotType DEF FreeSlot
<1>2. FreeSlot.view.hid = FreeSlot.hid /\ FreeSlot.view.userId = UserOf[FreeSlot.session]
  BY DEF FreeSlot, NoView
<1>3. QED
  BY <1>1, <1>2 DEF RequestInv, TimingInv, ViewInv, GatewayInv, Decided, UserAt

LEMMA FinishInv ==
  ASSUME TypeOK, Inv, NEW r \in Requests, Finish(r)
  PROVE  Inv'
<1>1. req'[r] = FreeSlot
  BY DEF Finish, TypeOK
<1>2. RequestInv(r)'
  BY <1>1, FreeSlotInv
<1>3. QED
  BY <1>2, LocalStep DEF Finish, TypeOK

(***************************************************************************)
(* An invalidation: every entry it covers is gone, every answer it covers  *)
(* on its way is marked, and what is left was not concerned.               *)
(***************************************************************************)
LEMMA InvalidationEntries ==
  ASSUME TypeOK, Inv, NEW scope \in Scope, NEW ver \in Nat, Learn(scope, ver),
         entries' = AfterInvalidate(entries, scope),
         UNCHANGED <<now, hist, endedAt>>
  PROVE  \A k \in DOMAIN entries' : EntryInv(k)'
<1> SUFFICES ASSUME NEW k \in DOMAIN entries' PROVE EntryInv(k)'
  OBVIOUS
<1>1. k \in DOMAIN entries /\ entries'[k] = entries[k] /\ ~Covers(scope, entries[k].value)
  BY DEF AfterInvalidate, Without
<1>2. entries[k].value \in View /\ EntryInv(k)
  BY <1>1 DEF TypeOK, Entry, Inv
<1>3. entries[k].value.userId \in Users /\ entries[k].value.hid \in Households
  BY <1>2 DEF View
<1>4. known'[entries[k].value.userId][entries[k].value.hid] =
        known[entries[k].value.userId][entries[k].value.hid]
  BY <1>1, <1>3 DEF Learn, Covers
<1>5. QED
  BY <1>1, <1>2, <1>4 DEF EntryInv, ViewWithin, NotOutdated

LEMMA InvalidationTold ==
  ASSUME TypeOK, Inv, NEW scope \in Scope, NEW ver \in Nat, Learn(scope, ver),
         ver <= Version(hist[scope.hid]), webhooks' \subseteq webhooks,
         hist' = hist
  PROVE  ToldInv'
  BY DEF Inv, ToldInv, TypeOK, Learn, Covers, Version

LEMMA InvalidationRequest ==
  ASSUME TypeOK, Inv, NEW scope \in Scope, NEW ver \in Nat, Learn(scope, ver),
         UNCHANGED <<now, hist, endedAt>>, NEW r \in Requests,
         req'[r] = MarkOvertaken(req, scope)[r]
  PROVE  RequestInv(r)'
<1> DEFINE raced == req[r].view.raced \/ Overtaken(r, scope)
<1>1. req'[r] = [req[r] EXCEPT !.view = [req[r].view EXCEPT !.raced = raced]]
  BY MarkType
<1> HIDE DEF raced
<1>2. /\ req'[r].pc = req[r].pc /\ req'[r].session = req[r].session
      /\ req'[r].hid = req[r].hid /\ req'[r].app = req[r].app
      /\ req'[r].start = req[r].start /\ req'[r].at = req[r].at
      /\ req'[r].viewAt = req[r].viewAt /\ req'[r].reply = req[r].reply
      /\ req'[r].view = [req[r].view EXCEPT !.raced = raced]
  BY <1>1, RequestFacts DEF Request
<1>3. /\ req'[r].view.ver = req[r].view.ver /\ req'[r].view.hid = req[r].view.hid
      /\ req'[r].view.userId = req[r].view.userId /\ req'[r].view.raced = raced
  BY <1>2, RequestFacts DEF View
<1>4. ASSUME req[r].pc \in {"answered", "persisting"}, NotOutdated(req[r].view)
      PROVE  NotOutdated(req[r].view)'
  <2>1. CASE Covers(scope, req[r].view)
    <3>1. raced
      BY <1>4, <2>1 DEF raced, Overtaken
    <3>2. QED
      BY <1>3, <3>1 DEF NotOutdated
  <2>2. CASE ~Covers(scope, req[r].view)
    <3>1. req[r].view.userId \in Users /\ req[r].view.hid \in Households
      BY RequestFacts DEF View
    <3>2. known'[req[r].view.userId][req[r].view.hid] =
            known[req[r].view.userId][req[r].view.hid]
      BY <2>2, <3>1 DEF Learn, Covers
    <3>3. req[r].view.raced => raced
      BY DEF raced
    <3>4. QED
      BY <1>3, <1>4, <3>2, <3>3 DEF NotOutdated
  <2>3. QED
    BY <2>1, <2>2
<1>5. TimingInv(r)'
  BY <1>2, RequestFacts DEF RequestInv, TimingInv, Decided
<1>6. ViewInv(r)'
  BY <1>2, <1>3, <1>4, RequestFacts DEF RequestInv, ViewInv, ViewWithin, Decided, UserAt
<1>7. GatewayInv(r)'
  BY <1>2, <1>3, RequestFacts DEF RequestInv, GatewayInv, UserAt
<1>8. QED
  BY <1>5, <1>6, <1>7 DEF RequestInv

LEMMA DeliverWebhookInv ==
  ASSUME TypeOK, Inv, NEW m \in webhooks, NEW again \in BOOLEAN, DeliverWebhook(m, again)
  PROVE  Inv'
<1>1. m.scope \in Scope /\ m.ver \in Nat /\ m.ver <= Version(hist[m.scope.hid])
  BY DEF TypeOK, Webhook, Inv, ToldInv
<1>2. \A k \in DOMAIN entries' : EntryInv(k)'
  BY <1>1, InvalidationEntries DEF DeliverWebhook
<1>3. ToldInv'
  BY <1>1, InvalidationTold DEF DeliverWebhook
<1>4. \A r \in Requests : RequestInv(r)'
  BY <1>1, InvalidationRequest DEF DeliverWebhook
<1>5. QED
  BY <1>2, <1>3, <1>4 DEF Inv, RequestInv

LEMMA TokenRefusedInv ==
  ASSUME TypeOK, Inv, NEW r \in Requests, TokenRefused(r)
  PROVE  Inv'
<1> DEFINE scope == [hid |-> req[r].hid, userId |-> UserAt(r)]
           ver == req[r].view.ver + 1
<1>1. /\ scope \in Scope /\ ver \in Nat /\ ver <= Version(hist[scope.hid])
  <2>1. UserAt(r) \in Users
    BY IntrospectionType
  <2>2. req[r].view.ver < Version(hist[req[r].hid]) /\ req[r].view.ver \in Nat
    BY RequestFacts DEF RequestInv, GatewayInv, TokenRefused, View
  <2>3. QED
    BY <2>1, <2>2, RequestFacts DEF Scope
<1>2. /\ Learn(scope, ver) /\ entries' = AfterInvalidate(entries, scope)
      /\ UNCHANGED <<now, hist, endedAt, webhooks>>
      /\ req' = [MarkOvertaken(req, scope) EXCEPT ![r].pc = "done",
                                                  ![r].reply = "token_refused"]
      /\ req[r].pc = "tokenAnswered"
  BY DEF TokenRefused
<1>3. MarkOvertaken(req, scope)[r] = req[r]
  BY <1>2 DEF MarkOvertaken, Overtaken
<1>4. /\ MarkOvertaken(req, scope) \in [Requests -> Request]
  BY MarkType
<1> HIDE DEF scope, ver
<1>5. \A k \in DOMAIN entries' : EntryInv(k)'
  BY <1>1, <1>2, InvalidationEntries
<1>6. ToldInv'
  BY <1>1, <1>2, InvalidationTold
<1>7. ASSUME NEW q \in Requests, q # r PROVE RequestInv(q)'
  <2>1. req'[q] = MarkOvertaken(req, scope)[q]
    BY <1>2, <1>4, <1>7
  <2>2. QED
    BY <1>1, <1>2, <2>1, InvalidationRequest
<1>8. RequestInv(r)'
  <2>1. req'[r] = [req[r] EXCEPT !.pc = "done", !.reply = "token_refused"]
    BY <1>2, <1>3, <1>4
  <2>2. SameView(r) /\ req'[r].pc = "done" /\ req'[r].reply = "token_refused"
    BY <2>1, RequestFacts DEF SameView, Request
  <2>3. TimingInv(r)'
    BY <1>2, <2>2, RequestFacts DEF SameView, RequestInv, TimingInv, Decided
  <2>4. ViewInv(r)'
    BY <1>2, <2>2, RequestFacts DEF SameView, RequestInv, ViewInv, ViewWithin, Decided, UserAt
  <2>5. GatewayInv(r)'
    BY <1>2, <2>2, RequestFacts DEF SameView, RequestInv, GatewayInv
  <2>6. QED
    BY <2>3, <2>4, <2>5 DEF RequestInv
<1>9. QED
  BY <1>5, <1>6, <1>7, <1>8 DEF Inv, RequestInv

LEMMA TickInv ==
  ASSUME TypeOK, Inv, Tick
  PROVE  Inv'
<1>1. now \in Nat /\ now' = now + 1 /\ UNCHANGED <<hist, endedAt, webhooks, entries, known, req>>
  BY DEF Tick, TypeOK
<1>2. ASSUME NEW r \in Requests PROVE RequestInv(r)'
  <2>1. MayWait(r)
    BY DEF Tick
  <2>2. TimingInv(r)'
    BY <1>1, <2>1, RequestFacts, BffAssumption
       DEF RequestInv, TimingInv, MayWait, Decided
  <2>3. ViewInv(r)' /\ GatewayInv(r)'
    BY <1>1, RequestFacts
       DEF RequestInv, ViewInv, GatewayInv, ViewWithin, NotOutdated, Decided, UserAt
  <2>4. QED
    BY <2>2, <2>3 DEF RequestInv
<1>3. ASSUME NEW k \in DOMAIN entries PROVE EntryInv(k)'
  <2>1. EntryInv(k) /\ entries[k].expiresAt \in Nat
    BY DEF Inv, TypeOK, Entry
  <2>2. QED
    BY <1>1, <2>1, CacheAssumption DEF EntryInv, ViewWithin, NotOutdated
<1>4. ToldInv'
  BY <1>1 DEF Inv, ToldInv
<1>5. QED
  BY <1>1, <1>2, <1>3, <1>4 DEF Inv, RequestInv

LEMMA RestartInv ==
  ASSUME TypeOK, Inv, Restart
  PROVE  Inv'
<1>1. \A r \in Requests : RequestInv(r)'
  BY FreeSlotInv DEF Restart
<1>2. DOMAIN entries' = {}
  BY DEF Restart, EmptyCache
<1>3. ToldInv'
  BY DEF Inv, ToldInv, Restart
<1>4. QED
  BY <1>1, <1>2, <1>3 DEF Inv, RequestInv

LEMMA ChangeInv ==
  ASSUME TypeOK, Inv, NEW h \in Households, NEW next \in HouseholdState,
         NEW scope \in Scope, next.since = now, scope.hid = h,
         ChangeHousehold(h, next, scope)
  PROVE  Inv'
<1>1. hist[h] \in Seq(HouseholdState) /\ hist'[h] = Append(hist[h], next)
  BY DEF TypeOK, ChangeHousehold
<1>2. Version(hist'[h]) = Version(hist[h]) + 1
  BY <1>1 DEF Version
<1>3. \A m \in webhooks' : m \in webhooks \/ m.ver <= Version(hist'[m.scope.hid])
  BY <1>1, <1>2 DEF ChangeHousehold, Version
<1>4. \A k \in Households : \/ hist'[k] = hist[k]
                            \/ k = h
  BY DEF ChangeHousehold, TypeOK
<1>5. UNCHANGED <<now, endedAt, entries, known, req>>
  BY DEF ChangeHousehold
<1>6. QED
  BY <1>1, <1>3, <1>4, <1>5, IdentityInv

LEMMA InvStep == TypeOK /\ Inv /\ [Next]_vars => Inv'
<1> SUFFICES ASSUME TypeOK, Inv, [Next]_vars PROVE Inv'
  OBVIOUS
<1>1. ASSUME NEW h \in Households, ChangeForAll(h) PROVE Inv'
  <2>1. PICK installed \in SUBSET Apps,
             members \in {Current(hist[h]).members, {}} :
          ChangeHousehold(h, [since |-> now, installed |-> installed, members |-> members,
                              grants |-> Current(hist[h]).grants],
                          [hid |-> h, userId |-> AnyUser])
    BY <1>1 DEF ChangeForAll
  <2>2. Current(hist[h]) \in HouseholdState /\ now \in Nat
    BY DEF TypeOK, Current
  <2>3. [since |-> now, installed |-> installed, members |-> members,
         grants |-> Current(hist[h]).grants] \in HouseholdState
    BY <2>2 DEF HouseholdState
  <2>4. [hid |-> h, userId |-> AnyUser] \in Scope
    BY DEF Scope
  <2>5. QED
    BY <2>1, <2>3, <2>4, ChangeInv
<1>2. ASSUME NEW h \in Households, NEW u \in Users, ChangeMember(h, u) PROVE Inv'
  <2>1. PICK members \in SUBSET Users, grants \in [Users -> SUBSET Apps] :
          ChangeHousehold(h, [since |-> now, installed |-> Current(hist[h]).installed,
                              members |-> members, grants |-> grants],
                          [hid |-> h, userId |-> u])
    BY <1>2 DEF ChangeMember
  <2>2. Current(hist[h]) \in HouseholdState /\ now \in Nat
    BY DEF TypeOK, Current
  <2>3. [since |-> now, installed |-> Current(hist[h]).installed,
         members |-> members, grants |-> grants] \in HouseholdState
    BY <2>2 DEF HouseholdState
  <2>4. [hid |-> h, userId |-> u] \in Scope
    BY DEF Scope
  <2>5. QED
    BY <2>1, <2>3, <2>4, ChangeInv
<1>3. ASSUME NEW s \in Sessions, RevokeSession(s) PROVE Inv'
  <2>1. \A x \in Sessions : endedAt'[x] = endedAt[x] \/ endedAt'[x] = now
    BY <1>3 DEF RevokeSession, TypeOK
  <2>2. QED
    BY <1>3, <2>1, IdentityInv DEF RevokeSession
<1>4. ASSUME NEW m \in webhooks, LoseWebhook(m) PROVE Inv'
  BY <1>4, IdentityInv DEF LoseWebhook
<1>5. ASSUME NEW r \in Requests, RequestStep(r) PROVE Inv'
  BY <1>5, StartInv, LoadCachedInv, LoadIntrospectInv, IdentityIntrospectsInv,
     IntrospectionArrivesInv, StoreViewInv, FailuresInv, AnswerAccessInv,
     GatewayDecidesInv, SendTokenInv, IdentityIssuesTokenInv, ForwardInv,
     TokenRefusedInv, FinishInv
     DEF RequestStep, Start
<1>6. ASSUME NEW m \in webhooks, NEW again \in BOOLEAN, DeliverWebhook(m, again)
      PROVE  Inv'
  BY <1>6, DeliverWebhookInv
<1>7. CASE Restart
  BY <1>7, RestartInv
<1>8. CASE Tick
  BY <1>8, TickInv
<1>9. CASE UNCHANGED vars
  <2>1. \A r \in Requests : RequestInv(r)'
    BY <1>9, SameRequest DEF Inv, RequestInv, vars
  <2>2. \A k \in DOMAIN entries' : EntryInv(k)'
    BY <1>9, SameEntry DEF Inv, vars
  <2>3. ToldInv'
    BY <1>9 DEF Inv, ToldInv, vars
  <2>4. QED
    BY <2>1, <2>2, <2>3 DEF Inv, RequestInv
<1>10. QED
  BY <1>1, <1>2, <1>3, <1>4, <1>5, <1>6, <1>7, <1>8, <1>9 DEF Next, IdentityStep

THEOREM Invariance == Spec => [](TypeOK /\ Inv)
<1>1. Init => TypeOK /\ Inv
  BY InitType, InitInv
<1>2. TypeOK /\ Inv /\ [Next]_vars => (TypeOK /\ Inv)'
  BY TypeStep, InvStep
<1>3. QED
  BY <1>1, <1>2, PTL DEF Spec

-----------------------------------------------------------------------------
(* What follows from it.                                                   *)

(***************************************************************************)
(* No request goes by an introspection that had stopped being true more    *)
(* than MaxAge before loadHouseholdAccess returned it.                     *)
(***************************************************************************)
THEOREM StalenessBounded == Spec => []BoundedStaleness
<1>1. TypeOK /\ Inv => BoundedStaleness
  BY RequestFacts DEF BoundedStaleness, RequestInv, ViewInv, ViewWithin
<1>2. QED
  BY <1>1, Invariance, PTL

(***************************************************************************)
(* Nor is a session answered longer than that after identity-service       *)
(* ended it.                                                               *)
(***************************************************************************)
THEOREM EndedSessionsBounded == Spec => []EndedSessionBound
<1>1. ASSUME TypeOK, Inv, NEW r \in Requests, Decided(r)
      PROVE  \/ endedAt[req[r].session] = Never
             \/ endedAt[req[r].session] + MaxAge >= req[r].viewAt
  <2>1. /\ endedAt[req[r].session] \in Nat \cup {Never}
        /\ req[r].viewAt \in Nat /\ MaxAge \in Nat
    <3>1. req[r].session \in Sessions /\ req[r].viewAt \in Nat
      BY <1>1, RequestFacts
    <3>2. endedAt \in [Sessions -> Nat \cup {Never}]
      BY <1>1 DEF TypeOK
    <3>3. QED
      BY <3>1, <3>2, MaxAgeType
  <2>2. \/ endedAt[req[r].session] = Never
        \/ endedAt[req[r].session] >= req[r].viewAt - MaxAge
    BY <1>1, RequestFacts DEF RequestInv, ViewInv, ViewWithin
  <2>3. QED
    BY <2>1, <2>2
<1>2. TypeOK /\ Inv => EndedSessionBound
  BY <1>1 DEF EndedSessionBound
<1>3. QED
  BY <1>2, Invariance, PTL

(***************************************************************************)
(* A request decides by its own user's introspection of its own household. *)
(***************************************************************************)
THEOREM ViewsAreOwn == Spec => []OwnView
<1>1. TypeOK /\ Inv => OwnView
  BY RequestFacts DEF OwnView, RequestInv, ViewInv, ViewWithin
<1>2. QED
  BY <1>1, Invariance, PTL

(***************************************************************************)
(* Whatever the cache held, a forwarded request was allowed by             *)
(* identity-service while it was running.                                  *)
(***************************************************************************)
THEOREM ForwardedAllowed == Spec => []ForwardedWasAllowed
<1>1. TypeOK /\ Inv => ForwardedWasAllowed
  BY RequestFacts DEF ForwardedWasAllowed, RequestInv, GatewayInv
<1>2. QED
  BY <1>1, Invariance, PTL

(***************************************************************************)
(* A gateway refusal was identity-service's own within the last MaxAge.    *)
(***************************************************************************)
THEOREM RefusalsRecent == Spec => []RefusalWasRecent
<1>1. ASSUME TypeOK, Inv, NEW r \in Requests,
             req[r].pc = "done", req[r].reply \in {"not_installed", "no_grant"}
      PROVE  \E v \in 1 .. Version(hist[req[r].hid]) :
               /\ CurrentSince(hist[req[r].hid], v, req[r].viewAt - MaxAge)
               /\ ~Allows(hist[req[r].hid][v], UserAt(r), req[r].app)
  BY <1>1, RequestFacts
     DEF RequestInv, GatewayInv, ViewInv, ViewWithin, Decided
<1>2. TypeOK /\ Inv => RefusalWasRecent
  BY <1>1 DEF RefusalWasRecent
<1>3. QED
  BY <1>2, Invariance, PTL

(***************************************************************************)
(* The cache holds an introspection older than a change the BFF was told   *)
(* of only if that answer was overtaken by the telling.                    *)
(***************************************************************************)
THEOREM OnlyOvertakenStale == Spec => []OnlyOvertakenIsStale
<1>1. Inv => OnlyOvertakenIsStale
  BY DEF Inv, EntryInv, NotOutdated, OnlyOvertakenIsStale
<1>2. QED
  BY <1>1, Invariance, PTL
-----------------------------------------------------------------------------
(* Pruning.                                                                *)

\* Storing a view drops nothing that has not expired.
LEMMA AfterSetKeepsLive ==
  ASSUME NEW e, NEW key, NEW value, NEW at, NEW k \in DOMAIN e, ~Expired(e[k], at)
  PROVE  k \in DOMAIN AfterSet(e, key, value, at)
<1> DEFINE kept == IF Cardinality(DOMAIN e) >= PruneThreshold
                     THEN PruneExpired(e, at) ELSE e
<1>1. k \in DOMAIN kept
  <2>1. DOMAIN PruneExpired(e, at) = DOMAIN e \ {j \in DOMAIN e : Expired(e[j], at)}
    BY DEF PruneExpired, Without
  <2>2. k \in DOMAIN PruneExpired(e, at)
    BY <2>1
  <2>3. QED
    BY <2>2
<1> HIDE DEF kept
<1>2. AfterSet(e, key, value, at) =
        [j \in DOMAIN kept \cup {key} |->
           IF j = key THEN [value |-> value, expiresAt |-> at + Ttl] ELSE kept[j]]
  BY DEF AfterSet, kept
<1>3. QED
  BY <1>1, <1>2

\* A request leaves "persisting" for "decide" by storing its view only.
LEMMA OnlyStoringStores ==
  ASSUME TypeOK, NEW r \in Requests, req[r].pc = "persisting",
         req'[r].pc = "decide", [Next]_vars
  PROVE  StoreView(r)
<1>1. req \in [Requests -> Request]
  BY DEF TypeOK
<1>2. ASSUME NEW q \in Requests, NEW pc, req' = [req EXCEPT ![q].pc = pc],
             pc = "decide" => req[q].pc # "persisting"
      PROVE  FALSE
  BY <1>1, <1>2 DEF Request
<1>3. CASE UNCHANGED req
  BY <1>3
<1>4. ASSUME NEW q \in Requests, NEW s \in Sessions, NEW h \in Households,
             NEW app \in Apps \cup {NoApp}, Start(q, s, h, app)
      PROVE  FALSE
  BY <1>1, <1>4 DEF Start, Request
<1>5. ASSUME NEW q \in Requests,
             \/ LoadCached(q) \/ LoadIntrospect(q) \/ IdentityIntrospects(q)
             \/ IntrospectionArrives(q)
      PROVE  FALSE
  <2>1. CASE LoadCached(q)
    BY <1>1, <2>1 DEF LoadCached, Request
  <2>2. CASE LoadIntrospect(q)
    BY <1>1, <2>2 DEF LoadIntrospect, Request
  <2>3. CASE IdentityIntrospects(q)
    BY <1>1, <2>3 DEF IdentityIntrospects, Request
  <2>4. CASE IntrospectionArrives(q)
    BY <1>1, <2>4 DEF IntrospectionArrives, Request
  <2>5. QED
    BY <1>5, <2>1, <2>2, <2>3, <2>4
<1>6. ASSUME NEW q \in Requests, NEW reply, Done(q, reply)
      PROVE  FALSE
  BY <1>1, <1>6 DEF Done, Request
<1>7. ASSUME NEW q \in Requests, NEW pc, Goto(q, pc), pc # "decide"
      PROVE  FALSE
  BY <1>2, <1>7 DEF Goto
<1>8. ASSUME NEW q \in Requests,
             \/ IntrospectionRefused(q) \/ SessionEnded(q) \/ StoreFails(q)
             \/ UpstreamFails(q) \/ AnswerAccess(q) \/ GatewayDecides(q)
             \/ NoBackend(q) \/ Forward(q)
      PROVE  FALSE
  <2>1. CASE IntrospectionRefused(q)
    BY <1>7, <2>1 DEF IntrospectionRefused
  <2>2. CASE \/ SessionEnded(q) \/ StoreFails(q) \/ UpstreamFails(q)
             \/ AnswerAccess(q) \/ NoBackend(q) \/ Forward(q)
    BY <1>6, <2>2 DEF SessionEnded, StoreFails, UpstreamFails, AnswerAccess,
                      NoBackend, Forward
  <2>3. CASE GatewayDecides(q)
    BY <1>6, <1>7, <2>3 DEF GatewayDecides
  <2>4. QED
    BY <1>8, <2>1, <2>2, <2>3
<1>9. ASSUME NEW q \in Requests,
              SendToken(q) \/ IdentityIssuesToken(q) \/ Finish(q)
       PROVE  FALSE
  <2>1. CASE SendToken(q)
    BY <1>1, <2>1 DEF SendToken, Request
  <2>2. CASE IdentityIssuesToken(q)
    BY <1>1, <2>2 DEF IdentityIssuesToken, Request
  <2>3. CASE Finish(q)
    BY <1>1, <2>3 DEF Finish, FreeSlot
  <2>4. QED
    BY <1>9, <2>1, <2>2, <2>3
<1>10. ASSUME NEW scope PROVE MarkOvertaken(req, scope)[r].pc = req[r].pc
  BY <1>1 DEF MarkOvertaken, Request, View
<1>11. ASSUME NEW q \in Requests, TokenRefused(q)
       PROVE  FALSE
  <2> DEFINE scope == [hid |-> req[q].hid, userId |-> UserAt(q)]
  <2>1. req' = [MarkOvertaken(req, scope) EXCEPT ![q].pc = "done",
                                                 ![q].reply = "token_refused"]
    BY <1>11 DEF TokenRefused
  <2>2. req[q].pc = "tokenAnswered"
    BY <1>11 DEF TokenRefused
  <2>3. q # r
    BY <2>2
  <2>4. req'[r] = MarkOvertaken(req, scope)[r]
    BY <2>1, <2>3 DEF MarkOvertaken
  <2>5. QED
    BY <2>4, <1>10
<1>12. ASSUME NEW m \in webhooks, NEW again \in BOOLEAN, DeliverWebhook(m, again)
       PROVE  FALSE
  BY <1>10, <1>12 DEF DeliverWebhook
<1>13. CASE Restart
  BY <1>13 DEF Restart, FreeSlot
<1>14. CASE Tick \/ IdentityStep
  BY <1>3, <1>14 DEF Tick, IdentityStep, ChangeForAll, ChangeMember, ChangeHousehold,
                     RevokeSession, LoseWebhook
<1>15. ASSUME NEW q \in Requests, StoreView(q), q # r
       PROVE  FALSE
  BY <1>1, <1>15 DEF StoreView
<1>16. CASE UNCHANGED vars
  BY <1>3, <1>16 DEF vars
<1>17. ASSUME NEW q \in Requests, RequestStep(q)
       PROVE  StoreView(r)
  BY <1>17, <1>4, <1>5, <1>8, <1>9, <1>11, <1>15 DEF RequestStep
<1>18. QED
  BY <1>12, <1>13, <1>14, <1>16, <1>17 DEF Next

(***************************************************************************)
(* A cache at its threshold never pays for a new entry with a live one.    *)
(***************************************************************************)
THEOREM PruningSparesLive == Spec => PruneSparesLive
<1>1. ASSUME TypeOK, [Next]_vars,
             NEW r \in Requests, req[r].pc = "persisting", req'[r].pc = "decide",
             NEW k \in DOMAIN entries, ~Expired(entries[k], now)
      PROVE  k \in DOMAIN entries'
  <2>1. entries' = AfterSet(entries, CacheKey(r), req[r].view, now)
    BY <1>1, OnlyStoringStores DEF StoreView
  <2>2. QED
    BY <1>1, <2>1, AfterSetKeepsLive
<1>2. TypeOK /\ [Next]_vars =>
        [\A r \in Requests :
           req[r].pc = "persisting" /\ req'[r].pc = "decide" =>
             \A k \in DOMAIN entries :
               ~Expired(entries[k], now) => k \in DOMAIN entries']_vars
  BY <1>1
<1>3. QED
  BY <1>2, TypeCorrect, PTL DEF Spec, PruneSparesLive
=============================================================================
