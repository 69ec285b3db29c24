----------------------------- MODULE BffAccess -----------------------------
(***************************************************************************)
(* How the BFF answers "may this session use this household, this app?":   *)
(* concurrent requests of GET /api/h/:hid/access and of the gateway        *)
(* /api/h/:hid/apps/:appId, the introspection cache they share, the        *)
(* access.changed webhook that clears it, and identity-service behind.     *)
(*                                                                         *)
(* One request is a sequence of steps, cut where the code awaits:          *)
(*                                                                         *)
(*  idle -> authed -> introspecting -> answered -> persisting              *)
(*             |                                      |                    *)
(*             +-------------(cache hit)------> decide <                   *)
(*                                                |                        *)
(*           done <- tokenAnswered <- tokenSent <- routing                 *)
(*                                                                         *)
(* Every failure leads to done, with reply saying which.                   *)
(***************************************************************************)
EXTENDS IntrospectionCache, IdentityHistory, Integers

CONSTANTS Requests,         \* slots for requests in flight
          Sessions,         \* BFF sessions, one identity session behind each
          UserOf,           \* the user of a session
          NoApp,            \* the app of a request to /api/h/:hid/access
          Never,            \* the end of a session that has not ended
          UpstreamTimeout,  \* TTL.upstreamTimeoutMs
          StoreDelay        \* the longest one write to Postgres takes

ASSUME BffAssumption ==
  /\ UserOf \in [Sessions -> Users]
  /\ UpstreamTimeout \in Nat /\ StoreDelay \in Nat
  /\ Sessions # {} /\ Households # {}
  /\ NoApp \notin Apps /\ AnyUser \notin Users /\ Never \notin Nat

VARIABLES
  now,       \* Date.now() of the BFF
  hist,      \* identity-service: the history of every household
  endedAt,   \* identity-service: when a session was revoked
  webhooks,  \* access.changed calls on their way to the BFF
  sessions,  \* rows of the BFF's session table
  entries,   \* the introspection cache
  known,     \* per user and household: the newest version the BFF was told of
  req        \* the requests in flight

vars == <<now, hist, endedAt, webhooks, sessions, entries, known, req>>

(***************************************************************************)
(* What the BFF holds of an introspection: ver is the version it was read  *)
(* at and stands for its content; raced records that access.changed for it *)
(* arrived between identity-service's reading and the BFF's storing of it. *)
(***************************************************************************)
View == [hid : Households, userId : Users, ver : Nat, raced : BOOLEAN]

Entry == [value : View, expiresAt : Nat]

Scope == [hid : Households, userId : Users \cup {AnyUser}]

Webhook == [scope : Scope, ver : Nat]

Phases == {"idle", "authed", "introspecting", "answered", "persisting",
           "decide", "routing", "tokenSent", "tokenAnswered", "done"}

Replies == {"none", "ok", "refused", "unauthenticated", "unavailable",
            "error", "not_installed", "no_grant", "token_refused", "forwarded"}

Request == [pc      : Phases,
            session : Sessions,
            hid     : Households,
            app     : Apps \cup {NoApp},
            start   : Nat,   \* the household's version when the request came in
            at      : Nat,   \* when the call or the write it awaits began
            view    : View,  \* the introspection it goes by
            viewAt  : Nat,   \* when it obtained that
            reply   : Replies]

TypeOK ==
  /\ now \in Nat
  /\ hist \in [Households -> Seq(HouseholdState)]
  /\ \A h \in Households : Len(hist[h]) > 0
  /\ endedAt \in [Sessions -> Nat \cup {Never}]
  /\ webhooks \subseteq Webhook
  /\ sessions \subseteq Sessions
  /\ DOMAIN entries \subseteq Sessions \X Households
  /\ \A k \in DOMAIN entries : entries[k] \in Entry
  /\ known \in [Users -> [Households -> Nat]]
  /\ req \in [Requests -> Request]

UserAt(r) == UserOf[req[r].session]

NoView(s, h) == [hid |-> h, userId |-> UserOf[s], ver |-> 0, raced |-> FALSE]

CacheKey(r) == KeyOf(req[r].session, req[r].hid)

-----------------------------------------------------------------------------
(***************************************************************************)
(* A free slot; what its fields but pc hold has no meaning.                *)
(***************************************************************************)
FreeSlot ==
  LET s == CHOOSE s \in Sessions : TRUE
      h == CHOOSE h \in Households : TRUE
  IN  [pc |-> "idle", session |-> s, hid |-> h, app |-> NoApp, start |-> 0,
       at |-> 0, view |-> NoView(s, h), viewAt |-> 0, reply |-> "none"]

Init ==
  /\ now = 0
  /\ \E installed \in [Households -> SUBSET Apps],
        members \in [Households -> SUBSET Users],
        grants \in [Households -> [Users -> SUBSET Apps]] :
       hist = [h \in Households |->
                 <<[since |-> 0, installed |-> installed[h],
                    members |-> members[h], grants |-> grants[h]]>>]
  /\ endedAt = [s \in Sessions |-> Never]
  /\ webhooks = {}
  /\ sessions = Sessions
  /\ entries = EmptyCache
  /\ known = [u \in Users |-> [h \in Households |-> 0]]
  /\ req = [r \in Requests |-> FreeSlot]

-----------------------------------------------------------------------------
(* identity-service, an external actor.                                    *)

(***************************************************************************)
(* Something changes and the webhook is sent: for one user when it is his  *)
(* membership or his grants, for everyone in the household when it is an   *)
(* installation or the household itself that goes.                         *)
(***************************************************************************)
ChangeHousehold(h, next, scope) ==
  /\ hist' = [hist EXCEPT ![h] = Append(@, next)]
  /\ webhooks' = webhooks \cup {[scope |-> scope, ver |-> Version(hist[h]) + 1]}
  /\ UNCHANGED <<now, endedAt, sessions, entries, known, req>>

ChangeMember(h, u) ==
  \E members \in SUBSET Users, grants \in [Users -> SUBSET Apps] :
    LET cur == Current(hist[h])
    IN  /\ \A v \in Users \ {u} : /\ v \in members <=> v \in cur.members
                                  /\ grants[v] = cur.grants[v]
        /\ members # cur.members \/ grants # cur.grants
        /\ ChangeHousehold(h, [since |-> now, installed |-> cur.installed,
                               members |-> members, grants |-> grants],
                           [hid |-> h, userId |-> u])

ChangeForAll(h) ==
  \E installed \in SUBSET Apps, members \in {Current(hist[h]).members, {}} :
    LET cur == Current(hist[h])
    IN  /\ installed # cur.installed \/ members # cur.members
        /\ ChangeHousehold(h, [since |-> now, installed |-> installed,
                               members |-> members, grants |-> cur.grants],
                           [hid |-> h, userId |-> AnyUser])

\* Logged out elsewhere, a revoked device, or expiry.
RevokeSession(s) ==
  /\ endedAt[s] = Never
  /\ endedAt' = [endedAt EXCEPT ![s] = now]
  /\ UNCHANGED <<now, hist, webhooks, sessions, entries, known, req>>

LoseWebhook(m) ==
  /\ m \in webhooks
  /\ webhooks' = webhooks \ {m}
  /\ UNCHANGED <<now, hist, endedAt, sessions, entries, known, req>>

-----------------------------------------------------------------------------
(* Steps of a request.                                                     *)

Goto(r, pc) == req' = [req EXCEPT ![r].pc = pc]

Done(r, reply) ==
  req' = [req EXCEPT ![r].pc = "done", ![r].reply = reply, ![r].at = 0]

(***************************************************************************)
(* requireSession finds the row; without one the answer is 401 and nothing *)
(* changes.                                                                *)
(***************************************************************************)
Start(r, s, h, app) ==
  /\ req[r].pc = "idle"
  /\ s \in sessions
  /\ req' = [req EXCEPT ![r] =
               [pc |-> "authed", session |-> s, hid |-> h, app |-> app,
                start |-> Version(hist[h]), at |-> 0, view |-> NoView(s, h),
                viewAt |-> 0, reply |-> "none"]]
  /\ UNCHANGED <<now, hist, endedAt, webhooks, sessions, entries, known>>

LoadCached(r) ==
  /\ req[r].pc = "authed"
  /\ Hit(entries, CacheKey(r), now)
  /\ entries' = AfterGet(entries, CacheKey(r), now)
  /\ req' = [req EXCEPT ![r].pc = "decide", ![r].viewAt = now,
                        ![r].view = entries[CacheKey(r)].value]
  /\ UNCHANGED <<now, hist, endedAt, webhooks, sessions, known>>

LoadIntrospect(r) ==
  /\ req[r].pc = "authed"
  /\ ~Hit(entries, CacheKey(r), now)
  /\ entries' = AfterGet(entries, CacheKey(r), now)
  /\ req' = [req EXCEPT ![r].pc = "introspecting", ![r].at = now]
  /\ UNCHANGED <<now, hist, endedAt, webhooks, sessions, known>>

(***************************************************************************)
(* identity-service reads its state and the answer travels back.           *)
(***************************************************************************)
IntrospectionReply(r) ==
  IF endedAt[req[r].session] # Never THEN "unauthenticated"
  ELSE IF UserAt(r) \in Current(hist[req[r].hid]).members THEN "ok"
  ELSE "refused"

IdentityIntrospects(r) ==
  /\ req[r].pc = "introspecting"
  /\ req' = [req EXCEPT ![r].pc = "answered",
                        ![r].reply = IntrospectionReply(r),
                        ![r].view.ver = Version(hist[req[r].hid])]
  /\ UNCHANGED <<now, hist, endedAt, webhooks, sessions, entries, known>>

(***************************************************************************)
(* A call to identity-service that is late, refused or answered with a 5xx *)
(* is "unavailable"; AbortSignal.timeout ends it after UpstreamTimeout.    *)
(* When that cuts off the body of an introspection, readJson makes it null *)
(* and storing null throws: 500.                                           *)
(***************************************************************************)
UpstreamFails(r) ==
  /\ req[r].pc \in {"introspecting", "answered", "tokenSent", "tokenAnswered"}
  /\ \/ Done(r, "unavailable")
     \/ req[r].pc = "answered" /\ Done(r, "error")
  /\ UNCHANGED <<now, hist, endedAt, webhooks, sessions, entries, known>>

(***************************************************************************)
(* 401: endSession deletes the row and answers unauthenticated.  So does   *)
(* keepSessionAlive, before the handler, when its own call to              *)
(* identity-service is due and finds no session.                           *)
(***************************************************************************)
SessionEnded(r) ==
  /\ \/ req[r].pc = "authed"
     \/ req[r].pc \in {"answered", "tokenAnswered"} /\ req[r].reply = "unauthenticated"
  /\ sessions' = sessions \ {req[r].session}
  /\ Done(r, "unauthenticated")
  /\ UNCHANGED <<now, hist, endedAt, webhooks, entries, known>>

IntrospectionRefused(r) ==
  /\ req[r].pc = "answered"
  /\ req[r].reply = "refused"
  /\ Goto(r, "done")
  /\ UNCHANGED <<now, hist, endedAt, webhooks, sessions, entries, known>>

\* persistIdentityCookie begins: the answer is in hand, the cache still empty.
IntrospectionArrives(r) ==
  /\ req[r].pc = "answered"
  /\ req[r].reply = "ok"
  /\ req' = [req EXCEPT ![r].pc = "persisting", ![r].at = now]
  /\ UNCHANGED <<now, hist, endedAt, webhooks, sessions, entries, known>>

StoreView(r) ==
  /\ req[r].pc = "persisting"
  /\ entries' = AfterSet(entries, CacheKey(r), req[r].view, now)
  /\ req' = [req EXCEPT ![r].pc = "decide", ![r].viewAt = now, ![r].at = 0]
  /\ UNCHANGED <<now, hist, endedAt, webhooks, sessions, known>>

\* A query to Postgres throws, in the middleware or in the handler: 500, and
\* neither the cache nor the session table is written.
StoreFails(r) ==
  /\ \/ req[r].pc \in {"authed", "persisting", "routing", "tokenAnswered"}
     \/ req[r].pc = "answered" /\ req[r].reply = "unauthenticated"
  /\ Done(r, "error")
  /\ UNCHANGED <<now, hist, endedAt, webhooks, sessions, entries, known>>

-----------------------------------------------------------------------------
(* The handler's own part, once loadHouseholdAccess has answered.          *)

AnswerAccess(r) ==
  /\ req[r].pc = "decide"
  /\ req[r].app = NoApp
  /\ Done(r, "ok")
  /\ UNCHANGED <<now, hist, endedAt, webhooks, sessions, entries, known>>

DecideGatewayAccess(view, app) ==
  IF app \notin hist[view.hid][view.ver].installed THEN "not_installed"
  ELSE IF app \notin hist[view.hid][view.ver].grants[view.userId] THEN "no_grant"
  ELSE "allow"

GatewayDecides(r) ==
  /\ req[r].pc = "decide"
  /\ req[r].app # NoApp
  /\ LET decision == DecideGatewayAccess(req[r].view, req[r].app)
     IN  IF decision = "allow" THEN Goto(r, "routing") ELSE Done(r, decision)
  /\ UNCHANGED <<now, hist, endedAt, webhooks, sessions, entries, known>>

\* findAppBackendUrl has no row, or buildUpstreamUrl refuses the path.
NoBackend(r) ==
  /\ req[r].pc = "routing"
  /\ Done(r, "unavailable")
  /\ UNCHANGED <<now, hist, endedAt, webhooks, sessions, entries, known>>

\* Mutant: the cached decision is enough, no token is asked for.
ForwardUnasked(r) ==
  /\ req[r].pc = "routing"
  /\ Done(r, "forwarded")
  /\ UNCHANGED <<now, hist, endedAt, webhooks, sessions, entries, known>>

SendToken(r) ==
  /\ req[r].pc = "routing"
  /\ req' = [req EXCEPT ![r].pc = "tokenSent", ![r].at = now]
  /\ UNCHANGED <<now, hist, endedAt, webhooks, sessions, entries, known>>

TokenReply(r) ==
  IF endedAt[req[r].session] # Never THEN "unauthenticated"
  ELSE IF Allows(Current(hist[req[r].hid]), UserAt(r), req[r].app) THEN "ok"
  ELSE "refused"

IdentityIssuesToken(r) ==
  /\ req[r].pc = "tokenSent"
  /\ req' = [req EXCEPT ![r].pc = "tokenAnswered", ![r].reply = TokenReply(r)]
  /\ UNCHANGED <<now, hist, endedAt, webhooks, sessions, entries, known>>

Forward(r) ==
  /\ req[r].pc = "tokenAnswered"
  /\ req[r].reply = "ok"
  /\ Done(r, "forwarded")
  /\ UNCHANGED <<now, hist, endedAt, webhooks, sessions, entries, known>>

(***************************************************************************)
(* An invalidation reaches the cache: the entries it covers go, and an     *)
(* answer that is on its way to the cache is overtaken by it.  The users   *)
(* it concerns are now known to be at version ver or later.                *)
(***************************************************************************)
Overtaken(r, scope) ==
  req[r].pc \in {"answered", "persisting"} /\ Covers(scope, req[r].view)

MarkOvertaken(q, scope) ==
  [r \in Requests |-> IF Overtaken(r, scope) THEN [q[r] EXCEPT !.view.raced = TRUE]
                                             ELSE q[r]]

Learn(scope, ver) ==
  known' = [u \in Users |-> [h \in Households |->
              IF Covers(scope, [hid |-> h, userId |-> u]) /\ known[u][h] < ver
                THEN ver ELSE known[u][h]]]

\* Mutant: the cached introspection survives the refusal.
TokenRefusedKeepsCache(r) ==
  LET scope == [hid |-> req[r].hid, userId |-> UserAt(r)]
  IN  /\ req[r].pc = "tokenAnswered"
      /\ req[r].reply = "refused"
      /\ Learn(scope, req[r].view.ver + 1)
      /\ req' = [MarkOvertaken(req, scope) EXCEPT ![r].pc = "done",
                                                  ![r].reply = "token_refused"]
      /\ UNCHANGED <<now, hist, endedAt, webhooks, sessions, entries>>

\* The grant went away after the introspection was read.
TokenRefused(r) ==
  LET scope == [hid |-> req[r].hid, userId |-> UserAt(r)]
  IN  /\ req[r].pc = "tokenAnswered"
      /\ req[r].reply = "refused"
      /\ entries' = AfterInvalidate(entries, scope)
      /\ Learn(scope, req[r].view.ver + 1)
      /\ req' = [MarkOvertaken(req, scope) EXCEPT ![r].pc = "done",
                                                  ![r].reply = "token_refused"]
      /\ UNCHANGED <<now, hist, endedAt, webhooks, sessions>>

\* The response has gone out.
Finish(r) ==
  /\ req[r].pc = "done"
  /\ req' = [req EXCEPT ![r] = FreeSlot]
  /\ UNCHANGED <<now, hist, endedAt, webhooks, sessions, entries, known>>

-----------------------------------------------------------------------------
(***************************************************************************)
(* POST /webhooks/access-changed.  When the 204 is lost identity-service   *)
(* may call again: the webhook stays.                                      *)
(***************************************************************************)
DeliverWebhook(m, again) ==
  /\ m \in webhooks
  /\ webhooks' = IF again THEN webhooks ELSE webhooks \ {m}
  /\ entries' = AfterInvalidate(entries, m.scope)
  /\ Learn(m.scope, m.ver)
  /\ req' = MarkOvertaken(req, m.scope)
  /\ UNCHANGED <<now, hist, endedAt, sessions>>

\* The process restarts: cache and requests are gone, the session table is not.
Restart ==
  /\ entries' = EmptyCache
  /\ req' = [r \in Requests |-> FreeSlot]
  /\ UNCHANGED <<now, hist, endedAt, webhooks, sessions, known>>

(***************************************************************************)
(* Time passes, but not beyond the moment a pending call times out or a    *)
(* write to Postgres must have ended.                                      *)
(***************************************************************************)
MayWait(r) ==
  /\ req[r].pc \in {"introspecting", "answered", "tokenSent", "tokenAnswered"}
       => now < req[r].at + UpstreamTimeout
  /\ req[r].pc = "persisting" => now < req[r].at + StoreDelay

Tick ==
  /\ \A r \in Requests : MayWait(r)
  /\ now' = now + 1
  /\ UNCHANGED <<hist, endedAt, webhooks, sessions, entries, known, req>>

IdentityStep ==
  \/ \E h \in Households : ChangeForAll(h) \/ \E u \in Users : ChangeMember(h, u)
  \/ \E s \in Sessions : RevokeSession(s)
  \/ \E m \in webhooks : LoseWebhook(m)

RequestStep(r) ==
  \/ \E s \in Sessions, h \in Households, app \in Apps \cup {NoApp} : Start(r, s, h, app)
  \/ LoadCached(r) \/ LoadIntrospect(r) \/ IdentityIntrospects(r)
  \/ IntrospectionArrives(r) \/ IntrospectionRefused(r) \/ SessionEnded(r)
  \/ StoreView(r) \/ StoreFails(r) \/ UpstreamFails(r)
  \/ AnswerAccess(r) \/ GatewayDecides(r) \/ NoBackend(r) \/ SendToken(r)
  \/ IdentityIssuesToken(r) \/ Forward(r) \/ TokenRefused(r) \/ Finish(r)

Next ==
  \/ IdentityStep
  \/ \E r \in Requests : RequestStep(r)
  \/ \E m \in webhooks, again \in BOOLEAN : DeliverWebhook(m, again)
  \/ Restart
  \/ Tick

Spec == Init /\ [][Next]_vars

-----------------------------------------------------------------------------
(* Properties.                                                             *)

\* The longest time between a change at identity-service and the last
\* decision the BFF may still take without it, webhook or not.
MaxAge == UpstreamTimeout + StoreDelay + Ttl

\* The request goes by its view: loadHouseholdAccess answered "ok".
Decided(r) ==
  \/ req[r].pc \in {"decide", "routing", "tokenSent", "tokenAnswered"}
  \/ req[r].pc = "done" /\ req[r].reply \in {"ok", "forwarded", "not_installed",
                                             "no_grant", "token_refused"}

(***************************************************************************)
(* However many webhooks are lost and however requests interleave, no      *)
(* request goes by an introspection that had stopped being true more than  *)
(* MaxAge before loadHouseholdAccess returned it.                          *)
(***************************************************************************)
BoundedStaleness ==
  \A r \in Requests : Decided(r) =>
    LET h == hist[req[r].hid]
    IN  CurrentSince(h, req[r].view.ver, req[r].viewAt - MaxAge)

(***************************************************************************)
(* The same bound for the session: nobody is answered from the cache for   *)
(* longer than that after identity-service ended his session.              *)
(***************************************************************************)
EndedSessionBound ==
  \A r \in Requests : Decided(r) =>
    \/ endedAt[req[r].session] = Never
    \/ endedAt[req[r].session] + MaxAge >= req[r].viewAt

(***************************************************************************)
(* The cache never mixes up users or households: a request decides by an   *)
(* introspection of its own session's user in the household of its URL,    *)
(* in which that user was a member.                                        *)
(***************************************************************************)
OwnView ==
  \A r \in Requests : Decided(r) =>
    /\ req[r].view.userId = UserAt(r)
    /\ req[r].view.hid = req[r].hid
    /\ UserAt(r) \in hist[req[r].hid][req[r].view.ver].members

(***************************************************************************)
(* A stale cache never opens the gateway: a request that was forwarded     *)
(* to an app's backend was allowed by identity-service at some moment      *)
(* while the request was running.                                          *)
(***************************************************************************)
ForwardedWasAllowed ==
  \A r \in Requests : req[r].pc = "done" /\ req[r].reply = "forwarded" =>
    \E v \in req[r].start .. Version(hist[req[r].hid]) :
      Allows(hist[req[r].hid][v], UserAt(r), req[r].app)

(***************************************************************************)
(* A stale cache does not shut the gateway for long either: a request      *)
(* refused for want of an installation or a grant was in fact refused by   *)
(* identity-service's state at some moment of the last MaxAge.             *)
(***************************************************************************)
RefusalWasRecent ==
  \A r \in Requests :
    req[r].pc = "done" /\ req[r].reply \in {"not_installed", "no_grant"} =>
      \E v \in 1 .. Version(hist[req[r].hid]) :
        /\ CurrentSince(hist[req[r].hid], v, req[r].viewAt - MaxAge)
        /\ ~Allows(hist[req[r].hid][v], UserAt(r), req[r].app)

(***************************************************************************)
(* access.changed and a refused token drop what they make obsolete: the    *)
(* cache holds an introspection older than a change the BFF was told of    *)
(* only if that answer was on its way to the cache when it was told.       *)
(***************************************************************************)
OnlyOvertakenIsStale ==
  \A k \in DOMAIN entries :
    LET view == entries[k].value
    IN  view.ver < known[view.userId][view.hid] => view.raced

(***************************************************************************)
(* A cache at its threshold never pays for a new entry with a live one:    *)
(* storing a view removes nothing that has not expired.                    *)
(***************************************************************************)
PruneSparesLive ==
  [][\A r \in Requests :
       req[r].pc = "persisting" /\ req'[r].pc = "decide" =>
         \A k \in DOMAIN entries :
           ~Expired(entries[k], now) => k \in DOMAIN entries']_vars

-----------------------------------------------------------------------------
(***************************************************************************)
(* The inductive invariant behind these properties.  It follows a view     *)
(* from identity-service's answer through the write to Postgres and the    *)
(* cache to the decision, and bounds its age at each station.              *)
(***************************************************************************)
ViewWithin(view, s, t) ==
  /\ view.ver \in 1 .. Version(hist[view.hid])
  /\ view.userId \in hist[view.hid][view.ver].members
  /\ CurrentSince(hist[view.hid], view.ver, t)
  /\ endedAt[s] = Never \/ endedAt[s] >= t

NotOutdated(view) == view.ver < known[view.userId][view.hid] => view.raced

TimingInv(r) ==
  /\ req[r].pc \in {"introspecting", "answered"}
       => req[r].at <= now /\ now <= req[r].at + UpstreamTimeout
  /\ req[r].pc = "persisting" => req[r].at <= now /\ now <= req[r].at + StoreDelay
  /\ Decided(r) => req[r].viewAt <= now

ViewInv(r) ==
  /\ req[r].view.hid = req[r].hid /\ req[r].view.userId = UserAt(r)
  /\ req[r].pc = "answered" /\ req[r].reply = "ok" =>
       ViewWithin(req[r].view, req[r].session, req[r].at) /\ NotOutdated(req[r].view)
  /\ req[r].pc = "persisting" =>
       /\ ViewWithin(req[r].view, req[r].session, req[r].at - UpstreamTimeout)
       /\ NotOutdated(req[r].view)
  /\ Decided(r) => ViewWithin(req[r].view, req[r].session, req[r].viewAt - MaxAge)

GatewayInv(r) ==
  LET h == hist[req[r].hid]
  IN  /\ req[r].pc # "idle" => req[r].start \in 1 .. Version(h)
      /\ req[r].pc \in {"routing", "tokenSent", "tokenAnswered"} =>
           Allows(h[req[r].view.ver], UserAt(r), req[r].app)
      /\ req[r].pc = "tokenAnswered" /\ req[r].reply = "refused" =>
           req[r].view.ver < Version(h)
      /\ \/ req[r].pc = "tokenAnswered" /\ req[r].reply = "ok"
         \/ req[r].pc = "done" /\ req[r].reply = "forwarded"
         => \E v \in req[r].start .. Version(h) : Allows(h[v], UserAt(r), req[r].app)
      /\ req[r].pc = "done" /\ req[r].reply \in {"not_installed", "no_grant"} =>
           ~Allows(h[req[r].view.ver], UserAt(r), req[r].app)

EntryInv(k) ==
  LET e == entries[k]
  IN  /\ e.value.hid = k[2] /\ e.value.userId = UserOf[k[1]]
      /\ e.expiresAt <= now + Ttl
      /\ ViewWithin(e.value, k[1], e.expiresAt - MaxAge)
      /\ NotOutdated(e.value)

ToldInv ==
  /\ \A m \in webhooks : m.ver <= Version(hist[m.scope.hid])
  /\ \A u \in Users, h \in Households : known[u][h] <= Version(hist[h])

Inv ==
  /\ \A r \in Requests : TimingInv(r) /\ ViewInv(r) /\ GatewayInv(r)
  /\ \A k \in DOMAIN entries : EntryInv(k)
  /\ ToldInv
=============================================================================
