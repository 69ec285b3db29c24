----------------------------- MODULE BffSessions ----------------------------
(***************************************************************************)
(* The BFF's sessions: the rows of bff_sessions and login_challenges, the  *)
(* browser's two cookies, and the identity-service sessions behind them.   *)
(*                                                                         *)
(* One browser sends requests that overlap; each is a sequence of steps    *)
(* cut where the code awaits:                                              *)
(*                                                                         *)
(*  signIn ----------------> establishing -> creating -> done   login      *)
(*  finding -> verifying ->  establishing -> creating -> done   verify     *)
(*  finding -> signingOut ------------------------------> done  logout     *)
(*  finding -> syncing -> persisting -> marking --------> done  me         *)
(*      |         `------------------------|                               *)
(*      `-------------> running <----------'                    api,       *)
(*                         `-> calling -> storing ------> done  passthrough*)
(*                                |-> checking ---------> done             *)
(*                                                                         *)
(* identity-service's cookies are abstracted to the session they open: the *)
(* i-th it ever created.  A call that "rotates" replaces the session by a  *)
(* new one and returns that one's cookie, as turning on two-factor does.   *)
(***************************************************************************)
EXTENDS Integers, Sequences, Functions

CONSTANTS Requests,         \* slots for requests in flight
          Rotating,         \* the calls that may rotate the session
          SyncEvery,        \* TTL.sessionSyncMs
          UpstreamTimeout,  \* TTL.upstreamTimeoutMs
          StoreDelay,       \* the longest an INSERT takes
          ChallengeLife,    \* TTL.loginChallengeMs
          Life,             \* how long identity-service lets a session live
          MaxIdentity,      \* bound: sessions identity-service creates
          MaxSent,          \* bound: requests the browser sends
          Horizon           \* bound: how far time goes

None  == 0    \* no cookie, no session
Keep  == -1   \* a response without Set-Cookie
Never == -1   \* not revoked

GetSession == {"syncing", "checking", "establishing"}
Calls == GetSession \cup {"signIn", "verifying", "signingOut", "calling"}

ASSUME SessionsAssumption ==
  /\ Rotating \subseteq {"syncing", "calling"}
  /\ SyncEvery \in Nat \ {0} /\ UpstreamTimeout \in Nat /\ StoreDelay \in Nat
  /\ ChallengeLife \in Nat /\ Life \in Nat
  /\ MaxIdentity \in Nat /\ MaxSent \in Nat /\ Horizon \in Nat

VARIABLES
  now,         \* Date.now()
  ident,       \* identity-service: its sessions, in the order of their creation
  rows,        \* bff_sessions, by session id
  challenges,  \* login_challenges, by challenge id
  issued,      \* how many session and challenge ids were generated
  browser,     \* __Host-session and __Host-login
  req,         \* the requests in flight
  sent,        \* how many there were
  loggedOut    \* the sessions whose logout was carried out

vars == <<now, ident, rows, challenges, issued, browser, req, sent, loggedOut>>

IdentitySession == [pending   : BOOLEAN,  \* the second factor is still due
                    expires   : Nat,
                    revokedAt : Nat \cup {Never}]

Row == [cookie : Nat, expires : Nat, synced : Nat]

Challenge == [cookie : Nat, expires : Nat]

Kinds == {"login", "verify", "logout", "me", "api", "passthrough"}

Phases == Calls \cup {"idle", "finding", "persisting", "marking", "running",
                      "storing", "creating", "done"}

AnswerKinds == {"none", "ok", "two_factor", "refused", "unauthenticated", "unavailable"}

Answer == [kind : AnswerKinds, cookie : Nat, expires : Nat]

Request ==
  [pc         : Phases,
   kind       : Kinds,
   id         : Nat,                        \* the cookie it was sent with
   cookie     : Nat,                        \* identity-service's, as it was given it
   at         : Nat,                        \* when it was admitted, or its call began
   answer     : Answer,                     \* of the call it waits for
   cut        : BOOLEAN,                    \* that answer's body was cut off
   unsynced   : BOOLEAN,                    \* identity-service could not be asked
   setSession : Nat \cup {Keep},            \* its Set-Cookie headers
   setLogin   : Nat \cup {Keep}]

WellTyped ==
  /\ now \in Nat
  /\ ident \in Seq(IdentitySession)
  /\ DOMAIN rows \subseteq 1 .. issued
  /\ \A id \in DOMAIN rows : rows[id] \in Row
  /\ DOMAIN challenges \subseteq 1 .. issued
  /\ \A id \in DOMAIN challenges : challenges[id] \in Challenge
  /\ issued \in Nat
  /\ browser \in [session : Nat, login : Nat]
  /\ req \in [Requests -> Request]
  /\ sent \in Nat
  /\ loggedOut \subseteq 1 .. issued

\* What is stored as a cookie is one identity-service gave out.
TypeOK ==
  /\ WellTyped
  /\ \A id \in DOMAIN rows : rows[id].cookie \in DOMAIN ident
  /\ \A id \in DOMAIN challenges : challenges[id].cookie \in DOMAIN ident

NoAnswer == [kind |-> "none", cookie |-> None, expires |-> 0]

FreeSlot == [pc |-> "idle", kind |-> "me", id |-> None,
             cookie |-> None, at |-> 0,
             answer |-> NoAnswer, cut |-> FALSE, unsynced |-> FALSE,
             setSession |-> Keep, setLogin |-> Keep]

Init ==
  /\ now = 0
  /\ ident = <<>>
  /\ rows = <<>>
  /\ challenges = <<>>
  /\ issued = 0
  /\ browser = [session |-> None, login |-> None]
  /\ req = [r \in Requests |-> FreeSlot]
  /\ sent = 0
  /\ loggedOut = {}

-----------------------------------------------------------------------------
(* identity-service, an external actor.                                    *)

Live(i) == ident[i].revokedAt = Never /\ now < ident[i].expires

Authenticated(i) == i \in DOMAIN ident /\ Live(i) /\ ~ident[i].pending

Granted == now + Life

NewIdentity(pending) == [pending |-> pending, expires |-> Granted, revokedAt |-> Never]

Rotated(i) == Append([ident EXCEPT ![i].revokedAt = now], NewIdentity(FALSE))

Asked(r) == req[r].cookie

Waits(r) == req[r].pc \in Calls /\ req[r].answer.kind = "none"

Answered(r, kind, cookie, expires) ==
  req' = [req EXCEPT ![r].answer = [kind |-> kind, cookie |-> cookie, expires |-> expires]]

Refuse(r, kind) == ident' = ident /\ Answered(r, kind, None, 0)

MayRotate(r) == req[r].pc \in Rotating /\ Len(ident) < MaxIdentity

Rotate(r) ==
  /\ MayRotate(r)
  /\ ident' = Rotated(Asked(r))
  /\ Answered(r, "ok", Len(ident) + 1, Granted)

AnswerGetSession(r) ==
  /\ req[r].pc \in GetSession
  /\ IF Authenticated(Asked(r))
       THEN \/ \E e \in {ident[Asked(r)].expires, Granted} :
                 /\ ident' = [ident EXCEPT ![Asked(r)].expires = e]
                 /\ Answered(r, "ok", Asked(r), e)
            \/ Rotate(r)
       ELSE Refuse(r, "unauthenticated")

\* The person revokes this very session; the cookie is cleared.
EndOwnSession(r) ==
  /\ ident' = [ident EXCEPT ![Asked(r)].revokedAt = now]
  /\ Answered(r, "ok", None, 0)

\* An introspection, a token or a call passed through; the latter may be
\* refused with a 401 of its own.
AnswerCall(r) ==
  /\ req[r].pc = "calling"
  /\ IF Authenticated(Asked(r))
       THEN \/ ident' = ident /\ Answered(r, "ok", Asked(r), 0)
            \/ Rotate(r)
            \/ Refuse(r, "refused")
            \/ /\ req[r].kind = "passthrough"
               /\ Refuse(r, "unauthenticated") \/ EndOwnSession(r)
       ELSE Refuse(r, "unauthenticated")

AnswerSignIn(r) ==
  /\ req[r].pc = "signIn"
  /\ \/ /\ Len(ident) < MaxIdentity
        /\ \E second \in BOOLEAN :
             /\ ident' = Append(ident, NewIdentity(second))
             /\ Answered(r, IF second THEN "two_factor" ELSE "ok", Len(ident) + 1, 0)
     \/ Refuse(r, "unauthenticated")

AnswerVerify(r) ==
  /\ req[r].pc = "verifying"
  /\ \/ /\ Live(Asked(r)) /\ ident[Asked(r)].pending
        /\ ident' = [ident EXCEPT ![Asked(r)] = NewIdentity(FALSE)]
        /\ Answered(r, "ok", Asked(r), 0)
     \/ Refuse(r, "unauthenticated")

AnswerSignOut(r) ==
  /\ req[r].pc = "signingOut"
  /\ ident' = IF Live(Asked(r)) THEN [ident EXCEPT ![Asked(r)].revokedAt = now] ELSE ident
  /\ Answered(r, "ok", None, 0)

IdentityAnswers(r) ==
  /\ Waits(r)
  /\ AnswerGetSession(r) \/ AnswerCall(r) \/ AnswerSignIn(r) \/ AnswerVerify(r) \/ AnswerSignOut(r)
  /\ UNCHANGED <<now, rows, challenges, issued, browser, sent, loggedOut>>

\* A logout elsewhere, a revoked device.
Revoke(i) ==
  /\ Live(i)
  /\ ident' = [ident EXCEPT ![i].revokedAt = now]
  /\ UNCHANGED <<now, rows, challenges, issued, browser, req, sent, loggedOut>>

(***************************************************************************)
(* A call fails on its way, before or after identity-service acted on it:  *)
(* a network error, the timeout, a 5xx.                                    *)
(***************************************************************************)
UpstreamFails(r) ==
  /\ req[r].pc \in Calls
  /\ req[r].answer.kind # "unavailable"
  /\ req' = [req EXCEPT ![r].answer = [NoAnswer EXCEPT !.kind = "unavailable"],
                        ![r].cut = FALSE]
  /\ UNCHANGED <<now, ident, rows, challenges, issued, browser, sent, loggedOut>>

(***************************************************************************)
(* The timeout also ends the reading of a body.  readJson makes that null, *)
(* and null is what get-session answers when there is no session.          *)
(***************************************************************************)
BodyCutOff(r) ==
  /\ req[r].pc \in GetSession
  /\ req[r].answer.kind = "ok"
  /\ req' = [req EXCEPT ![r].answer = [NoAnswer EXCEPT !.kind = "unauthenticated"],
                        ![r].cut = TRUE]
  /\ UNCHANGED <<now, ident, rows, challenges, issued, browser, sent, loggedOut>>

-----------------------------------------------------------------------------
(* Steps of a request in the BFF.                                          *)

Reply(r, setSession) ==
  req' = [req EXCEPT ![r] = [FreeSlot EXCEPT !.pc = "done", !.setSession = setSession,
                                             !.setLogin = req[r].setLogin]]

\* The browser sends its cookies along; signing in needs none.
Send(r, kind) ==
  /\ req[r].pc = "idle"
  /\ sent < MaxSent
  /\ sent' = sent + 1
  /\ req' = [req EXCEPT ![r].kind = kind,
                        ![r].pc = IF kind = "login" THEN "signIn" ELSE "finding",
                        ![r].at = IF kind = "login" THEN now ELSE 0,
                        ![r].id = CASE kind = "login"  -> None
                                    [] kind = "verify" -> browser.login
                                    [] OTHER           -> browser.session]
  /\ UNCHANGED <<now, ident, rows, challenges, issued, browser, loggedOut>>

Unexpired(table, id) == id \in DOMAIN table /\ now < table[id].expires

\* Mutant: an active session is only looked at when it is about to expire.
SyncDueAtTheEnd(id) == now + 1 >= rows[id].expires /\ now - rows[id].synced > SyncEvery

SyncDue(id) == now - rows[id].synced >= SyncEvery

(***************************************************************************)
(* findSession finds a row: requireSession, then keepSessionAlive on the   *)
(* routes that have it; logout looks the row up itself.                    *)
(***************************************************************************)
Admit(r) ==
  LET id == req[r].id
  IN  /\ req[r].pc = "finding" /\ req[r].kind # "verify"
      /\ Unexpired(rows, id)
      /\ req' = [req EXCEPT
           ![r].cookie = rows[id].cookie,
           ![r].at = now,
           ![r].pc = CASE req[r].kind = "logout"              -> "signingOut"
                       [] req[r].kind = "me" \/ SyncDue(id)   -> "syncing"
                       [] OTHER                               -> "running"]
      /\ UNCHANGED <<now, ident, rows, challenges, issued, browser, sent, loggedOut>>

\* No live row: 401, and a cookie that names none is cleared.
TurnAway(r) ==
  /\ req[r].pc = "finding" /\ req[r].kind # "verify"
  /\ ~Unexpired(rows, req[r].id)
  /\ Reply(r, IF req[r].id # None \/ req[r].kind = "logout" THEN None ELSE Keep)
  /\ UNCHANGED <<now, ident, rows, challenges, issued, browser, sent, loggedOut>>

-----------------------------------------------------------------------------
(* syncSession, in /auth/me and in keepSessionAlive.                       *)

\* persistIdentityCookie: only when the call returned a cookie, and another one
\* than the request had been given; without the row the UPDATE hits nothing.
StoreCookie(r) ==
  IF /\ req[r].answer.cookie # None
     /\ req[r].answer.cookie # Asked(r)
     /\ req[r].id \in DOMAIN rows
    THEN [rows EXCEPT ![req[r].id].cookie = req[r].answer.cookie]
    ELSE rows

\* Mutant: the row is written whether it still exists or not.
UpsertRow(r) ==
  [id \in DOMAIN rows \cup {req[r].id} |->
     IF id = req[r].id THEN [cookie |-> req[r].answer.cookie, expires |-> req[r].answer.expires,
                             synced |-> req[r].at]
                       ELSE rows[id]]

\* Mutant: an expiry of the BFF's own.
MarkWithOwnExpiry(r) ==
  IF req[r].id \in DOMAIN rows
    THEN [rows EXCEPT ![req[r].id].expires = now + Life, ![req[r].id].synced = req[r].at]
    ELSE rows

\* markSynced, with the expiry of the answer and the time before the call.
MarkedRow(r) ==
  IF req[r].id \in DOMAIN rows
    THEN [rows EXCEPT ![req[r].id].expires = req[r].answer.expires,
                      ![req[r].id].synced = req[r].at]
    ELSE rows

SyncArrives(r) ==
  /\ req[r].pc = "syncing" /\ req[r].answer.kind = "ok"
  /\ req' = [req EXCEPT ![r].pc = "persisting"]
  /\ UNCHANGED <<now, ident, rows, challenges, issued, browser, sent, loggedOut>>

PersistSynced(r) ==
  /\ req[r].pc = "persisting"
  /\ rows' = StoreCookie(r)
  /\ req' = [req EXCEPT ![r].pc = "marking"]
  /\ UNCHANGED <<now, ident, challenges, issued, browser, sent, loggedOut>>

\* The browser's cookie slides along; the handler goes on with the new cookie.
MarkSynced(r) ==
  /\ req[r].pc = "marking"
  /\ rows' = MarkedRow(r)
  /\ IF req[r].kind = "me"
       THEN Reply(r, req[r].id)
       ELSE req' = [req EXCEPT ![r].pc = "running", ![r].answer = NoAnswer,
                               ![r].cookie = req[r].answer.cookie,
                               ![r].setSession = req[r].id]
  /\ UNCHANGED <<now, ident, challenges, issued, browser, sent, loggedOut>>

\* identity-service being down does not log anyone out.
SyncUnavailable(r) ==
  /\ req[r].pc = "syncing" /\ req[r].answer.kind = "unavailable"
  /\ IF req[r].kind = "me"
       THEN Reply(r, Keep)
       ELSE req' = [req EXCEPT ![r].pc = "running", ![r].answer = NoAnswer,
                               ![r].unsynced = TRUE]
  /\ UNCHANGED <<now, ident, rows, challenges, issued, browser, sent, loggedOut>>

\* Mutant: whatever goes wrong ends the session.
EndSessionOnFailure(r) ==
  /\ \/ req[r].pc \in {"syncing", "checking"}
     \/ req[r].pc = "calling" /\ req[r].kind = "api"
  /\ req[r].answer.kind \in {"unauthenticated", "unavailable"}
  /\ rows' = Restrict(rows, DOMAIN rows \ {req[r].id})
  /\ Reply(r, None)
  /\ UNCHANGED <<now, ident, challenges, issued, browser, sent, loggedOut>>

\* endSession; for a call passed through only after get-session agreed.
EndSession(r) ==
  /\ \/ req[r].pc \in {"syncing", "checking"}
     \/ req[r].pc = "calling" /\ req[r].kind = "api"
  /\ req[r].answer.kind = "unauthenticated"
  /\ rows' = Restrict(rows, DOMAIN rows \ {req[r].id})
  /\ Reply(r, None)
  /\ UNCHANGED <<now, ident, challenges, issued, browser, sent, loggedOut>>

-----------------------------------------------------------------------------
(* The handlers behind keepSessionAlive.                                   *)

\* A cached introspection, an event stream, a path that is not allowed.
ServeAlone(r) ==
  /\ req[r].pc = "running"
  /\ Reply(r, req[r].setSession)
  /\ UNCHANGED <<now, ident, rows, challenges, issued, browser, sent, loggedOut>>

Call(r) ==
  /\ req[r].pc = "running"
  /\ req' = [req EXCEPT ![r].pc = "calling", ![r].at = now]
  /\ UNCHANGED <<now, ident, rows, challenges, issued, browser, sent, loggedOut>>

CallArrives(r) ==
  /\ req[r].pc = "calling" /\ req[r].answer.kind = "ok"
  /\ req' = [req EXCEPT ![r].pc = "storing", ![r].at = 0]
  /\ UNCHANGED <<now, ident, rows, challenges, issued, browser, sent, loggedOut>>

PersistCalled(r) ==
  /\ req[r].pc = "storing"
  /\ rows' = StoreCookie(r)
  /\ Reply(r, req[r].setSession)
  /\ UNCHANGED <<now, ident, challenges, issued, browser, sent, loggedOut>>

CallFails(r) ==
  /\ req[r].pc = "calling" /\ req[r].answer.kind \in {"refused", "unavailable"}
  /\ Reply(r, req[r].setSession)
  /\ UNCHANGED <<now, ident, rows, challenges, issued, browser, sent, loggedOut>>

\* A 401 may be about the call itself: get-session is asked.
Check(r) ==
  /\ req[r].pc = "calling" /\ req[r].kind = "passthrough"
  /\ req[r].answer.kind = "unauthenticated"
  /\ req' = [req EXCEPT ![r].pc = "checking", ![r].at = now, ![r].answer = NoAnswer]
  /\ UNCHANGED <<now, ident, rows, challenges, issued, browser, sent, loggedOut>>

\* The session is alive, or nobody knows: the first answer goes out.
PassRefusal(r) ==
  /\ req[r].pc = "checking" /\ req[r].answer.kind \in {"ok", "unavailable"}
  /\ Reply(r, req[r].setSession)
  /\ UNCHANGED <<now, ident, rows, challenges, issued, browser, sent, loggedOut>>

-----------------------------------------------------------------------------
(* Signing in: completeAuthentication and establishSession.                *)

AuthenticationFails(r) ==
  /\ req[r].pc \in {"signIn", "verifying", "establishing"}
  /\ req[r].answer.kind \in {"unauthenticated", "unavailable"}
  /\ Reply(r, Keep)
  /\ UNCHANGED <<now, ident, rows, challenges, issued, browser, sent, loggedOut>>

WithEntry(table, id, entry) ==
  [k \in DOMAIN table \cup {id} |-> IF k = id THEN entry ELSE table[k]]

StartSecondFactor(r) ==
  /\ req[r].pc = "signIn" /\ req[r].answer.kind = "two_factor"
  /\ issued' = issued + 1
  /\ challenges' = WithEntry(challenges, issued', [cookie  |-> req[r].answer.cookie,
                                                   expires |-> now + ChallengeLife])
  /\ req' = [req EXCEPT ![r] = [FreeSlot EXCEPT !.pc = "done", !.setLogin = issued']]
  /\ UNCHANGED <<now, ident, rows, browser, sent, loggedOut>>

FindChallenge(r) ==
  /\ req[r].pc = "finding" /\ req[r].kind = "verify"
  /\ IF Unexpired(challenges, req[r].id)
       THEN req' = [req EXCEPT ![r].pc = "verifying", ![r].at = now,
                               ![r].cookie = challenges[req[r].id].cookie]
       ELSE req' = [req EXCEPT ![r] = [FreeSlot EXCEPT !.pc = "done", !.setLogin = None]]
  /\ UNCHANGED <<now, ident, rows, challenges, issued, browser, sent, loggedOut>>

\* A first factor that is enough, or a code that was accepted: then the
\* challenge is deleted before the session is established.
Establish(r) ==
  /\ req[r].pc \in {"signIn", "verifying"} /\ req[r].answer.kind = "ok"
  /\ challenges' = IF req[r].kind = "verify"
                     THEN Restrict(challenges, DOMAIN challenges \ {req[r].id})
                     ELSE challenges
  /\ req' = [req EXCEPT ![r].pc = "establishing", ![r].at = now, ![r].answer = NoAnswer,
                        ![r].cookie = req[r].answer.cookie,
                        ![r].setLogin = IF req[r].kind = "verify" THEN None ELSE Keep]
  /\ UNCHANGED <<now, ident, rows, issued, browser, sent, loggedOut>>

EstablishArrives(r) ==
  /\ req[r].pc = "establishing" /\ req[r].answer.kind = "ok"
  /\ req' = [req EXCEPT ![r].pc = "creating", ![r].at = now]
  /\ UNCHANGED <<now, ident, rows, challenges, issued, browser, sent, loggedOut>>

\* createSession; synced_at is the database's now().
CreateSession(r) ==
  /\ req[r].pc = "creating"
  /\ issued' = issued + 1
  /\ rows' = WithEntry(rows, issued', [cookie  |-> req[r].answer.cookie,
                                       expires |-> req[r].answer.expires,
                                       synced  |-> now])
  /\ Reply(r, issued')
  /\ UNCHANGED <<now, ident, challenges, browser, sent, loggedOut>>

-----------------------------------------------------------------------------
(***************************************************************************)
(* Logout, once identity-service signed out, refused to or could not be    *)
(* reached.                                                                *)
(***************************************************************************)
DeleteForLogout(r) ==
  /\ req[r].pc = "signingOut" /\ req[r].answer.kind # "none"
  /\ rows' = Restrict(rows, DOMAIN rows \ {req[r].id})
  /\ loggedOut' = loggedOut \cup {req[r].id}
  /\ Reply(r, None)
  /\ UNCHANGED <<now, ident, challenges, issued, browser, sent>>

(***************************************************************************)
(* Postgres throws: 500, with the Set-Cookie headers there were.           *)
(***************************************************************************)
AtStore(r) ==
  \/ req[r].pc \in {"finding", "persisting", "marking", "storing", "creating"}
  \/ /\ req[r].pc = "signingOut" /\ req[r].answer.kind # "none"
  \/ /\ req[r].pc \in {"syncing", "checking", "calling"}
     /\ req[r].answer.kind = "unauthenticated"
  \/ req[r].pc = "verifying" /\ req[r].answer.kind = "ok"
  \/ req[r].pc = "signIn" /\ req[r].answer.kind = "two_factor"

StoreThrows(r) ==
  /\ AtStore(r)
  /\ Reply(r, req[r].setSession)
  /\ UNCHANGED <<now, ident, rows, challenges, issued, browser, sent, loggedOut>>

\* The response reaches the browser, or the connection is lost first.
Receive(r, arrives) ==
  /\ req[r].pc = "done"
  /\ browser' = IF arrives
                  THEN [session |-> IF req[r].setSession = Keep THEN browser.session
                                                                ELSE req[r].setSession,
                        login   |-> IF req[r].setLogin = Keep THEN browser.login
                                                              ELSE req[r].setLogin]
                  ELSE browser
  /\ req' = [req EXCEPT ![r] = FreeSlot]
  /\ UNCHANGED <<now, ident, rows, challenges, issued, sent, loggedOut>>

-----------------------------------------------------------------------------
(***************************************************************************)
(* The hourly sweep; its second DELETE may fail when the first did not.    *)
(***************************************************************************)
Sweep(both) ==
  LET unexpired(table) == Restrict(table, {id \in DOMAIN table : now < table[id].expires})
  IN  /\ rows' = unexpired(rows)
      /\ challenges' = IF both THEN unexpired(challenges) ELSE challenges
      /\ UNCHANGED <<now, ident, issued, browser, req, sent, loggedOut>>

\* The process restarts: requests are gone, the tables are not.
Restart ==
  /\ req' = [r \in Requests |-> FreeSlot]
  /\ UNCHANGED <<now, ident, rows, challenges, issued, browser, sent, loggedOut>>

(***************************************************************************)
(* Time passes, but not beyond the moment a pending call times out or an   *)
(* INSERT must have ended.                                                 *)
(***************************************************************************)
MayWait(r) ==
  /\ req[r].pc \in Calls => now < req[r].at + UpstreamTimeout
  /\ req[r].pc = "creating" => now < req[r].at + StoreDelay

Tick ==
  /\ now < Horizon
  /\ \A r \in Requests : MayWait(r)
  /\ now' = now + 1
  /\ UNCHANGED <<ident, rows, challenges, issued, browser, req, sent, loggedOut>>

CallStep(r) == IdentityAnswers(r) \/ UpstreamFails(r) \/ BodyCutOff(r)

BffStep(r) ==
  \/ Admit(r) \/ TurnAway(r) \/ FindChallenge(r)
  \/ SyncArrives(r) \/ PersistSynced(r) \/ MarkSynced(r) \/ SyncUnavailable(r)
  \/ EndSession(r) \/ ServeAlone(r) \/ Call(r) \/ CallArrives(r) \/ PersistCalled(r)
  \/ CallFails(r) \/ Check(r) \/ PassRefusal(r)
  \/ AuthenticationFails(r) \/ StartSecondFactor(r) \/ Establish(r)
  \/ EstablishArrives(r) \/ CreateSession(r) \/ DeleteForLogout(r) \/ StoreThrows(r)
  \/ \E arrives \in BOOLEAN : Receive(r, arrives)

Next ==
  \/ \E r \in Requests, kind \in Kinds : Send(r, kind)
  \/ \E r \in Requests : CallStep(r) \/ BffStep(r)
  \/ \E i \in DOMAIN ident : Revoke(i)
  \/ \E both \in BOOLEAN : Sweep(both)
  \/ Restart
  \/ Tick

Spec == Init /\ [][Next]_vars

-----------------------------------------------------------------------------
(* Properties.                                                             *)

LiveSince(i, t) ==
  /\ t < ident[i].expires
  /\ ident[i].revokedAt = Never \/ t <= ident[i].revokedAt

\* The longest the BFF goes by an old answer of identity-service: from the
\* reading of get-session through the INSERT to the next sync.
MaxTrust == UpstreamTimeout + StoreDelay + SyncEvery

(***************************************************************************)
(* A revoked session is cut off even on routes that never ask              *)
(* identity-service: unless that could not be reached, a request gets to   *)
(* its handler only with an identity session that was alive less than      *)
(* MaxTrust ago, whatever other requests of the session write meanwhile.   *)
(***************************************************************************)
RevokedIsCutOff ==
  \A r \in Requests : req[r].pc = "running" /\ ~req[r].unsynced =>
    LiveSince(Asked(r), req[r].at - MaxTrust + 1)

(***************************************************************************)
(* Logging out is final, with identity-service down as well: nothing that  *)
(* was on its way - a sync, another call's cookie - brings the row back.   *)
(***************************************************************************)
LogoutIsFinal == loggedOut \cap DOMAIN rows = {}

(***************************************************************************)
(* The BFF's session never outlives what identity-service granted, in      *)
(* whatever order syncs and rotations are written.                         *)
(***************************************************************************)
NeverOutlives ==
  \A id \in DOMAIN rows : rows[id].expires <= ident[rows[id].cookie].expires

Removed(id) == id \in DOMAIN rows \ DOMAIN rows'

\* It is r's step that removes the row of r.
Ends(r, id) == req[r].id = id /\ req[r].pc # "done" /\ req'[r].pc = "done"

Dead(id) == now >= rows[id].expires \/ ~Live(rows[id].cookie)

(***************************************************************************)
(* Nobody is logged out in vain: a row goes when the person logged out or  *)
(* its identity session is over.  The code has two exceptions: the answer  *)
(* to get-session was cut off, or another request had the cookie rotated   *)
(* since this one was given it.                                            *)
(***************************************************************************)
EndedForAReason ==
  [][\A id \in DOMAIN rows : Removed(id) =>
       \/ Dead(id)
       \/ id \in loggedOut'
       \/ \E r \in Requests : /\ Ends(r, id)
                              /\ req[r].cut \/ Asked(r) # rows[id].cookie]_vars
=============================================================================
