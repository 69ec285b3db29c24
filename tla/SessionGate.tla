----------------------------- MODULE SessionGate -----------------------------
(***************************************************************************)
(* Who is signed in, as the shell's tab sees it: SessionGate               *)
(* (apps/host/src/session), its calls to the BFF (sessionApi, bffClient)   *)
(* and the address, which the redirect rules move after every change of    *)
(* either.  The answers come in any order; a call takes the session of the *)
(* cookie it was sent with, and the BFF decides it at once.                *)
(***************************************************************************)
EXTENDS Naturals, FiniteSets, Routes

CONSTANTS Destinations,   \* bound: addresses the person goes to
          Homes,          \* the household the person may have
          MaxSessions,    \* bound: sessions the BFF makes
          MaxMoves,       \* bound: what the person does with the address
          MaxAtOnce,      \* bound: calls under way at once
          MaxFaults       \* bound: lost answers and sessions ended elsewhere

Segments == [hid : Hids, slug : Slugs, encoded : BOOLEAN]

\* Addresses as links carry them: the household's segment where the route has
\* one, and no _from, which only the rules write.
Links ==
  { a \in [path : { e.path : e \in RouteTree }, segment : Segments \cup {None}, from : {None}] :
      RouteOf(a).kind = "space" <=> a.segment # None }

Answers == {"ok", "twoFactor", "unauthenticated", "failed", "error", "appRefuses"}

Reasons == {"initial", "expired", "logout"}

ASSUME GateAssumption ==
  /\ Homes \in Seq([hid : Hids, slug : Slugs]) /\ Homes # <<>>
  /\ Destinations \subseteq Links
  /\ None \notin Segments \cup Links \cup Answers \cup Reasons
  /\ {MaxSessions, MaxMoves, MaxAtOnce, MaxFaults} \subseteq Nat /\ MaxSessions > 0

MaxHops == 4

VARIABLES
  gate,       \* SessionState
  address,    \* the history's location
  call,       \* the calls under way, one of each kind
  cookie,     \* the session of the browser's cookie, 0 for none
  alive,      \* the sessions the BFF knows
  ended,      \* those that ended without the person's logout here
  households, \* what identity-service lists
  sessions, moves, faults,   \* used up of their bounds
  hops,       \* redirects since something else changed, counted up to MaxHops
  left,       \* the address the session expired at
  overtaken,  \* the gate left the session while its logout was under way
  doubt       \* answers that came late, or were lost

bff == <<cookie, alive, ended, households, sessions>>
vars == <<gate, address, call, bff, moves, faults, hops, left, overtaken, doubt>>

(***************************************************************************)
(* me is restore's; api stands for the calls of the shell and its apps.    *)
(* restore and the three that authenticate go on to enter, which lists the *)
(* households before it signs in: they are listing until that is answered. *)
(***************************************************************************)
Calls == {"me", "login", "signUp", "verify", "logout", "create", "api"}

Authenticating == {"login", "signUp", "verify"}

Gate(kind, reason, homes) == [kind |-> kind, reason |-> reason, households |-> homes]

Checking == Gate("checking", None, <<>>)
Unavailable == Gate("unavailable", None, <<>>)
TwoFactor == Gate("two-factor", None, <<>>)
GateOut(reason) == Gate("signed-out", reason, <<>>)
GateIn(homes) == Gate("signed-in", None, homes)

Idle == [at |-> "idle", session |-> 0, answer |-> None]
Sent(session) == [at |-> "sent", session |-> session, answer |-> None]
Listing(session) == [at |-> "listing", session |-> session, answer |-> None]

Households == {<<>>, Homes}

\* Something the gate did not see coming, by what it was.
Doubts == {"lost answer", "late answer"}

TypeOK ==
  /\ gate \in [kind : {"checking", "unavailable", "two-factor", "signed-out", "signed-in"},
               reason : Reasons \cup {None}, households : Households]
  /\ gate.kind = "signed-out" <=> gate.reason # None
  /\ gate.households # <<>> => gate.kind = "signed-in"
  /\ address.path \in { e.path : e \in RouteTree }
  /\ call \in [Calls -> [at : {"idle", "sent", "answered", "listing", "listed"}, session : 0 .. MaxSessions,
                         answer : Answers \cup {None}]]
  /\ \A c \in Calls : call[c].at \in {"answered", "listed"} <=> call[c].answer # None
  /\ cookie \in 0 .. sessions /\ alive \subseteq 1 .. sessions /\ ended \subseteq 1 .. sessions
  /\ households \in Households
  /\ sessions \in 1 .. MaxSessions /\ moves \in 0 .. MaxMoves /\ faults \in 0 .. MaxFaults
  /\ hops \in 0 .. MaxHops
  /\ left = None \/ left.path \in { e.path : e \in RouteTree }
  /\ overtaken \in BOOLEAN /\ doubt \subseteq Doubts

Session ==
  CASE gate.kind = "signed-out" -> SignedOut(gate.reason # "logout")
    [] gate.kind = "signed-in" -> SignedIn(gate.households)
    [] OTHER -> Pending

Redirect == decideRouteRedirect(address, Session)

\* The first render: restore() asks for the person of the cookie.
Init ==
  /\ gate = Checking
  /\ address \in Destinations
  /\ cookie \in {0, 1} /\ alive = {cookie} \ {0} /\ ended = {}
  /\ call = [c \in Calls |-> IF c = "me" THEN Sent(cookie) ELSE Idle]
  /\ households \in Households
  /\ sessions = 1 /\ moves = 0 /\ faults = 0
  /\ hops = 0 /\ left = None /\ overtaken = FALSE /\ doubt = {}

-----------------------------------------------------------------------------
(* The address.                                                            *)

\* The root route's beforeLoad, with replace.
Redirects ==
  /\ Redirect # None
  /\ address' = Redirect /\ hops' = (IF hops < MaxHops THEN hops + 1 ELSE MaxHops)
  /\ UNCHANGED <<gate, call, bff, moves, faults, left, overtaken, doubt>>

\* A link, or Back and Forward: the tab stays.
PersonGoes(a) ==
  /\ moves < MaxMoves /\ moves' = moves + 1
  /\ a # address /\ address' = a /\ hops' = 0
  /\ left' = None
  /\ UNCHANGED <<gate, call, bff, faults, overtaken, doubt>>

\* From the sign-in page to the sign-up page and back, with _from.
PersonSwitchesForm ==
  /\ moves < MaxMoves /\ moves' = moves + 1
  /\ IsEntry(address) /\ Redirect = None
  /\ address' = [address EXCEPT !.path = IF @ = <<"login">> THEN <<"signup">> ELSE <<"login">>]
  /\ hops' = 0
  /\ UNCHANGED <<gate, call, bff, faults, left, overtaken, doubt>>

\* A new tab at the same address; the answers under way are nobody's.
Reloads ==
  /\ moves < MaxMoves /\ moves' = moves + 1
  /\ gate' = Checking
  /\ call' = [c \in Calls |-> IF c = "me" THEN Sent(cookie) ELSE Idle]
  /\ hops' = 0
  /\ doubt' = doubt \cup
       IF \E c \in Calls \ {"api"} : call[c].at # "idle" THEN {"lost answer"} ELSE {}
  /\ UNCHANGED <<address, bff, faults, left, overtaken>>

-----------------------------------------------------------------------------
(* The calls.                                                              *)

InFlight == { c \in Calls : call[c].at # "idle" }

(***************************************************************************)
(* A step that moves the gate while another call that can move it is still *)
(* under way: that answer comes late.                                      *)
(***************************************************************************)
Overlaps(c) ==
  doubt' = doubt \cup IF gate'.kind # gate.kind /\ InFlight \ {c, "logout", "api"} # {}
                      THEN {"late answer"} ELSE {}

Send(c) ==
  /\ c \notin InFlight /\ Cardinality(InFlight) < MaxAtOnce
  /\ call' = [call EXCEPT ![c] = Sent(cookie)]
  /\ UNCHANGED <<address, bff, moves, faults, left, overtaken, doubt>>

Shown(kind) == gate.kind = kind /\ Redirect = None

\* The sign-in and sign-up forms, each closed while its own answer is awaited.
SubmitsForm(c) ==
  /\ Shown("signed-out")
  /\ address.path = IF c = "login" THEN <<"login">> ELSE <<"signup">>
  /\ Send(c) /\ UNCHANGED <<gate, hops>>

SubmitsCode == Shown("two-factor") /\ Send("verify") /\ UNCHANGED <<gate, hops>>

\* TwoFactorPage's onCancel.
CancelsCode ==
  /\ Shown("two-factor")
  /\ gate' = GateOut("initial") /\ hops' = 0 /\ Overlaps("api")
  /\ UNCHANGED <<address, call, bff, moves, faults, left, overtaken>>

\* UnavailablePage's onRetry.
Retries == Shown("unavailable") /\ gate' = Checking /\ hops' = 0 /\ Send("me")

IsPublicPage == RouteOf(address).kind \in {"invite", "share"}

\* CreateHouseholdPage stands in for the page, except a public one.
CreatesHousehold ==
  /\ Shown("signed-in") /\ gate.households = <<>> /\ ~IsPublicPage
  /\ Send("create") /\ UNCHANGED <<gate, hops>>

\* The shell's menu, and the shell's and its apps' requests.
InShell == Shown("signed-in") /\ gate.households # <<>> /\ ~IsPublicPage

LogsOut == InShell /\ Send("logout") /\ UNCHANGED <<gate, hops>>

Requests == InShell /\ Send("api") /\ UNCHANGED <<gate, hops>>

-----------------------------------------------------------------------------
(* The BFF.                                                                *)

Answer(c, answer) ==
  call' = [call EXCEPT ![c].at = IF @ = "sent" THEN "answered" ELSE "listed",
                       ![c].answer = answer]

\* Sign-in and sign-up, and the second factor: a new session.
BffAuthenticates(c) ==
  \/ /\ sessions < MaxSessions /\ sessions' = sessions + 1
     /\ alive' = alive \cup {sessions + 1}
     /\ call' = [call EXCEPT ![c] = [at |-> "answered", session |-> sessions + 1,
                                     answer |-> "ok"]]
     /\ UNCHANGED <<cookie, ended, households>>
  \/ /\ \/ Answer(c, "failed")
        \/ c = "login" /\ Answer(c, "twoFactor")
        \/ c = "verify" /\ Answer(c, "unauthenticated")
     /\ UNCHANGED bff

\* Anything that needs a session; an app's own backend may refuse as it likes.
BffServes(c) ==
  /\ \/ call[c].session \in alive /\ Answer(c, "ok")
     \/ call[c].session \notin alive /\ Answer(c, "unauthenticated")
     \/ c = "api" /\ call[c].session \in alive /\ Answer(c, "appRefuses")
  /\ households' = IF c = "create" /\ call[c].session \in alive THEN Homes ELSE households
  /\ UNCHANGED <<cookie, alive, ended, sessions>>

BffLogsOut ==
  /\ alive' = alive \ {call["logout"].session}
  /\ Answer("logout", "ok")
  /\ UNCHANGED <<cookie, ended, households, sessions>>

BffAnswers(c) ==
  /\ call[c].at \in {"sent", "listing"}
  /\ CASE c = "logout" -> BffLogsOut
       [] c \in Authenticating /\ call[c].at = "sent" -> BffAuthenticates(c)
       [] OTHER -> BffServes(c)
  /\ UNCHANGED <<gate, address, moves, faults, hops, left, overtaken, doubt>>

\* A call is lost on its way there or back.
CallFails(c) ==
  /\ faults < MaxFaults /\ faults' = faults + 1
  /\ call[c].at # "idle" /\ call[c].answer # "error"
  /\ call' = [call EXCEPT ![c].answer = "error",
                          ![c].at = IF @ \in {"sent", "answered"} THEN "answered" ELSE "listed"]
  /\ doubt' = doubt \cup {"lost answer"}
  /\ UNCHANGED <<gate, address, bff, moves, hops, left, overtaken>>

\* Expiry, or a logout from another device.
SessionEnds(s) ==
  /\ faults < MaxFaults /\ faults' = faults + 1
  /\ s \in alive /\ alive' = alive \ {s} /\ ended' = ended \cup {s}
  /\ UNCHANGED <<gate, address, call, cookie, households, sessions, moves, hops, left, overtaken, doubt>>

-----------------------------------------------------------------------------
(* What the gate does with an answer.                                      *)

\* setState; left is the address at which a session expires.
Becomes(g) ==
  LET leaves == gate.kind = "signed-in" /\ g.kind # "signed-in"
  IN /\ gate' = g /\ hops' = 0
     /\ left' = CASE leaves /\ g.reason = "expired" -> address
                  [] g.reason = "logout" -> None
                  [] OTHER -> left
     /\ overtaken' = \/ overtaken
                     \/ leaves /\ g.reason # "logout" /\ call["logout"].at # "idle"

\* Mutant: an expiry is taken for what the person did.
signOutForGood(current) == IF current.kind = "signed-in" THEN GateOut("logout") ELSE current

\* Mutant: the households of the one who left stay.
signOutKeeping(current) ==
  IF current.kind = "signed-in"
  THEN [current EXCEPT !.kind = "signed-out", !.reason = "expired"]
  ELSE current

\* signOutLocally, from a 401 or from session.ended.
signOutLocally(current) == IF current.kind = "signed-in" THEN GateOut("expired") ELSE current

\* Mutant: a 401 of an app's own backend counts.
isUnauthenticatedAnywhere(answer) == answer \in {"unauthenticated", "appRefuses"}

\* toApiError: what an app's own backend answered is not the BFF's word.
isUnauthenticated(answer) == answer = "unauthenticated"

\* bffClient tells the gate of a 401 before the caller's own handler goes on.
Heard(answer) == IF isUnauthenticated(answer) THEN signOutLocally(gate) ELSE gate

Done(c) == [call EXCEPT ![c] = Idle]

\* The BFF's 401 to a call that came with a cookie clears it, whichever it is by now.
TakesCookie(c) ==
  cookie' = IF call[c].answer = "unauthenticated" /\ call[c].session # 0 THEN 0 ELSE cookie

\* enter(user) asks for the households before it signs in.
Enters(c, session) ==
  /\ call' = [call EXCEPT ![c] = Listing(session)]
  /\ cookie' = session

Stays == UNCHANGED <<gate, hops, left, overtaken>>

\* restore()
GetsPerson ==
  LET answer == call["me"].answer IN
  /\ \/ answer = "ok" /\ Enters("me", call["me"].session) /\ Stays
     \/ /\ answer = "unauthenticated"
        /\ call' = Done("me") /\ Becomes(GateOut("initial")) /\ TakesCookie("me")
     \/ /\ answer = "error"
        /\ call' = Done("me") /\ Becomes(Unavailable) /\ UNCHANGED cookie
  /\ Overlaps("me")

GetsHouseholds(c) ==
  /\ call' = Done(c) /\ TakesCookie(c)
  /\ Becomes(IF call[c].answer = "ok" THEN GateIn(households) ELSE Unavailable)
  /\ Overlaps(c)

\* complete(outcome), wherever the person is by now.
Authenticated(c) ==
  LET answer == call[c].answer IN
  /\ \/ answer = "ok" /\ Enters(c, call[c].session) /\ Stays
     \/ /\ answer = "twoFactor"
        /\ call' = Done(c) /\ Becomes(TwoFactor) /\ UNCHANGED cookie
     \/ /\ answer = "unauthenticated"
        /\ call' = Done(c) /\ Becomes(GateOut("initial")) /\ UNCHANGED cookie
     \/ /\ answer \in {"failed", "error"}
        /\ call' = Done(c) /\ Stays /\ UNCHANGED cookie
  /\ Overlaps(c)

\* logout's finally.
afterLogout(answer) == GateOut("logout")

LoggedOut ==
  LET answer == call["logout"].answer IN
  /\ call' = Done("logout")
  /\ cookie' = IF answer = "ok" THEN 0 ELSE cookie
  /\ Becomes(afterLogout(answer))
  /\ Overlaps("logout")

\* The page's own state, as it was when the form was sent, with the household.
CreatedHousehold ==
  /\ call' = Done("create") /\ TakesCookie("create")
  /\ Becomes(IF call["create"].answer = "ok" THEN GateIn(Homes)
                                            ELSE Heard(call["create"].answer))
  /\ Overlaps("create")

ApiAnswered ==
  /\ call' = Done("api") /\ TakesCookie("api")
  /\ Becomes(Heard(call["api"].answer))
  /\ IF isUnauthenticated(call["api"].answer) /\ cookie # call["api"].session
     THEN doubt' = doubt \cup {"late answer"}
     ELSE Overlaps("api")

GateHears(c) ==
  /\ call[c].at \in {"answered", "listed"}
  /\ CASE call[c].at = "listed" -> GetsHouseholds(c)
       [] c = "me" /\ call[c].at = "answered" -> GetsPerson
       [] c \in Authenticating /\ call[c].at = "answered" -> Authenticated(c)
       [] c = "logout" -> LoggedOut
       [] c = "create" -> CreatedHousehold
       [] c = "api" -> ApiAnswered
  /\ UNCHANGED <<address, alive, ended, households, sessions, moves, faults>>

\* The stream of access.changed says session.ended.
StreamEnds ==
  /\ InShell /\ cookie \notin alive
  /\ Becomes(signOutLocally(gate)) /\ Overlaps("api")
  /\ UNCHANGED <<address, call, bff, moves, faults>>

-----------------------------------------------------------------------------

Next ==
  \/ Redirects
  \/ \E a \in Destinations : PersonGoes(a)
  \/ PersonSwitchesForm \/ Reloads
  \/ \E c \in {"login", "signUp"} : SubmitsForm(c)
  \/ SubmitsCode \/ CancelsCode \/ Retries \/ CreatesHousehold \/ LogsOut \/ Requests
  \/ \E c \in Calls : BffAnswers(c) \/ CallFails(c) \/ GateHears(c)
  \/ \E s \in 1 .. MaxSessions : SessionEnds(s)
  \/ StreamEnds

Spec == Init /\ [][Next]_vars

-----------------------------------------------------------------------------
(* Properties.                                                             *)

(***************************************************************************)
(* The rules come to rest: a login page leads to the return address, that  *)
(* to its canonical form and the settings to their first section, and no   *)
(* further (redirectRules.ts:62-87).  The named exception is a segment     *)
(* written percent-encoded, which redirects to itself.                     *)
(***************************************************************************)
RedirectsSettle ==
  (address.segment # None => ~address.segment.encoded) => hops < MaxHops

Quiet == InFlight = {}

Hop(a) == FirstOf(decideRouteRedirect(a, Session), a, None)

Landing(a) == Hop(Hop(Hop(a)))

(***************************************************************************)
(* A session that expires takes the person back to where they were: signed *)
(* in again, with no move of their own and no logout, they are where the   *)
(* rules lead from there (SessionGate.tsx:44-47).                          *)
(***************************************************************************)
ReturnsWhereLeft ==
  gate.kind = "signed-in" /\ Redirect = None /\ left # None => address = Landing(left)

(***************************************************************************)
(* A logout starts clean: no address to return to is kept                  *)
(* (redirectRules.ts:17-19).  The named exception is a session found ended *)
(* before the logout's answer arrives.                                     *)
(***************************************************************************)
LogoutIsClean ==
  gate = GateOut("logout") /\ ~overtaken => address.from = None

(***************************************************************************)
(* With nothing under way, the gate tells the truth about the cookie's     *)
(* session: signed in, it is alive or ended elsewhere; logged out or       *)
(* expired, it is not.  The named exceptions are an answer that was lost,  *)
(* one that came after the gate had moved on, and a session that expired   *)
(* while a logout was under way (SessionGate.tsx:75-135).                  *)
(***************************************************************************)
GateTellsTheTruth ==
  Quiet /\ doubt = {} /\ ~overtaken =>
    /\ gate.kind = "signed-in" => cookie \in alive \cup ended
    /\ gate \in {GateOut("logout"), GateOut("expired")} => cookie \notin alive
=============================================================================
