-------------------------- MODULE SessionGateProofs --------------------------
(***************************************************************************)
(* Proofs about SessionGate, for any addresses, households and calls: the  *)
(* redirect rules come to rest, the person is taken back to where a        *)
(* session expired, a logout keeps nothing, and the gate tells the truth.  *)
(* And the fact about Slugs that lets Routes take a household's segment    *)
(* for a pair.                                                             *)
(***************************************************************************)
EXTENDS SessionGate, Slugs, TLAPS

-----------------------------------------------------------------------------
(* Addresses.                                                              *)

\* What _from holds: never the login page, nor one that anybody may see.
Returns == { a \in Links : routeZone(RouteOf(a)) # "public" /\ RouteOf(a).kind # "root" }

\* The sign-in and sign-up pages with a return address, or a link.
WellFormed(a) ==
  \/ a \in Links
  \/ a.path \in {<<"login">>, <<"signup">>} /\ a = Address(a.path, None, a.from) /\ a.from \in Returns

AddressInv == WellFormed(address) /\ (left # None => WellFormed(left))

AsWritten(a) == a.segment # None => ~a.segment.encoded

Root == Plain(<<>>)

Home == homeOf(Homes)

\* Where an address with the Homes' canonical segment leads.
Canonised(a) == FirstOf(canonicalSpaceAddress(a, Homes), a, None)

General(a) == FirstOf(SettingsRedirect(a), a, None)

-----------------------------------------------------------------------------
(* The invariant.                                                          *)

(***************************************************************************)
(* Redirects since something else changed: one where the person is signed  *)
(* out, none while that is not known, and at most three where the person   *)
(* is signed in - from the sign-in page, to the canonical segment, and to  *)
(* the first section of the settings.                                      *)
(***************************************************************************)
HopsInv ==
  hops > 0 =>
    \/ gate.kind = "signed-out" /\ hops = 1 /\ routeZone(RouteOf(address)) = "public"
    \/ /\ gate.kind = "signed-in" /\ ~IsEntry(address)
       /\ AsWritten(address) =>
            /\ hops <= 3
            /\ hops >= 2 =>
                 /\ RouteOf(address).kind = "space"
                 /\ \/ RouteOf(address).section # "settings"
                    \/ canonicalSpaceAddress(address, gate.households) = None
            /\ hops = 3 => Redirect = None

\* What the gate knows of the households is what is listed.
HomesInv ==
  /\ gate.households # <<>> => households = Homes
  /\ call["create"].answer = "ok" => households = Homes

\* The address that the sign-in and sign-up pages lead to.
Aim(a) == IF IsEntry(a) THEN FirstOf(a.from, Root, None) ELSE a

\* Where the rules take who is signed in from there.
OnTheWay(b) ==
  CASE RouteOf(b).kind = "root" -> {b, Home, Canonised(Home)}
    [] RouteOf(b).kind = "space" -> {b, Canonised(b), General(b), Canonised(General(b))}
    [] OTHER -> {b}

\* The same before there is a household.
BeforeHomes(b) == IF RouteOf(b).kind = "space" THEN {b, General(b)} ELSE {b}

\* Since the session expired the person is on the way back.
LeftInv ==
  left # None =>
    /\ gate # GateOut("logout")
    /\ Aim(address) \in OnTheWay(Aim(left))
    /\ households = <<>> \/ gate = GateIn(<<>>) => Aim(address) \in BeforeHomes(Aim(left))

\* A logout begins where no address to return to is kept, and nothing brings one.
CleanInv ==
  ~overtaken =>
    /\ call["logout"].at # "idle" => gate.kind = "signed-in" /\ address.from = None
    /\ gate = GateOut("logout") => address.from = None

Entering == {"me", "login", "signUp", "verify"}

AtHouseholds(c) == call[c].at \in {"listing", "listed"}

\* Only who enters asks for the households.
StagesInv == \A c \in Calls : AtHouseholds(c) => c \in Entering

\* A call's session is one the BFF has made.
SessionsInv == \A c \in Calls : call[c].session <= sessions

-----------------------------------------------------------------------------
(* The session of the cookie, when nothing was lost and nothing came late. *)

\* Sessions the BFF has given.
Granted(c) == AtHouseholds(c) \/ (call[c].at = "answered" /\ call[c].answer = "ok")

\* The calls that can be under way, by what the gate shows.
Expected(kind) ==
  CASE kind = "checking" -> {"me", "api"}
    [] kind = "signed-out" -> {"login", "signUp", "api"}
    [] kind = "two-factor" -> {"verify", "api"}
    [] kind = "unavailable" -> {"api"}
    [] kind = "signed-in" -> {"create", "logout", "api"}

CallsInv ==
  /\ InFlight \subseteq Expected(gate.kind)
  /\ \A c \in Calls : /\ call[c].answer # "error"
                      /\ call[c].at = "listed" => call[c].answer \in {"ok", "unauthenticated"}
  /\ call["logout"].answer \in {None, "ok"}

\* An app's call outlives its session; whoever enters meanwhile has another.
ApartInv ==
  gate.kind # "signed-in" /\ call["api"].at # "idle" =>
    /\ call["me"].at # "idle" => call["me"].session = 0
    /\ \A c \in Authenticating : Granted(c) => call[c].session # call["api"].session

\* Whoever enters has the cookie.
EnteringInv ==
  \A c \in Entering :
    /\ AtHouseholds(c) /\ (\A d \in Entering \ {c} : ~AtHouseholds(d)) => cookie = call[c].session
    /\ call[c].at = "listed" /\ call[c].answer = "ok" => call[c].session \in alive \cup ended

CookieInv ==
  /\ gate.kind = "unavailable" => cookie = 0
  /\ gate.kind = "signed-in" =>
       /\ call["create"].at # "idle" => call["create"].session = cookie
       /\ call["logout"].at # "idle" => call["logout"].session = cookie
       /\ call["logout"].at = "idle" => cookie \in alive \cup ended
  /\ gate \in {GateOut("logout"), GateOut("expired")} =>
       cookie \notin alive \/ AtHouseholds("login") \/ AtHouseholds("signUp")

TruthInv == doubt = {} /\ ~overtaken => CallsInv /\ ApartInv /\ EnteringInv /\ CookieInv

Inv ==
  /\ TypeOK /\ AddressInv
  /\ HopsInv /\ HomesInv /\ LeftInv /\ CleanInv
  /\ StagesInv /\ SessionsInv /\ TruthInv

-----------------------------------------------------------------------------
(* The route tree.                                                         *)

\* An entry's parts.
LEMMA EntryFacts ==
  ASSUME NEW p, NEW k, NEW s, NEW i
  PROVE  /\ Entry(p, k, s, i).path = p /\ Entry(p, k, s, i).route.kind = k
         /\ Entry(p, k, s, i).route.section = s
BY DEF Entry, Route

\* The parts after a household's.
LEMMA OnePart ==
  ASSUME NEW s
  PROVE  Len(Household \o <<s>>) = 3 /\ (Household \o <<s>>)[1] = "h"
BY DEF Household

\* A path of a household and two parts: its length and its ends.
LEMMA TwoParts ==
  ASSUME NEW s, NEW t
  PROVE  /\ Len(Household \o <<s, t>>) = 4 /\ (Household \o <<s, t>>)[1] = "h"
         /\ (Household \o <<s, t>>)[4] = t
BY DEF Household

\* A path of a household and three parts: its length and its start.
LEMMA ThreeParts ==
  ASSUME NEW s, NEW t, NEW u
  PROVE  Len(Household \o <<s, t, u>>) = 5 /\ (Household \o <<s, t, u>>)[1] = "h"
BY DEF Household

\* A household's entries, by their paths.
LEMMA SpaceFacts ==
  ASSUME NEW e \in SpaceEntries
  PROVE  /\ e.route.kind = "space" /\ Len(e.path) >= 2 /\ e.path[1] = "h"
         /\ e.path = Household => e.route.section = "home"
         /\ e.path = Household \o <<"settings", "general">> => e.route.section = "general"
<1> DEFINE general == Household \o <<"settings", "general">>
           Fine(p, x) ==
             /\ Len(p) >= 2 /\ p[1] = "h"
             /\ p = Household => x = "home"
             /\ p = general => x = "general"
<1>7. Len(Household) = 2 /\ Household[1] = "h"
  BY DEF Household
<1>8. Len(general) = 4 /\ general[4] = "general"
  BY TwoParts, Zenon
<1>0. Len(Household) = 2 /\ Household[1] = "h" /\ Len(general) = 4 /\ general[4] = "general"
  BY <1>7, <1>8
<1> HIDE DEF general
<1>1. ASSUME NEW s, NEW x PROVE Fine(Household \o <<s>>, x)
  <2> DEFINE p == Household \o <<s>>
  <2>1. Len(p) = 3 /\ p[1] = "h"
    BY OnePart, Zenon
  <2> HIDE DEF p
  <2>2. Fine(p, x)
    BY <1>0, <2>1
  <2> QED
    BY <2>2 DEF p
<1>2. ASSUME NEW s, NEW t, NEW x, t # "general" \/ x = "general" PROVE Fine(Household \o <<s, t>>, x)
  <2> DEFINE p == Household \o <<s, t>>
  <2>1. Len(p) = 4 /\ p[1] = "h" /\ p[4] = t
    BY TwoParts, Zenon
  <2> HIDE DEF p
  <2>2. Fine(p, x)
    BY <1>0, <1>2, <2>1
  <2> QED
    BY <2>2 DEF p
<1>3. ASSUME NEW s, NEW t, NEW u, NEW x PROVE Fine(Household \o <<s, t, u>>, x)
  <2> DEFINE p == Household \o <<s, t, u>>
  <2>1. Len(p) = 5 /\ p[1] = "h"
    BY ThreeParts, Zenon
  <2> HIDE DEF p
  <2>2. Fine(p, x)
    BY <1>0, <2>1
  <2> QED
    BY <2>2 DEF p
<1>4. Fine(Household, "home")
  BY <1>0
<1> HIDE DEF Fine
<1>5. ASSUME NEW p, NEW x, NEW i, e = Entry(p, "space", x, i), Fine(p, x)
      PROVE /\ e.route.kind = "space" /\ Fine(e.path, e.route.section)
  <2>1. e.path = p /\ e.route.kind = "space" /\ e.route.section = x
    BY <1>5, EntryFacts
  <2> QED
    BY <2>1, <1>5
<1>6. e.route.kind = "space" /\ Fine(e.path, e.route.section)
  <2>1. CASE e = Entry(Household, "space", "home", FALSE)
    BY <2>1, <1>4, <1>5
  <2>2. CASE \/ e = Entry(Household \o <<"inbox", "$eventId">>, "space", "inbox", TRUE)
             \/ e = Entry(Household \o <<"catalog", "$appId">>, "space", "catalog", TRUE)
    <3>1. /\ Fine(Household \o <<"inbox", "$eventId">>, "inbox")
          /\ Fine(Household \o <<"catalog", "$appId">>, "catalog")
      BY <1>2
    <3> QED
      BY <2>2, <3>1, <1>5
  <2>3. CASE \/ e = Entry(Household \o <<"settings", "members", "$memberId">>, "space", "members", TRUE)
             \/ e = Entry(Household \o <<"settings", "apps", "$appId">>, "space", "apps", TRUE)
             \/ e = Entry(Household \o <<"a", "$appId", "$">>, "space", "app", FALSE)
    BY <2>3, <1>3, <1>5
  <2>4. ASSUME NEW s, e = Entry(Household \o <<s>>, "space", s, FALSE)
        PROVE e.route.kind = "space" /\ Fine(e.path, e.route.section)
    BY <2>4, <1>1, <1>5
  <2>5. ASSUME NEW s, e = Entry(Household \o <<"settings", s>>, "space", s, FALSE)
        PROVE e.route.kind = "space" /\ Fine(e.path, e.route.section)
    <3>1. s # "general" \/ s = "general"
      OBVIOUS
    <3>2. Fine(Household \o <<"settings", s>>, s)
      BY <3>1, <1>2
    <3> QED
      BY <2>5, <3>2, <1>5
  <2> QED
    BY <2>1, <2>2, <2>3, <2>4, <2>5 DEF SpaceEntries
<1> QED
  BY <1>6 DEF Fine, general

\* The other entries.
LEMMA OtherFacts ==
  ASSUME NEW e \in RouteTree, e \notin SpaceEntries
  PROVE  /\ e.route.kind # "space" /\ (Len(e.path) = 0 \/ e.path[1] # "h")
         /\ e.path = <<>> <=> e.route.kind = "root"
         /\ e.path = <<"login">> <=> e.route.kind = "login"
         /\ e.path = <<"signup">> <=> e.route.kind = "signup"
<1> DEFINE Fine(p, k) ==
             /\ k # "space" /\ (Len(p) = 0 \/ p[1] # "h")
             /\ p = <<>> <=> k = "root"
             /\ p = <<"login">> <=> k = "login"
             /\ p = <<"signup">> <=> k = "signup"
<1>1. /\ Fine(<<>>, "root") /\ Fine(<<"login">>, "login") /\ Fine(<<"signup">>, "signup")
  OBVIOUS
<1>2. /\ Fine(<<"invite", "$token">>, "invite") /\ Fine(<<"s", "$token">>, "share")
      /\ Fine(<<"s", "$token", "$slug">>, "share")
  OBVIOUS
<1>3. /\ Fine(<<"account">>, "account") /\ Fine(<<"spaces">>, "spaces")
      /\ Fine(<<"spaces", "new">>, "spaces")
  OBVIOUS
<1>4. \A s : Fine(<<"account", s>>, "account")
  OBVIOUS
<1>5. /\ Fine(<<"dev", "registry">>, "dev") /\ Fine(<<"dev", "registry", "$appId">>, "dev")
      /\ Fine(<<"dev", "health">>, "dev")
  OBVIOUS
<1> HIDE DEF Fine
<1>6. \A p, k, x, i : e = Entry(p, k, x, i) /\ Fine(p, k) => Fine(e.path, e.route.kind)
  BY EntryFacts
<1>7. Fine(e.path, e.route.kind)
  <2>1. CASE e \in EntryEntries
    BY <2>1, <1>1, <1>6 DEF EntryEntries
  <2>2. CASE e \in PublicEntries
    BY <2>2, <1>2, <1>6 DEF PublicEntries
  <2>3. CASE e \in PersonalEntries
    BY <2>3, <1>3, <1>4, <1>6 DEF PersonalEntries
  <2>4. CASE e \in PlatformEntries
    BY <2>4, <1>5, <1>6 DEF PlatformEntries
  <2> QED
    BY <2>1, <2>2, <2>3, <2>4 DEF RouteTree
<1> QED
  BY <1>7 DEF Fine

-----------------------------------------------------------------------------
(* Addresses.                                                              *)

Paths == { e.path : e \in RouteTree }

GeneralPath == Household \o <<"settings", "general">>

\* The routes that the rules name have one path each.
LEMMA RouteFacts ==
  ASSUME NEW p \in Paths
  PROVE  /\ routeForPath(p).kind = "root" <=> p = <<>>
         /\ routeForPath(p).kind = "login" <=> p = <<"login">>
         /\ routeForPath(p).kind = "signup" <=> p = <<"signup">>
         /\ p = Household => routeForPath(p).kind = "space" /\ routeForPath(p).section = "home"
         /\ p = GeneralPath => routeForPath(p).kind = "space" /\ routeForPath(p).section = "general"
<1>1. PICK e \in RouteTree : e.path = p /\ routeForPath(p) = e.route
  BY DEF Paths, routeForPath
<1>2. CASE e \in SpaceEntries
  <2>1. /\ e.route.kind = "space" /\ Len(p) >= 2 /\ p[1] = "h"
        /\ p = Household => e.route.section = "home"
        /\ p = GeneralPath => e.route.section = "general"
    BY <1>1, <1>2, SpaceFacts DEF GeneralPath
  <2>2. p # <<>> /\ p # <<"login">> /\ p # <<"signup">>
    BY <2>1
  <2> QED
    BY <1>1, <2>1, <2>2
<1>3. CASE e \notin SpaceEntries
  <2>1. /\ Len(p) = 0 \/ p[1] # "h"
        /\ p = <<>> <=> e.route.kind = "root"
        /\ p = <<"login">> <=> e.route.kind = "login"
        /\ p = <<"signup">> <=> e.route.kind = "signup"
    BY <1>1, <1>3, OtherFacts
  <2>2. p # Household
    BY <2>1 DEF Household
  <2>3. p # GeneralPath
    <3>1. Len(GeneralPath) = 4 /\ GeneralPath[1] = "h"
      BY TwoParts DEF GeneralPath
    <3> QED
      BY <2>1, <3>1
  <2> QED
    BY <1>1, <2>1, <2>2, <2>3
<1> QED
  BY <1>2, <1>3

\* The paths the rules send to are paths of the route tree.
LEMMA KnownPaths ==
  /\ <<>> \in Paths /\ <<"login">> \in Paths /\ <<"signup">> \in Paths
  /\ Household \in Paths /\ GeneralPath \in Paths
<1>1. ASSUME NEW p, NEW k, NEW s, Entry(p, k, s, FALSE) \in RouteTree PROVE p \in Paths
  <2>1. p = Entry(p, k, s, FALSE).path
    BY DEF Entry
  <2> QED
    BY <1>1, <2>1, Zenon DEF Paths
<1>2. /\ Entry(<<>>, "root", "", FALSE) \in RouteTree
      /\ Entry(<<"login">>, "login", "", FALSE) \in RouteTree
      /\ Entry(<<"signup">>, "signup", "", FALSE) \in RouteTree
  BY DEF RouteTree, EntryEntries
<1>3. Entry(Household, "space", "home", FALSE) \in RouteTree
  BY DEF RouteTree, SpaceEntries
<1>4. Entry(GeneralPath, "space", "general", FALSE) \in RouteTree
  BY DEF RouteTree, SpaceEntries, SettingsSections, GeneralPath
<1>5. <<>> \in Paths /\ <<"login">> \in Paths /\ <<"signup">> \in Paths
  BY <1>1, <1>2
<1>6. Household \in Paths /\ GeneralPath \in Paths
  BY <1>1, <1>3, <1>4
<1> QED
  BY <1>5, <1>6

\* A link is its path and its segment.
LEMMA LinkFacts ==
  ASSUME NEW a \in Links
  PROVE  /\ a = Address(a.path, a.segment, None) /\ a.from = None /\ a.path \in Paths /\ a # None
         /\ RouteOf(a).kind = "space" <=> a.segment # None
         /\ RouteOf(a).kind = "space" <=> a.segment \in Segments
<1>1. /\ a.path \in Paths /\ a.segment \in Segments \cup {None} /\ a.from = None
      /\ a = [path |-> a.path, segment |-> a.segment, from |-> a.from]
      /\ RouteOf(a).kind = "space" <=> a.segment # None
  BY DEF Links, Paths
<1>2. None \notin Links /\ None \notin Segments
  BY GateAssumption
<1> QED
  BY <1>1, <1>2 DEF Address

\* An address without a _from parameter, of a path of the tree, is a link.
LEMMA IsLink ==
  ASSUME NEW p \in Paths, NEW s \in Segments \cup {None},
         routeForPath(p).kind = "space" <=> s # None
  PROVE  Address(p, s, None) \in Links
BY DEF Links, Address, Paths, RouteOf

-----------------------------------------------------------------------------
(* Where the rules lead.                                                   *)

Found(segment, hh) == resolve(hh, segment.hid)

\* The household is not theirs, or the slug is its own.
Settled(segment, hh) ==
  Found(segment, hh) = None \/ Found(segment, hh).slug = segment.slug

\* The household's own segment, but for one written percent-encoded.
Proper(segment, hh) ==
  IF Settled(segment, hh) \/ segment.encoded THEN segment
  ELSE Segment(segment.hid, Found(segment, hh).slug, FALSE)

\* The entries of a sequence over a set are in the set.
LEMMA ElementOf ==
  ASSUME NEW S, NEW q \in Seq(S), NEW i \in DOMAIN q PROVE q[i] \in S
OBVIOUS

\* The household a segment resolves to (HouseholdResolver.resolve) is in the list, with its id.
LEMMA FoundFacts ==
  ASSUME NEW s \in Segments, NEW hh \in Households, Found(s, hh) # None
  PROVE  /\ hh = Homes
         /\ Found(s, hh).hid = s.hid
         /\ Found(s, hh).slug \in Slugs /\ s.hid \in Hids
<1>1. PICK i \in DOMAIN hh : /\ hh[i].hid = s.hid
                                     /\ Found(s, hh) = hh[i]
  BY DEF Found, resolve
<1>2. hh = Homes
  BY <1>1 DEF Households
<1>3. Homes[i] \in [hid : Hids, slug : Slugs]
  <2>1. Homes \in Seq([hid : Hids, slug : Slugs]) /\ i \in DOMAIN Homes
    BY <1>1, <1>2, GateAssumption
  <2> QED
    BY <2>1, ElementOf
<1>4. s.hid \in Hids
  BY DEF Segments
<1> QED
  BY <1>1, <1>2, <1>3, <1>4

\* The segment a household should have is one, and is settled; an encoded one is never changed.
LEMMA ProperFacts ==
  ASSUME NEW s \in Segments, NEW hh \in Households
  PROVE  /\ Proper(s, hh) \in Segments
         /\ s.encoded => Proper(s, hh) = s
         /\ ~s.encoded => ~Proper(s, hh).encoded /\ Settled(Proper(s, hh), hh)
         /\ Settled(s, hh) => Proper(s, hh) = s
         /\ hh = <<>> => Settled(s, hh)
<1>1. hh = <<>> => Settled(s, hh)
  BY DEF Settled, Found, resolve
<1>2. CASE Settled(s, hh) \/ s.encoded
  BY <1>1, <1>2 DEF Proper
<1>3. CASE ~Settled(s, hh) /\ ~s.encoded
  <2> DEFINE f == Found(s, hh)
             t == Segment(s.hid, f.slug, FALSE)
  <2>1. Proper(s, hh) = t
    BY <1>3 DEF Proper
  <2>2. f.slug \in Slugs /\ s.hid \in Hids
    BY <1>3, FoundFacts DEF Settled
  <2>3. t \in Segments /\ t.hid = s.hid /\ t.slug = f.slug /\ ~t.encoded
    BY <2>2 DEF Segments, Segment
  <2>4. Found(t, hh) = f
    BY <2>3 DEF Found
  <2>5. Settled(t, hh)
    BY <2>3, <2>4 DEF Settled
  <2> QED
    BY <1>1, <1>3, <2>1, <2>3, <2>5
<1> QED
  BY <1>2, <1>3

\* An address of a household on its way to the household's own segment.
LEMMA CanonicalFacts ==
  ASSUME NEW a \in Links, RouteOf(a).kind = "space", NEW hh \in Households
  PROVE  canonicalSpaceAddress(a, hh) =
           IF Settled(a.segment, hh) THEN None
           ELSE Address(a.path, Proper(a.segment, hh), None)
<1> DEFINE s == a.segment
           f == Found(s, hh)
<1>1. a = Address(a.path, s, None) /\ s \in Segments
  BY LinkFacts
<1>2. CASE f = None
  BY <1>2 DEF canonicalSpaceAddress, Settled, Found
<1>3. CASE f # None
  <2>1. f.hid = s.hid
    BY <1>1, <1>3, FoundFacts
  <2>2. canonicalizeHidSegment(f) = Segment(s.hid, f.slug, FALSE)
    BY <2>1 DEF canonicalizeHidSegment
  <2>3. canonicalizeHidSegment(f).slug = f.slug
    BY <2>2 DEF Segment
  <2>4. CASE f.slug = s.slug
    BY <1>3, <2>3, <2>4 DEF canonicalSpaceAddress, Settled, Found
  <2>5. CASE f.slug # s.slug /\ s.encoded
    <3>1. canonicalSpaceAddress(a, hh) = a
      BY <1>3, <2>3, <2>5 DEF canonicalSpaceAddress, Found
    <3>2. Proper(s, hh) = s /\ ~Settled(s, hh)
      BY <1>3, <2>5 DEF Proper, Settled
    <3> QED
      BY <1>1, <3>1, <3>2
  <2>6. CASE f.slug # s.slug /\ ~s.encoded
    <3>1. canonicalSpaceAddress(a, hh) = [a EXCEPT !.segment = canonicalizeHidSegment(f)]
      BY <1>3, <2>3, <2>6 DEF canonicalSpaceAddress, Found
    <3>2. Proper(s, hh) = Segment(s.hid, f.slug, FALSE) /\ ~Settled(s, hh)
      BY <1>3, <2>6 DEF Proper, Settled
    <3>3. [a EXCEPT !.segment = canonicalizeHidSegment(f)] = Address(a.path, canonicalizeHidSegment(f), None)
      BY <1>1 DEF Address
    <3> QED
      BY <2>2, <3>1, <3>2, <3>3
  <2> QED
    BY <2>4, <2>5, <2>6
<1> QED
  BY <1>2, <1>3

\* The home of the first household.
LEMMA HomeFacts ==
  /\ Root \in Links /\ Root # None /\ RouteOf(Root).kind = "root" /\ Root.path = <<>>
  /\ homeOf(<<>>) = None
  /\ Home \in Links /\ Home # None /\ RouteOf(Home).kind = "space"
  /\ RouteOf(Home).section = "home" /\ ~Home.segment.encoded
<1>1. <<>> \in Paths /\ Household \in Paths
  BY KnownPaths
<1>2. routeForPath(<<>>).kind = "root"
  BY <1>1, RouteFacts
<1>3. routeForPath(Household).kind = "space" /\ routeForPath(Household).section = "home"
  BY <1>1, RouteFacts
<1>4. Root \in Links /\ RouteOf(Root).kind = "root" /\ Root.path = <<>>
  <2>1. Address(<<>>, None, None) \in Links
    BY <1>1, <1>2, IsLink
  <2> QED
    BY <2>1, <1>2 DEF Root, Plain, Address, RouteOf
<1>5. Homes # <<>> /\ Homes[1] \in [hid : Hids, slug : Slugs]
  <2>1. Homes \in Seq([hid : Hids, slug : Slugs]) /\ Homes # <<>>
    BY GateAssumption
  <2>2. 1 \in DOMAIN Homes
    BY <2>1
  <2> QED
    BY <2>1, <2>2, ElementOf
<1> DEFINE s == canonicalizeHidSegment(Homes[1])
<1>6. s \in Segments /\ ~s.encoded
  BY <1>5 DEF canonicalizeHidSegment, Segment, Segments
<1>7. s # None
  BY <1>6, GateAssumption
<1> HIDE DEF s
<1>8. Address(Household, s, None) \in Links
  BY <1>1, <1>3, <1>6, <1>7, IsLink
<1>9. Home = Address(Household, s, None)
  BY <1>5 DEF Home, homeOf, s
<1>10. Home.path = Household /\ Home.segment = s
  BY <1>9 DEF Address
<1>11. None \notin Links
  BY GateAssumption
<1> QED
  BY <1>3, <1>4, <1>6, <1>8, <1>9, <1>10, <1>11 DEF RouteOf, homeOf

\* An address of a household with another of its segments, or its settings.
LEMMA SpaceLinks ==
  ASSUME NEW a \in Links, RouteOf(a).kind = "space", NEW s \in Segments
  PROVE  LET c == Address(a.path, s, None)
             g == Address(GeneralPath, s, None)
         IN /\ c \in Links /\ RouteOf(c) = RouteOf(a) /\ c.segment = s /\ c.path = a.path /\ c # None
            /\ g \in Links /\ RouteOf(g).kind = "space" /\ RouteOf(g).section = "general"
            /\ g.segment = s /\ g.path = GeneralPath /\ g # None
<1> DEFINE c == Address(a.path, s, None)
           g == Address(GeneralPath, s, None)
<1>1. s # None /\ None \notin Links
  BY GateAssumption
<1>2. a.path \in Paths /\ routeForPath(a.path).kind = "space"
  BY LinkFacts DEF RouteOf
<1>3. GeneralPath \in Paths
  BY KnownPaths
<1>4. routeForPath(GeneralPath).kind = "space" /\ routeForPath(GeneralPath).section = "general"
  BY <1>3, RouteFacts
<1>5. c \in Links /\ g \in Links
  BY <1>1, <1>2, <1>3, <1>4, IsLink
<1>6. c.path = a.path /\ c.segment = s /\ g.path = GeneralPath /\ g.segment = s
  BY DEF Address
<1> HIDE DEF c, g
<1>7. RouteOf(c) = RouteOf(a) /\ RouteOf(g) = routeForPath(GeneralPath)
  BY <1>6 DEF RouteOf
<1>8. c # None /\ g # None
  BY <1>1, <1>5
<1> QED
  BY <1>4, <1>5, <1>6, <1>7, <1>8 DEF c, g

\* The sign-in and sign-up pages, and the others.
LEMMA FormedFacts ==
  ASSUME NEW a, WellFormed(a)
  PROVE  /\ a.path \in Paths
         /\ IsEntry(a) => a.from = None \/ a.from \in Returns
         /\ ~IsEntry(a) => a \in Links
         /\ IsEntry(a) <=> a.path \in {<<"login">>, <<"signup">>}
         /\ RouteOf(a).kind \in {"root", "space"} => a \in Links
         /\ a \in Links => a.from = None
<1>1. a.path \in Paths
  BY LinkFacts, KnownPaths DEF WellFormed
<1>2. IsEntry(a) <=> a.path \in {<<"login">>, <<"signup">>}
  BY <1>1, RouteFacts DEF IsEntry, RouteOf
<1>3. a \in Links => a.from = None
  BY LinkFacts
<1>4. RouteOf(a).kind \in {"root", "space"} => ~IsEntry(a)
  BY DEF IsEntry
<1> QED
  BY <1>1, <1>2, <1>3, <1>4 DEF WellFormed

\* The sign-in page as the rules write it.
LEMMA LoginFacts ==
  /\ loginAddress(None) \in Links /\ IsEntry(loginAddress(None)) /\ loginAddress(None).from = None
  /\ \A a \in Returns : /\ WellFormed(loginAddress(a)) /\ IsEntry(loginAddress(a))
                        /\ loginAddress(a).from = a
<1>1. <<"login">> \in Paths
  BY KnownPaths
<1>2. routeForPath(<<"login">>).kind = "login"
  BY <1>1, RouteFacts
<1>3. loginAddress(None) \in Links
  BY <1>1, <1>2, IsLink DEF loginAddress
<1>4. ASSUME NEW a PROVE /\ loginAddress(a).path = <<"login">> /\ loginAddress(a).from = a
                         /\ loginAddress(a) = Address(<<"login">>, None, a)
                         /\ IsEntry(loginAddress(a))
  BY <1>2 DEF loginAddress, Address, IsEntry, RouteOf
<1> QED
  BY <1>3, <1>4 DEF WellFormed

\* The rules where the person is signed in.
LEMMA HopIn ==
  ASSUME NEW a, WellFormed(a), NEW hh \in Households
  PROVE  LET d == decideRouteRedirect(a, SignedIn(hh))
         IN /\ IsEntry(a) /\ a.from # None => d = a.from /\ d \in Returns
            /\ IsEntry(a) /\ a.from = None => d = IF hh = <<>> THEN Root ELSE Home
            /\ RouteOf(a).kind = "root" => d = IF hh = <<>> THEN None ELSE Home
            /\ RouteOf(a).kind = "space" =>
                 d = IF ~Settled(a.segment, hh) THEN Address(a.path, Proper(a.segment, hh), None)
                     ELSE IF RouteOf(a).section = "settings" THEN Address(GeneralPath, a.segment, None)
                     ELSE None
            /\ RouteOf(a).kind \notin {"login", "signup", "root", "space"} => d = None
<1> DEFINE d == decideRouteRedirect(a, SignedIn(hh))
           k == RouteOf(a).kind
<1>1. /\ SignedIn(hh).kind = "signed-in" /\ SignedIn(hh).households = hh
      /\ d = SignedInRedirect(a, SignedIn(hh))
  BY DEF decideRouteRedirect, SignedIn
<1>2. homeOf(hh) = IF hh = <<>> THEN None ELSE Home
  BY HomeFacts DEF Households, Home
<1>3. CASE IsEntry(a)
  <2>1. d = FirstOf(readReturnAddress(a), homeOf(hh), Root)
    <3>1. SignedInRedirect(a, SignedIn(hh)) =
            FirstOf(readReturnAddress(a), homeOf(SignedIn(hh).households), Plain(<<>>))
      BY <1>3 DEF SignedInRedirect, IsEntry
    <3> QED
      BY <1>1, <3>1 DEF Root
  <2>2. k \in {"login", "signup"}
    BY <1>3 DEF IsEntry
  <2>3. CASE a.from # None
    <3>1. a.from \in Returns
      BY <1>3, <2>3, FormedFacts
    <3>2. ~IsEntry(a.from)
      BY <3>1 DEF Returns, IsEntry, routeZone
    <3>3. readReturnAddress(a) = a.from
      BY <2>3, <3>2 DEF readReturnAddress
    <3> QED
      BY <1>3, <2>1, <2>2, <2>3, <3>1, <3>3 DEF FirstOf
  <2>4. CASE a.from = None
    <3>1. readReturnAddress(a) = None
      BY <2>4 DEF readReturnAddress
    <3> QED
      BY <1>2, <1>3, <2>1, <2>2, <2>4, <3>1, HomeFacts DEF FirstOf
  <2> QED
    BY <2>3, <2>4
<1>4. CASE k = "root"
  <2>1. ~IsEntry(a)
    BY <1>4 DEF IsEntry
  <2>2. d = homeOf(hh)
    BY <1>1, <1>4, <2>1 DEF SignedInRedirect
  <2> QED
    BY <1>2, <1>4, <2>1, <2>2
<1>5. CASE k = "space"
  <2>1. ~IsEntry(a) /\ a \in Links
    BY <1>5, FormedFacts DEF IsEntry
  <2>2. d = FirstOf(canonicalSpaceAddress(a, hh), SettingsRedirect(a), None)
    BY <1>1, <1>5, <2>1 DEF SignedInRedirect
  <2>3. canonicalSpaceAddress(a, hh) =
          IF Settled(a.segment, hh) THEN None ELSE Address(a.path, Proper(a.segment, hh), None)
    BY <1>5, <2>1, CanonicalFacts
  <2>4. SettingsRedirect(a) =
          IF RouteOf(a).section = "settings" THEN Address(GeneralPath, a.segment, None) ELSE None
    BY DEF SettingsRedirect, GeneralPath
  <2>5. a.segment \in Segments /\ Proper(a.segment, hh) \in Segments
    BY <1>5, <2>1, LinkFacts, ProperFacts
  <2>6. /\ Address(a.path, Proper(a.segment, hh), None) # None
        /\ Address(GeneralPath, a.segment, None) # None
    BY <1>5, <2>1, <2>5, SpaceLinks
  <2> QED
    BY <1>5, <2>1, <2>2, <2>3, <2>4, <2>6 DEF FirstOf
<1>6. CASE k \notin {"login", "signup", "root", "space"}
  <2>1. ~IsEntry(a)
    BY <1>6 DEF IsEntry
  <2>2. d = None
    BY <1>1, <1>6, <2>1 DEF SignedInRedirect
  <2> QED
    BY <1>6, <2>1, <2>2
<1> QED
  BY <1>3, <1>4, <1>5, <1>6 DEF IsEntry

\* Where they take the person lies in the tree.
LEMMA HopInLands ==
  ASSUME NEW a, WellFormed(a), NEW hh \in Households,
         decideRouteRedirect(a, SignedIn(hh)) # None
  PROVE  LET d == decideRouteRedirect(a, SignedIn(hh))
         IN d \in Links /\ ~IsEntry(d)
<1> DEFINE d == decideRouteRedirect(a, SignedIn(hh))
<1>1. CASE IsEntry(a)
  <2>1. d \in Returns \/ d \in {Root, Home}
    BY <1>1, HopIn, Zenon
  <2> QED
    BY <2>1, HomeFacts DEF Returns, IsEntry, routeZone
<1>2. CASE RouteOf(a).kind = "root"
  <2>1. d = Home
    BY <1>2, HopIn, Zenon
  <2> QED
    BY <2>1, HomeFacts DEF IsEntry
<1>3. CASE RouteOf(a).kind = "space"
  <2>1. a \in Links /\ a.segment \in Segments
    BY <1>3, FormedFacts, LinkFacts
  <2>2. Proper(a.segment, hh) \in Segments
    BY <2>1, ProperFacts
  <2>3. d \in {Address(a.path, Proper(a.segment, hh), None), Address(GeneralPath, a.segment, None)}
    BY <1>3, HopIn, Zenon
  <2> QED
    BY <1>3, <2>1, <2>2, <2>3, SpaceLinks DEF IsEntry
<1> QED
  BY <1>1, <1>2, <1>3, HopIn DEF IsEntry

\* The rules where the person is signed out.
LEMMA HopOut ==
  ASSUME NEW a, WellFormed(a), NEW keep \in BOOLEAN
  PROVE  LET d == decideRouteRedirect(a, SignedOut(keep))
         IN /\ routeZone(RouteOf(a)) = "public" => d = None
            /\ routeZone(RouteOf(a)) # "public" =>
                 /\ a \in Links
                 /\ RouteOf(a).kind = "root" \/ ~keep => d = loginAddress(None)
                 /\ RouteOf(a).kind # "root" /\ keep => d = loginAddress(a) /\ a \in Returns
<1> DEFINE d == decideRouteRedirect(a, SignedOut(keep))
<1>1. /\ SignedOut(keep).kind = "signed-out" /\ SignedOut(keep).keepReturnAddress = keep
      /\ d = SignedOutRedirect(a, SignedOut(keep))
  BY DEF decideRouteRedirect, SignedOut
<1>2. CASE routeZone(RouteOf(a)) = "public"
  <2>1. SignedOutRedirect(a, SignedOut(keep)) = None
    BY <1>2 DEF SignedOutRedirect
  <2> QED
    BY <1>1, <1>2, <2>1
<1>3. CASE routeZone(RouteOf(a)) # "public"
  <2>1. ~IsEntry(a)
    BY <1>3 DEF IsEntry, routeZone
  <2>2. a \in Links
    BY <2>1, FormedFacts
  <2>3. d = IF RouteOf(a).kind = "root" \/ ~keep THEN loginAddress(None) ELSE loginAddress(a)
    BY <1>1, <1>3 DEF SignedOutRedirect
  <2> QED
    BY <1>3, <2>2, <2>3 DEF Returns
<1> QED
  BY <1>2, <1>3

-----------------------------------------------------------------------------
(* What a step does to a call, and to the gate.                            *)

Stage == {"idle", "sent", "answered", "listing", "listed"}

CallsTyped ==
  /\ call \in [Calls -> [at : Stage, session : 0 .. MaxSessions, answer : Answers \cup {None}]]
  /\ \A c \in Calls : call[c].at \in {"answered", "listed"} <=> call[c].answer # None
  /\ StagesInv

\* None is no link, no answer and no reason.
LEMMA Differs == None \notin Links /\ None \notin Answers /\ None \notin Reasons
BY GateAssumption

\* The calls of a well-typed state are at the stages they can be in.
LEMMA TypedCalls == TypeOK /\ StagesInv => CallsTyped
BY DEF TypeOK, CallsTyped, Stage

\* The numbers of sessions and cookies are within the bound.
LEMMA Sessions ==
  ASSUME TypeOK
  PROVE  /\ sessions \in Nat /\ MaxSessions \in Nat /\ sessions <= MaxSessions
         /\ cookie \in 0 .. MaxSessions /\ \A c \in Calls : call[c].session \in 0 .. MaxSessions
BY GateAssumption DEF TypeOK

\* One call changes, and the others do not.
OneCall(c, at, session, answer) ==
  /\ call'[c].at = at /\ call'[c].session = session /\ call'[c].answer = answer
  /\ \A d \in Calls : d # c => call'[d] = call[d]
  /\ CallsTyped'

\* Overwriting one call leaves the others alone and keeps them all typed.
LEMMA NewCall ==
  ASSUME CallsTyped, NEW c \in Calls, NEW at \in Stage, NEW s \in 0 .. MaxSessions,
         NEW answer \in Answers \cup {None},
         at \in {"answered", "listed"} <=> answer # None,
         at \in {"listing", "listed"} => c \in Entering,
         call' = [call EXCEPT ![c] = [at |-> at, session |-> s, answer |-> answer]]
  PROVE  OneCall(c, at, s, answer)
<1> DEFINE r == [at |-> at, session |-> s, answer |-> answer]
<1>1. /\ r.at = at /\ r.session = s /\ r.answer = answer
      /\ r \in [at : Stage, session : 0 .. MaxSessions, answer : Answers \cup {None}]
  OBVIOUS
<1> HIDE DEF r
<1>2. call' = [call EXCEPT ![c] = r]
  BY DEF r
<1>3. /\ call'[c] = r /\ \A d \in Calls : d # c => call'[d] = call[d]
      /\ call' \in [Calls -> [at : Stage, session : 0 .. MaxSessions, answer : Answers \cup {None}]]
  BY <1>1, <1>2 DEF CallsTyped
<1>4. \A d \in Calls : call'[d].at \in {"answered", "listed"} <=> call'[d].answer # None
  BY <1>1, <1>3 DEF CallsTyped
<1>5. StagesInv'
  BY <1>1, <1>3 DEF CallsTyped, StagesInv, AtHouseholds
<1> QED
  BY <1>1, <1>3, <1>4, <1>5 DEF OneCall, CallsTyped

\* The calls that begin, go on to the households and end.
LEMMA Begun ==
  ASSUME CallsTyped, NEW c \in Calls, NEW s \in 0 .. MaxSessions
  PROVE  /\ call' = Done(c) => OneCall(c, "idle", 0, None)
         /\ call' = [call EXCEPT ![c] = Sent(s)] => OneCall(c, "sent", s, None)
         /\ c \in Entering /\ call' = [call EXCEPT ![c] = Listing(s)] => OneCall(c, "listing", s, None)
<1>1. 0 \in 0 .. MaxSessions
  BY GateAssumption
<1>2. ASSUME call' = Done(c) PROVE OneCall(c, "idle", 0, None)
  BY <1>1, <1>2, NewCall DEF Done, Idle, Stage
<1>3. ASSUME call' = [call EXCEPT ![c] = Sent(s)] PROVE OneCall(c, "sent", s, None)
  BY <1>3, NewCall DEF Sent, Stage
<1>4. ASSUME c \in Entering, call' = [call EXCEPT ![c] = Listing(s)] PROVE OneCall(c, "listing", s, None)
  BY <1>4, NewCall DEF Listing, Stage
<1> QED
  BY <1>2, <1>3, <1>4

\* A call that has, or gets, another stage and answer.
LEMMA Answering ==
  ASSUME CallsTyped, NEW c \in Calls, NEW at \in {"answered", "listed"}, NEW answer \in Answers,
         at = "listed" => c \in Entering,
         \/ call' = [call EXCEPT ![c].at = at, ![c].answer = answer]
         \/ call' = [call EXCEPT ![c].answer = answer, ![c].at = at]
  PROVE  OneCall(c, at, call[c].session, answer)
<1>1. answer # None
  BY Differs
<1>2. /\ call'[c].at = at /\ call'[c].session = call[c].session /\ call'[c].answer = answer
      /\ \A d \in Calls : d # c => call'[d] = call[d]
      /\ call' \in [Calls -> [at : Stage, session : 0 .. MaxSessions, answer : Answers \cup {None}]]
  BY DEF CallsTyped, Stage
<1>3. \A d \in Calls : call'[d].at \in {"answered", "listed"} <=> call'[d].answer # None
  BY <1>1, <1>2 DEF CallsTyped
<1>4. StagesInv'
  BY <1>2 DEF CallsTyped, StagesInv, AtHouseholds
<1> QED
  BY <1>2, <1>3, <1>4 DEF OneCall, CallsTyped

\* The answer to a call moves it on by one stage.
LEMMA Answered ==
  ASSUME CallsTyped, NEW c \in Calls, NEW answer \in Answers,
         call[c].at \in {"sent", "listing"}, Answer(c, answer)
  PROVE  OneCall(c, IF call[c].at = "sent" THEN "answered" ELSE "listed", call[c].session, answer)
<1> DEFINE at == IF call[c].at = "sent" THEN "answered" ELSE "listed"
<1>1. at \in {"answered", "listed"} /\ (at = "listed" => c \in Entering)
  BY DEF CallsTyped, StagesInv, AtHouseholds
<1>2. call' = [call EXCEPT ![c].at = at, ![c].answer = answer]
  BY DEF Answer
<1> HIDE DEF at
<1>3. OneCall(c, at, call[c].session, answer)
  BY <1>1, <1>2, Answering
<1> QED
  BY <1>3 DEF at

\* A call that fails is answered with an error, at the stage it was waiting at.
LEMMA Failed ==
  ASSUME CallsTyped, NEW c \in Calls, CallFails(c)
  PROVE  OneCall(c, IF call[c].at \in {"sent", "answered"} THEN "answered" ELSE "listed",
                 call[c].session, "error")
<1> DEFINE at == IF call[c].at \in {"sent", "answered"} THEN "answered" ELSE "listed"
<1>1. call[c].at \in Stage /\ call[c].at # "idle" /\ "error" \in Answers
  BY DEF CallsTyped, CallFails, Answers
<1>2. at \in {"answered", "listed"} /\ (at = "listed" => c \in Entering)
  BY <1>1 DEF CallsTyped, StagesInv, AtHouseholds, Stage
<1>3. call' = [call EXCEPT ![c].answer = "error", ![c].at = at]
  BY DEF CallFails, CallsTyped
<1> HIDE DEF at
<1>4. OneCall(c, at, call[c].session, "error")
  BY <1>1, <1>2, <1>3, Answering
<1> QED
  BY <1>4 DEF at

GateTyped(g) ==
  /\ g \in [kind : {"checking", "unavailable", "two-factor", "signed-out", "signed-in"},
            reason : Reasons \cup {None}, households : Households]
  /\ g.kind = "signed-out" <=> g.reason # None
  /\ g.households # <<>> => g.kind = "signed-in"

\* The states the gate is put into are typed.
LEMMA Gates ==
  /\ GateTyped(Checking) /\ GateTyped(Unavailable) /\ GateTyped(TwoFactor)
  /\ \A reason \in Reasons : GateTyped(GateOut(reason))
  /\ \A hh \in Households : GateTyped(GateIn(hh))
BY Differs DEF GateTyped, Checking, Unavailable, TwoFactor, GateOut, GateIn, Gate, Households, Reasons

\* Hearing of an answer, or signing out locally, keeps the gate typed, and only signs out.
LEMMA GateHeard ==
  ASSUME TypeOK, NEW answer
  PROVE  /\ GateTyped(gate) /\ GateTyped(signOutLocally(gate)) /\ GateTyped(Heard(answer))
         /\ Heard(answer) \in {gate, GateOut("expired")}
         /\ Heard(answer) # gate => gate.kind = "signed-in" /\ answer = "unauthenticated"
         /\ signOutLocally(gate) = IF gate.kind = "signed-in" THEN GateOut("expired") ELSE gate
<1>1. GateTyped(gate)
  BY DEF TypeOK, GateTyped
<1>2. GateTyped(GateOut("expired"))
  BY Gates DEF Reasons
<1> QED
  BY <1>1, <1>2 DEF signOutLocally, Heard, isUnauthenticated

\* setState.
LEMMA BecomesFacts ==
  ASSUME TypeOK, NEW g, GateTyped(g), Becomes(g)
  PROVE  /\ gate' = g /\ hops' = 0 /\ overtaken' \in BOOLEAN
         /\ left' \in {None, left, address}
         /\ g.reason = "logout" => left' = None
         /\ overtaken => overtaken'
         /\ ~overtaken' => ~(gate.kind = "signed-in" /\ g.kind # "signed-in"
                             /\ g.reason # "logout" /\ call["logout"].at # "idle")
<1>1. gate' = g /\ hops' = 0
  BY DEF Becomes
<1>2. left' \in {None, left, address} /\ (g.reason = "logout" => left' = None)
  BY DEF Becomes
<1>3. overtaken' = (overtaken \/ (gate.kind = "signed-in" /\ g.kind # "signed-in"
                                   /\ g.reason # "logout" /\ call["logout"].at # "idle"))
  BY DEF Becomes
<1>4. overtaken \in BOOLEAN
  BY DEF TypeOK
<1> QED
  BY <1>1, <1>2, <1>3, <1>4

-----------------------------------------------------------------------------
(* The steps that leave the address alone.                                 *)

BffTyped ==
  /\ cookie \in 0 .. sessions /\ alive \subseteq 1 .. sessions /\ ended \subseteq 1 .. sessions
  /\ sessions \in 1 .. MaxSessions /\ moves \in 0 .. MaxMoves /\ faults \in 0 .. MaxFaults
  /\ doubt \subseteq Doubts

\* What the gate shows from one state to the next, and for how long.
GateStep ==
  /\ address' = address
  /\ GateTyped(gate')
  /\ households' \in {households, Homes}
  /\ \/ gate' = gate /\ hops' \in {hops, 0} /\ left' = left
     \/ hops' = 0 /\ left' \in {None, left, address} /\ (gate'.reason = "logout" => left' = None)
  /\ gate' = GateIn(<<>>) => households = <<>> \/ gate = gate'
  /\ gate'.households # <<>> => households' = Homes
  /\ overtaken' \in BOOLEAN

StepTyped == GateStep /\ CallsTyped' /\ SessionsInv' /\ BffTyped' /\ HomesInv'

Basics == TypeOK /\ StagesInv /\ SessionsInv /\ HomesInv

\* What the typed part of the invariant says, in the pieces the proofs use.
LEMMA BasicFacts ==
  ASSUME Basics
  PROVE  /\ TypeOK /\ CallsTyped /\ BffTyped /\ GateTyped(gate) /\ HomesInv
         /\ \A c \in Calls : call[c].session \in 0 .. sessions
         /\ {sessions, moves, faults, MaxSessions, MaxMoves, MaxFaults} \subseteq Nat
         /\ households \in {<<>>, Homes} /\ overtaken \in BOOLEAN
<1>1. TypeOK /\ CallsTyped /\ HomesInv
  BY TypedCalls DEF Basics
<1>2. BffTyped /\ GateTyped(gate) /\ households \in {<<>>, Homes} /\ overtaken \in BOOLEAN
  BY <1>1 DEF TypeOK, BffTyped, GateTyped, Households
<1>3. {sessions, moves, faults, MaxSessions, MaxMoves, MaxFaults} \subseteq Nat
  BY <1>2, GateAssumption DEF BffTyped
<1>4. \A c \in Calls : call[c].session \in 0 .. sessions
  BY <1>1, <1>3 DEF TypeOK, Basics, SessionsInv
<1> QED
  BY <1>1, <1>2, <1>3, <1>4

\* The gate and the households stay, or the households come to be.
LEMMA GateStays ==
  ASSUME Basics, UNCHANGED <<address, gate, left, overtaken>>, hops' \in {hops, 0},
         households' \in {households, Homes}
  PROVE  GateStep
<1>1. gate.households # <<>> => households' = Homes
  BY DEF Basics, HomesInv
<1> QED
  BY <1>1, BasicFacts DEF GateStep

\* A call changes in no way that says the household was made.
LEMMA HomesStay ==
  ASSUME Basics, NEW c \in Calls, NEW at, NEW s, NEW answer, OneCall(c, at, s, answer),
         GateStep, c = "create" /\ answer = "ok" => households' = Homes
  PROVE  HomesInv'
<1>1. "create" \in Calls
  BY DEF Calls
<1>2. call'["create"].answer = "ok" => households' = Homes
  BY <1>1 DEF OneCall, GateStep, Basics, HomesInv
<1> QED
  BY <1>2 DEF GateStep, HomesInv

\* Calls keep to the sessions that have begun.
LEMMA SessionsStay ==
  ASSUME Basics, NEW c \in Calls, NEW at, NEW s \in 0 .. sessions', NEW answer,
         OneCall(c, at, s, answer), sessions' \in {sessions, sessions + 1}
  PROVE  SessionsInv'
<1>1. sessions \in Nat /\ \A d \in Calls : call[d].session \in 0 .. sessions
  BY BasicFacts
<1>2. \A d \in Calls : call'[d].session <= sessions'
  BY <1>1 DEF OneCall
<1> QED
  BY <1>2 DEF SessionsInv

\* A call of the shell or an app is sent.
LEMMA SendStep ==
  ASSUME Basics, NEW c \in Calls, Send(c), hops' \in {hops, 0}, gate' = gate \/ (gate' = Checking /\ hops' = 0)
  PROVE  StepTyped /\ OneCall(c, "sent", cookie, None)
<1>1. cookie \in 0 .. MaxSessions /\ cookie \in 0 .. sessions
  BY Sessions, BasicFacts DEF Basics, BffTyped
<1>2. OneCall(c, "sent", cookie, None)
  BY <1>1, Begun, BasicFacts DEF Send
<1>3. UNCHANGED <<address, left, overtaken, households, sessions, cookie, alive, ended, moves, faults, doubt>>
  BY DEF Send, bff
<1>4. GateStep
  <2>1. CASE gate' = gate
    BY <1>3, <2>1, GateStays
  <2>2. CASE gate' = Checking /\ hops' = 0
    <3>1. GateTyped(Checking) /\ Checking.households = <<>> /\ Checking # GateIn(<<>>) /\ Checking.reason = None
      BY Gates DEF Checking, GateIn, Gate
    <3>2. None # "logout"
      BY GateAssumption DEF Reasons
    <3> QED
      BY <1>3, <2>2, <3>1, <3>2, BasicFacts DEF GateStep
  <2> QED
    BY <2>1, <2>2
<1>5. SessionsInv' /\ HomesInv'
  BY <1>1, <1>2, <1>3, <1>4, SessionsStay, HomesStay, Differs DEF Answers
<1>6. BffTyped'
  BY <1>3, BasicFacts DEF BffTyped
<1> QED
  BY <1>2, <1>4, <1>5, <1>6 DEF StepTyped, OneCall

\* setState, with what the gate may hear.
LEMMA GateBecomes ==
  ASSUME Basics, NEW g, GateTyped(g), Becomes(g), UNCHANGED <<address, households>>,
         g = GateIn(<<>>) => households = <<>> \/ gate = g,
         g.households # <<>> => households = Homes
  PROVE  GateStep
BY BecomesFacts, BasicFacts DEF GateStep

\* None of these is signed in.
LEMMA OutsideGates ==
  ASSUME NEW g \in {Checking, Unavailable, TwoFactor, GateOut("initial"), GateOut("expired"),
                    GateOut("logout")}
  PROVE  /\ GateTyped(g) /\ g.households = <<>> /\ g.kind # "signed-in" /\ g # GateIn(<<>>)
         /\ g.reason = "logout" <=> g = GateOut("logout")
<1>1. GateTyped(g)
  BY Gates DEF Reasons
<1>2. g.households = <<>> /\ g.kind # "signed-in"
  BY DEF Checking, Unavailable, TwoFactor, GateOut, Gate
<1>3. GateIn(<<>>).kind = "signed-in"
  BY DEF GateIn, Gate
<1>4. g.reason = "logout" <=> g = GateOut("logout")
  <2>1. None # "logout"
    BY GateAssumption DEF Reasons
  <2> QED
    BY <2>1 DEF Checking, Unavailable, TwoFactor, GateOut, Gate
<1> QED
  BY <1>1, <1>2, <1>3, <1>4

\* What the gate hears of a 401.
LEMMA HeardStep ==
  ASSUME Basics, NEW g, g \in {gate, GateOut("expired")}, Becomes(g), UNCHANGED <<address, households>>
  PROVE  GateStep
<1>1. g = gate \/ (GateTyped(g) /\ g.households = <<>> /\ g # GateIn(<<>>))
  BY OutsideGates
<1>2. GateTyped(gate) /\ (gate.households # <<>> => households = Homes)
  BY BasicFacts DEF HomesInv
<1>3. gate = GateIn(<<>>) => g = gate \/ g # GateIn(<<>>)
  BY <1>1
<1> QED
  BY <1>1, <1>2, <1>3, GateBecomes

\* An overlap adds only doubts the model names.
LEMMA OverlapTyped == ASSUME doubt \subseteq Doubts, NEW c, Overlaps(c) PROVE doubt' \subseteq Doubts
BY DEF Overlaps, Doubts

\* The second factor is not asked for after all.
LEMMA CancelStep == ASSUME Basics, CancelsCode PROVE StepTyped /\ call' = call /\ cookie' = cookie
<1>1. UNCHANGED <<address, call, left, overtaken, cookie, alive, ended, households, sessions, moves, faults>>
      /\ gate' = GateOut("initial") /\ hops' = 0
  BY DEF CancelsCode, bff
<1>2. GateStep
  <2>1. GateOut("initial").reason = "initial"
    BY DEF GateOut, Gate
  <2> QED
    BY <1>1, <2>1, OutsideGates, BasicFacts DEF GateStep
<1>3. BffTyped'
  BY <1>1, BasicFacts, OverlapTyped DEF BffTyped, CancelsCode
<1>4. CallsTyped' /\ SessionsInv'
  BY <1>1, BasicFacts DEF CallsTyped, StagesInv, AtHouseholds, SessionsInv, Basics
<1>5. HomesInv'
  BY <1>1, <1>2 DEF GateStep, HomesInv, Basics
<1> QED
  BY <1>1, <1>2, <1>3, <1>4, <1>5 DEF StepTyped

\* The stream says that the session ended.
LEMMA StreamStep == ASSUME Basics, StreamEnds PROVE StepTyped /\ call' = call /\ cookie' = cookie
<1>1. UNCHANGED <<address, call, cookie, alive, ended, households, sessions, moves, faults>>
      /\ Becomes(signOutLocally(gate))
  BY DEF StreamEnds, bff
<1>2. GateStep
  <2>1. signOutLocally(gate) \in {gate, GateOut("expired")}
    BY DEF signOutLocally
  <2> QED
    BY <1>1, <2>1, HeardStep
<1>3. BffTyped'
  BY <1>1, BasicFacts, OverlapTyped DEF BffTyped, StreamEnds
<1>4. CallsTyped' /\ SessionsInv'
  BY <1>1, BasicFacts DEF CallsTyped, StagesInv, AtHouseholds, SessionsInv, Basics
<1>5. HomesInv'
  BY <1>1, <1>2 DEF GateStep, HomesInv, Basics
<1> QED
  BY <1>1, <1>2, <1>3, <1>4, <1>5 DEF StepTyped

\* A new tab.
LEMMA ReloadStep == ASSUME Basics, Reloads PROVE StepTyped
<1>1. UNCHANGED <<address, left, overtaken, cookie, alive, ended, households, sessions, faults>>
      /\ gate' = Checking /\ hops' = 0 /\ moves' = moves + 1 /\ moves < MaxMoves
      /\ call' = [c \in Calls |-> IF c = "me" THEN Sent(cookie) ELSE Idle]
  BY DEF Reloads, bff
<1>2. GateStep
  <2>1. Checking.reason # "logout"
    BY GateAssumption DEF Checking, Gate, Reasons
  <2> QED
    BY <1>1, <2>1, OutsideGates, BasicFacts DEF GateStep
<1>3. BffTyped'
  <2>1. doubt' \subseteq Doubts
    BY BasicFacts DEF Reloads, BffTyped, Doubts
  <2> QED
    BY <1>1, <2>1, BasicFacts DEF BffTyped
<1>4. /\ cookie \in 0 .. MaxSessions /\ 0 \in 0 .. MaxSessions /\ cookie <= sessions /\ 0 <= sessions
  BY Sessions, BasicFacts, GateAssumption DEF Basics, BffTyped
<1>5. /\ Sent(cookie).at = "sent" /\ Sent(cookie).session = cookie /\ Sent(cookie).answer = None
      /\ Idle.at = "idle" /\ Idle.session = 0 /\ Idle.answer = None
      /\ Sent(cookie) \in [at : Stage, session : 0 .. MaxSessions, answer : Answers \cup {None}]
      /\ Idle \in [at : Stage, session : 0 .. MaxSessions, answer : Answers \cup {None}]
  BY <1>4 DEF Sent, Idle, Stage
<1>6. CallsTyped' /\ SessionsInv'
  BY <1>1, <1>4, <1>5 DEF CallsTyped, StagesInv, AtHouseholds, SessionsInv
<1>7. HomesInv'
  BY <1>1, <1>2, <1>5, Differs DEF GateStep, HomesInv, Answers, Calls
<1> QED
  BY <1>2, <1>3, <1>6, <1>7 DEF StepTyped

\* The session ends elsewhere.
LEMMA EndStep == ASSUME Basics, NEW s, SessionEnds(s) PROVE StepTyped /\ call' = call
<1>1. /\ UNCHANGED <<gate, address, call, cookie, households, sessions, moves, hops, left, overtaken, doubt>>
      /\ alive' = alive \ {s} /\ ended' = ended \cup {s} /\ s \in alive
      /\ faults' = faults + 1 /\ faults < MaxFaults
  BY DEF SessionEnds
<1>2. GateStep
  BY <1>1, GateStays
<1>3. BffTyped'
  BY <1>1, BasicFacts DEF BffTyped
<1>4. CallsTyped' /\ SessionsInv'
  BY <1>1, BasicFacts DEF CallsTyped, StagesInv, AtHouseholds, SessionsInv, Basics
<1>5. HomesInv'
  BY <1>1, <1>2 DEF GateStep, HomesInv, Basics
<1> QED
  BY <1>1, <1>2, <1>3, <1>4, <1>5 DEF StepTyped

\* A call fails.
LEMMA FailStep ==
  ASSUME Basics, NEW c \in Calls, CallFails(c)
  PROVE  /\ StepTyped
         /\ OneCall(c, IF call[c].at \in {"sent", "answered"} THEN "answered" ELSE "listed",
                    call[c].session, "error")
<1> DEFINE at == IF call[c].at \in {"sent", "answered"} THEN "answered" ELSE "listed"
<1>1. /\ UNCHANGED <<gate, address, cookie, alive, ended, households, sessions, moves, hops, left, overtaken>>
      /\ faults' = faults + 1 /\ faults < MaxFaults /\ doubt' = doubt \cup {"lost answer"}
  BY DEF CallFails, bff
<1>2. OneCall(c, at, call[c].session, "error")
  BY BasicFacts, Failed
<1> HIDE DEF at
<1>3. GateStep
  BY <1>1, GateStays
<1>4. SessionsInv' /\ HomesInv'
  BY <1>1, <1>2, <1>3, BasicFacts, SessionsStay, HomesStay
<1>5. BffTyped'
  <2>1. doubt' \subseteq Doubts
    BY <1>1, BasicFacts DEF BffTyped, Doubts
  <2>2. BffTyped /\ faults \in Nat /\ MaxFaults \in Nat
    BY BasicFacts
  <2>3. faults' \in 0 .. MaxFaults
    <3>1. faults' = faults + 1 /\ faults < MaxFaults
      BY <1>1
    <3>2. faults \in Nat /\ MaxFaults \in Nat
      BY <2>2
    <3> QED
      BY <3>1, <3>2
  <2>4. UNCHANGED <<cookie, alive, ended, sessions, moves>>
    BY <1>1
  <2> QED
    BY <2>1, <2>2, <2>3, <2>4 DEF BffTyped
<1> QED
  BY <1>2, <1>3, <1>4, <1>5 DEF StepTyped, OneCall, at

(***************************************************************************)
(* The BFF answers: a new session, or a word on the one the call came      *)
(* with, which is gone for good when the call was the logout.              *)
(***************************************************************************)
Replies(c) ==
  /\ call[c].at \in {"sent", "listing"}
  /\ UNCHANGED <<gate, address, moves, faults, hops, left, overtaken, doubt, cookie, ended>>
  /\ \/ /\ c \in Authenticating /\ call[c].at = "sent" /\ sessions < MaxSessions
        /\ sessions' = sessions + 1 /\ alive' = alive \cup {sessions + 1} /\ UNCHANGED households
        /\ OneCall(c, "answered", sessions + 1, "ok")
     \/ /\ c \in Authenticating /\ call[c].at = "sent" /\ UNCHANGED <<sessions, alive, households>>
        /\ \E answer \in {"failed", "twoFactor", "unauthenticated"} :
             /\ answer = "twoFactor" => c = "login"
             /\ answer = "unauthenticated" => c = "verify"
             /\ OneCall(c, "answered", call[c].session, answer)
     \/ /\ c \notin Authenticating \cup {"logout"} \/ (c \in Authenticating /\ call[c].at = "listing")
        /\ UNCHANGED <<sessions, alive>> /\ households' \in {households, Homes}
        /\ \E answer \in {"ok", "unauthenticated", "appRefuses"} :
             /\ answer = "ok" => call[c].session \in alive /\ (c = "create" => households' = Homes)
             /\ answer = "unauthenticated" => call[c].session \notin alive
             /\ answer = "appRefuses" => c = "api"
             /\ OneCall(c, IF call[c].at = "sent" THEN "answered" ELSE "listed", call[c].session, answer)
     \/ /\ c = "logout" /\ call[c].at = "sent" /\ UNCHANGED <<sessions, households>>
        /\ alive' = alive \ {call["logout"].session}
        /\ OneCall(c, "answered", call[c].session, "ok")

\* Each answer of the BFF: the call it moves on, and what it does to the cookie and the sessions.
LEMMA RepliesFacts == ASSUME Basics, NEW c \in Calls, BffAnswers(c) PROVE Replies(c)
<1>1. /\ call[c].at \in {"sent", "listing"}
      /\ UNCHANGED <<gate, address, moves, faults, hops, left, overtaken, doubt>>
  BY DEF BffAnswers
<1>2. CallsTyped /\ sessions \in Nat /\ MaxSessions \in Nat
  BY BasicFacts
<1>3. \A answer \in Answers : Answer(c, answer) =>
        OneCall(c, IF call[c].at = "sent" THEN "answered" ELSE "listed", call[c].session, answer)
  BY <1>1, <1>2, Answered
<1>4. CASE c = "logout"
  <2>1. BffLogsOut
    BY <1>4 DEF BffAnswers, Authenticating
  <2>2. call[c].at = "sent"
    BY <1>1, <1>2, <1>4 DEF CallsTyped, StagesInv, AtHouseholds, Entering
  <2> QED
    BY <1>1, <1>3, <1>4, <2>1, <2>2 DEF BffLogsOut, Replies, Answers
<1>5. CASE c \in Authenticating /\ call[c].at = "sent"
  <2>1. c # "logout" /\ BffAuthenticates(c)
    BY <1>5 DEF BffAnswers, Authenticating
  <2>2. CASE /\ sessions < MaxSessions /\ sessions' = sessions + 1
             /\ alive' = alive \cup {sessions + 1}
             /\ call' = [call EXCEPT ![c] = [at |-> "answered", session |-> sessions + 1, answer |-> "ok"]]
             /\ UNCHANGED <<cookie, ended, households>>
    <3>1. sessions + 1 \in 0 .. MaxSessions
      BY <1>2, <2>2
    <3>2. OneCall(c, "answered", sessions + 1, "ok")
      BY <1>2, <2>2, <3>1, NewCall, Differs DEF Answers, Stage
    <3> QED
      BY <1>1, <1>5, <2>2, <3>2 DEF Replies
  <2>3. CASE /\ \/ Answer(c, "failed")
                \/ c = "login" /\ Answer(c, "twoFactor")
                \/ c = "verify" /\ Answer(c, "unauthenticated")
             /\ UNCHANGED bff
    <3>1. PICK answer \in {"failed", "twoFactor", "unauthenticated"} :
            /\ answer = "twoFactor" => c = "login"
            /\ answer = "unauthenticated" => c = "verify"
            /\ Answer(c, answer)
      BY <2>3
    <3>2. OneCall(c, "answered", call[c].session, answer)
      BY <1>3, <1>5, <3>1 DEF Answers
    <3> QED
      BY <1>1, <1>5, <2>3, <3>1, <3>2 DEF Replies, bff
  <2> QED
    BY <2>1, <2>2, <2>3 DEF BffAuthenticates
<1>6. CASE c # "logout" /\ ~(c \in Authenticating /\ call[c].at = "sent")
  <2>1. BffServes(c)
    BY <1>6 DEF BffAnswers
  <2>2. /\ UNCHANGED <<cookie, alive, ended, sessions>>
        /\ households' = IF c = "create" /\ call[c].session \in alive THEN Homes ELSE households
    BY <2>1 DEF BffServes
  <2>3. PICK answer \in {"ok", "unauthenticated", "appRefuses"} :
          /\ answer = "ok" => call[c].session \in alive
          /\ answer = "unauthenticated" => call[c].session \notin alive
          /\ answer = "appRefuses" => c = "api"
          /\ Answer(c, answer)
    BY <2>1 DEF BffServes
  <2>4. OneCall(c, IF call[c].at = "sent" THEN "answered" ELSE "listed", call[c].session, answer)
    BY <1>3, <2>3 DEF Answers
  <2>5. c \notin Authenticating \cup {"logout"} \/ (c \in Authenticating /\ call[c].at = "listing")
    BY <1>1, <1>6
  <2>6. households' \in {households, Homes} /\ (answer = "ok" /\ c = "create" => households' = Homes)
    BY <2>2, <2>3
  <2> QED
    BY <1>1, <2>2, <2>3, <2>4, <2>5, <2>6 DEF Replies
<1> QED
  BY <1>4, <1>5, <1>6

\* An answer of the BFF keeps the types.
LEMMA ReplyStep == ASSUME Basics, NEW c \in Calls, BffAnswers(c) PROVE StepTyped
<1>1. Replies(c)
  BY RepliesFacts
<1>2. PICK at, s, answer :
        /\ OneCall(c, at, s, answer) /\ s \in 0 .. sessions' /\ sessions' \in {sessions, sessions + 1}
        /\ c = "create" /\ answer = "ok" => households' = Homes
  <2>1. sessions \in Nat /\ call[c].session \in 0 .. sessions
    BY BasicFacts
  <2> QED
    BY <1>1, <2>1 DEF Replies, Authenticating
<1>3. GateStep
  BY <1>1, GateStays DEF Replies
<1>4. SessionsInv' /\ HomesInv'
  BY <1>2, <1>3, SessionsStay, HomesStay
<1>5. BffTyped'
  BY <1>1, BasicFacts DEF Replies, BffTyped
<1> QED
  BY <1>2, <1>3, <1>4, <1>5 DEF StepTyped, OneCall

(***************************************************************************)
(* What the gate does with an answer, by the call and its stage.           *)
(***************************************************************************)
LEMMA HearCases ==
  ASSUME Basics, NEW c \in Calls, GateHears(c)
  PROVE  /\ UNCHANGED <<address, alive, ended, households, sessions, moves, faults>>
         /\ \/ call[c].at = "listed" /\ c \in Entering /\ GetsHouseholds(c)
            \/ call[c].at = "answered" /\ c = "me" /\ GetsPerson
            \/ call[c].at = "answered" /\ c \in Authenticating /\ Authenticated(c)
            \/ call[c].at = "answered" /\ c = "logout" /\ LoggedOut
            \/ call[c].at = "answered" /\ c = "create" /\ CreatedHousehold
            \/ call[c].at = "answered" /\ c = "api" /\ ApiAnswered
<1>1. /\ UNCHANGED <<address, alive, ended, households, sessions, moves, faults>>
      /\ call[c].at \in {"answered", "listed"}
  BY DEF GateHears
<1>2. CASE call[c].at = "listed"
  <2>1. c \in Entering
    BY <1>2 DEF Basics, StagesInv, AtHouseholds
  <2>2. GetsHouseholds(c)
    BY <1>2, <2>1 DEF GateHears, Entering
  <2> QED
    BY <1>1, <1>2, <2>1, <2>2
<1>3. CASE call[c].at = "answered"
  <2>1. c = "me" => GetsPerson
    BY <1>3 DEF GateHears, Authenticating
  <2>2. c \in Authenticating => Authenticated(c)
    BY <1>3 DEF GateHears, Authenticating
  <2>3. /\ c = "logout" => LoggedOut
        /\ c = "create" => CreatedHousehold
        /\ c = "api" => ApiAnswered
    BY <1>3 DEF GateHears, Authenticating
  <2> QED
    BY <1>1, <1>3, <2>1, <2>2, <2>3 DEF Calls, Authenticating
<1> QED
  BY <1>1, <1>2, <1>3

\* The cookie is a session's that there is.
LEMMA CookieTyped ==
  ASSUME Basics, NEW c \in Calls, cookie' \in {0, cookie, call[c].session} \/ TakesCookie(c)
  PROVE  cookie' \in 0 .. sessions
<1>1. call[c].session \in 0 .. sessions /\ cookie \in 0 .. sessions /\ sessions \in Nat
  BY BasicFacts DEF BffTyped
<1> QED
  BY <1>1 DEF TakesCookie

\* The call goes on to the households, or is over.
Over(c) ==
  \/ OneCall(c, "idle", 0, None)
  \/ c \in Entering /\ call[c].answer = "ok" /\ OneCall(c, "listing", call[c].session, None)

\* A call taken by the gate is over, or goes on to ask for the households.
LEMMA Overs ==
  ASSUME Basics, NEW c \in Calls
  PROVE  /\ call' = Done(c) => OneCall(c, "idle", 0, None)
         /\ c \in Entering /\ call' = [call EXCEPT ![c] = Listing(call[c].session)] =>
              OneCall(c, "listing", call[c].session, None)
<1>1. CallsTyped /\ call[c].session \in 0 .. MaxSessions
  BY BasicFacts, Sessions
<1> QED
  BY <1>1, Begun

\* An answer the gate hears keeps the types, and the call is over or goes on.
LEMMA HearStep ==
  ASSUME Basics, NEW c \in Calls, GateHears(c)
  PROVE  StepTyped /\ Over(c)
<1>1. UNCHANGED <<address, alive, ended, households, sessions, moves, faults>>
  BY HearCases
<1>2. GateStep /\ Over(c) /\ cookie' \in 0 .. sessions /\ doubt' \subseteq Doubts
  <2>1. doubt \subseteq Doubts /\ BffTyped
    BY BasicFacts DEF BffTyped
  <2>2. Overlaps(c) \/ Overlaps("api") => doubt' \subseteq Doubts
    BY <2>1, OverlapTyped
  <2>3. gate' = gate /\ hops' = hops /\ UNCHANGED <<left, overtaken>> => GateStep
    BY <1>1, GateStays
  <2>4. \A g \in {Unavailable, TwoFactor, GateOut("initial"), GateOut("expired"), GateOut("logout")} :
          Becomes(g) => GateStep
    BY <1>1, OutsideGates, GateBecomes
  <2>5. CASE call[c].at = "listed" /\ c \in Entering /\ GetsHouseholds(c)
    <3>1. Over(c) /\ cookie' \in 0 .. sessions /\ doubt' \subseteq Doubts
      BY <2>2, <2>5, Overs, CookieTyped DEF GetsHouseholds, Over
    <3>2. households \in Households /\ GateTyped(GateIn(households))
      BY BasicFacts, Gates DEF Households
    <3>3. GateIn(households).households = households /\ GateIn(<<>>).households = <<>>
      BY DEF GateIn, Gate
    <3>4. Becomes(GateIn(households)) => GateStep
      BY <1>1, <3>2, <3>3, GateBecomes DEF Households
    <3>5. GateStep
      BY <2>4, <2>5, <3>4 DEF GetsHouseholds
    <3> QED
      BY <3>1, <3>5
  <2>6. CASE c = "me" /\ GetsPerson
    <3>1. Over(c)
      BY <2>6, Overs DEF GetsPerson, Enters, Over, Entering
    <3>2. cookie' \in 0 .. sessions /\ doubt' \subseteq Doubts
      BY <2>2, <2>6, CookieTyped DEF GetsPerson, Enters
    <3>3. GateStep
      BY <2>3, <2>4, <2>6 DEF GetsPerson, Stays
    <3> QED
      BY <3>1, <3>2, <3>3
  <2>7. CASE c \in Authenticating /\ Authenticated(c)
    <3>1. Over(c)
      BY <2>7, Overs DEF Authenticated, Enters, Over, Entering, Authenticating
    <3>2. cookie' \in 0 .. sessions /\ doubt' \subseteq Doubts
      BY <2>2, <2>7, CookieTyped DEF Authenticated, Enters
    <3>3. GateStep
      BY <2>3, <2>4, <2>7 DEF Authenticated, Stays
    <3> QED
      BY <3>1, <3>2, <3>3
  <2>8. CASE c = "logout" /\ LoggedOut
    <3>1. Over(c) /\ cookie' \in 0 .. sessions /\ doubt' \subseteq Doubts
      BY <2>2, <2>8, Overs, CookieTyped DEF LoggedOut, Over
    <3>2. GateStep
      BY <2>4, <2>8 DEF LoggedOut, afterLogout
    <3> QED
      BY <3>1, <3>2
  <2>9. CASE c = "create" /\ CreatedHousehold
    <3>1. Over(c) /\ cookie' \in 0 .. sessions /\ doubt' \subseteq Doubts
      BY <2>2, <2>9, Overs, CookieTyped DEF CreatedHousehold, Over
    <3>2. CASE call["create"].answer = "ok"
      <4>1. households = Homes /\ Homes # <<>>
        BY <3>2, BasicFacts, GateAssumption DEF HomesInv
      <4>2. GateTyped(GateIn(Homes)) /\ GateIn(Homes).households = Homes /\ GateIn(<<>>).households = <<>>
        BY Gates DEF GateIn, Gate, Households
      <4>3. GateStep
        BY <1>1, <2>9, <3>2, <4>1, <4>2, GateBecomes DEF CreatedHousehold
      <4> QED
        BY <3>1, <4>3
    <3>3. CASE call["create"].answer # "ok"
      <4>1. Heard(call["create"].answer) \in {gate, GateOut("expired")}
        BY BasicFacts, GateHeard
      <4>2. GateStep
        BY <1>1, <2>9, <3>3, <4>1, HeardStep DEF CreatedHousehold
      <4> QED
        BY <3>1, <4>2
    <3> QED
      BY <3>2, <3>3
  <2>10. CASE c = "api" /\ ApiAnswered
    <3>1. doubt' \subseteq Doubts
      BY <2>1, <2>2, <2>10 DEF ApiAnswered, Doubts
    <3>2. Over(c) /\ cookie' \in 0 .. sessions
      BY <2>10, Overs, CookieTyped DEF ApiAnswered, Over
    <3>3. Heard(call["api"].answer) \in {gate, GateOut("expired")}
      BY BasicFacts, GateHeard
    <3>4. GateStep
      BY <1>1, <2>10, <3>3, HeardStep DEF ApiAnswered
    <3> QED
      BY <3>1, <3>2, <3>4
  <2>11. \/ call[c].at = "listed" /\ c \in Entering /\ GetsHouseholds(c)
         \/ c = "me" /\ GetsPerson
         \/ c \in Authenticating /\ Authenticated(c)
         \/ c = "logout" /\ LoggedOut
         \/ c = "create" /\ CreatedHousehold
         \/ c = "api" /\ ApiAnswered
    BY HearCases
  <2> QED
    BY <2>5, <2>6, <2>7, <2>8, <2>9, <2>10, <2>11
<1>3. PICK at, s : OneCall(c, at, s, None) /\ s \in {0, call[c].session}
  BY <1>2 DEF Over
<1>4. SessionsInv' /\ HomesInv'
  <2>1. sessions \in Nat /\ call[c].session \in 0 .. sessions
    BY BasicFacts
  <2>2. s \in 0 .. sessions'
    BY <1>1, <1>3, <2>1
  <2> QED
    BY <1>1, <1>2, <1>3, <2>2, SessionsStay, HomesStay, Differs DEF Answers
<1>5. BffTyped'
  BY <1>1, <1>2, BasicFacts DEF BffTyped
<1> QED
  BY <1>2, <1>3, <1>4, <1>5 DEF StepTyped, OneCall

-----------------------------------------------------------------------------
(* The address.                                                            *)

\* From the household's settings and segment on, in either order.
LEMMA WayFacts ==
  ASSUME NEW b \in Links, RouteOf(b).kind = "space"
  PROVE  /\ Canonised(b) \in Links /\ RouteOf(Canonised(b)) = RouteOf(b)
         /\ Canonised(b).segment = Proper(b.segment, Homes)
         /\ Canonised(b) = Address(b.path, Proper(b.segment, Homes), None)
         /\ General(b) \in Links /\ RouteOf(General(b)).kind = "space"
         /\ General(b).segment = b.segment
         /\ General(b) = IF RouteOf(b).section = "settings"
                         THEN Address(GeneralPath, b.segment, None) ELSE b
         /\ RouteOf(General(b)).section # "settings"
<1> DEFINE s == b.segment
           t == Proper(s, Homes)
           c == Address(b.path, t, None)
           g == Address(GeneralPath, s, None)
<1>1. b = Address(b.path, s, None) /\ s \in Segments /\ b # None
  BY LinkFacts
<1>2. t \in Segments /\ Homes \in Households
  BY <1>1, ProperFacts DEF Households
<1>3. c \in Links /\ RouteOf(c) = RouteOf(b) /\ c.segment = t /\ c # None
  BY <1>2, SpaceLinks
<1>4. /\ g \in Links /\ RouteOf(g).kind = "space" /\ RouteOf(g).section = "general"
      /\ g.segment = s /\ g # None
  BY <1>1, SpaceLinks
<1>5. Canonised(b) = c
  <2>1. canonicalSpaceAddress(b, Homes) = IF Settled(s, Homes) THEN None ELSE c
    BY <1>2, CanonicalFacts
  <2>2. Settled(s, Homes) => c = b
    <3>1. Settled(s, Homes) => t = s
      BY <1>1, <1>2, ProperFacts
    <3> QED
      BY <1>1, <3>1
  <2> QED
    BY <1>1, <1>3, <2>1, <2>2 DEF Canonised, FirstOf
<1>6. General(b) = IF RouteOf(b).section = "settings" THEN g ELSE b
  BY <1>1, <1>4 DEF General, SettingsRedirect, FirstOf, GeneralPath
<1> HIDE DEF c, g
<1> QED
  BY <1>3, <1>4, <1>5, <1>6 DEF c, g

\* Making an address canonical or general a second time changes nothing, and the order is free.
LEMMA WayAgain ==
  ASSUME NEW b \in Links, RouteOf(b).kind = "space"
  PROVE  /\ Canonised(Canonised(b)) = Canonised(b)
         /\ General(General(b)) = General(b)
         /\ General(Canonised(b)) = Canonised(General(b))
<1> DEFINE s == b.segment
           t == Proper(s, Homes)
           c == Canonised(b)
           g == General(b)
<1>1. s \in Segments /\ Homes \in Households
  BY LinkFacts DEF Households
<1>2. Proper(t, Homes) = t
  <2>1. t \in Segments
    BY <1>1, ProperFacts
  <2>2. CASE s.encoded
    BY <1>1, <2>1, <2>2, ProperFacts
  <2>3. CASE ~s.encoded
    BY <1>1, <2>1, <2>3, ProperFacts
  <2> QED
    BY <2>2, <2>3
<1>3. /\ c \in Links /\ RouteOf(c) = RouteOf(b) /\ c.segment = t
      /\ c = Address(b.path, t, None)
  BY WayFacts
<1>4. /\ g \in Links /\ RouteOf(g).kind = "space" /\ g.segment = s
      /\ g = IF RouteOf(b).section = "settings" THEN Address(GeneralPath, s, None) ELSE b
      /\ RouteOf(g).section # "settings"
  BY WayFacts
<1> HIDE DEF c, g
<1>5. c.path = b.path /\ (RouteOf(b).section = "settings" => g.path = GeneralPath)
  BY <1>3, <1>4 DEF Address
<1>6. Canonised(c) = c
  <2>1. Canonised(c) = Address(c.path, Proper(c.segment, Homes), None)
    BY <1>3, WayFacts
  <2> QED
    BY <1>2, <1>3, <1>5, <2>1
<1>7. General(g) = g
  BY <1>4, WayFacts
<1>8. General(c) = Canonised(g)
  <2>1. General(c) = IF RouteOf(b).section = "settings" THEN Address(GeneralPath, t, None) ELSE c
    BY <1>3, WayFacts
  <2>2. Canonised(g) = Address(g.path, t, None)
    BY <1>4, WayFacts
  <2> QED
    BY <1>3, <1>4, <1>5, <2>1, <2>2
<1> QED
  BY <1>6, <1>7, <1>8 DEF c, g

\* What the person is on the way to stays so along the rules.
LEMMA WayClosed ==
  ASSUME NEW b \in Links, NEW x \in OnTheWay(b)
  PROVE  /\ x \in Links
         /\ RouteOf(x).kind = "root" => RouteOf(b).kind = "root" /\ Home \in OnTheWay(b)
         /\ RouteOf(x).kind = "space" => Canonised(x) \in OnTheWay(b) /\ General(x) \in OnTheWay(b)
         /\ x \in BeforeHomes(b) /\ RouteOf(x).kind = "space" => General(x) \in BeforeHomes(b)
<1>1. CASE RouteOf(b).kind = "root"
  <2>1. x \in {b, Home, Canonised(Home)} /\ OnTheWay(b) = {b, Home, Canonised(Home)}
    BY <1>1 DEF OnTheWay
  <2>2. BeforeHomes(b) = {b}
    BY <1>1 DEF BeforeHomes
  <2>3. Home \in Links /\ RouteOf(Home).kind = "space" /\ RouteOf(Home).section = "home"
    BY HomeFacts
  <2>4. /\ Canonised(Home) \in Links /\ RouteOf(Canonised(Home)) = RouteOf(Home)
        /\ Canonised(Canonised(Home)) = Canonised(Home)
    BY <2>3, WayFacts, WayAgain
  <2>5. General(Home) = Home /\ General(Canonised(Home)) = Canonised(Home)
    BY <2>3, <2>4, WayFacts
  <2> QED
    BY <1>1, <2>1, <2>2, <2>3, <2>4, <2>5
<1>2. CASE RouteOf(b).kind = "space"
  <2> DEFINE c == Canonised(b)
             g == General(b)
  <2>1. x \in {b, c, g, Canonised(g)} /\ OnTheWay(b) = {b, c, g, Canonised(g)}
    BY <1>2 DEF OnTheWay
  <2>2. BeforeHomes(b) = {b, g}
    BY <1>2 DEF BeforeHomes
  <2>3. /\ c \in Links /\ RouteOf(c).kind = "space" /\ g \in Links /\ RouteOf(g).kind = "space"
        /\ Canonised(c) = c /\ General(g) = g /\ General(c) = Canonised(g)
    BY <1>2, WayFacts, WayAgain
  <2>4. /\ Canonised(g) \in Links /\ RouteOf(Canonised(g)).kind = "space"
        /\ Canonised(Canonised(g)) = Canonised(g) /\ General(Canonised(g)) = Canonised(g)
    BY <2>3, WayFacts, WayAgain
  <2> HIDE DEF c, g
  <2>5. Canonised(b) = c /\ General(b) = g
    BY DEF c, g
  <2> QED
    BY <1>2, <2>1, <2>2, <2>3, <2>4, <2>5
<1>3. CASE RouteOf(b).kind \notin {"root", "space"}
  <2>1. x = b
    BY <1>3 DEF OnTheWay
  <2> QED
    BY <1>3, <2>1
<1> QED
  BY <1>1, <1>2, <1>3

\* What a well-formed address leads to.
LEMMA AimFacts ==
  ASSUME NEW a, WellFormed(a)
  PROVE  /\ Aim(a) \in Links /\ ~IsEntry(Aim(a))
         /\ ~IsEntry(a) => Aim(a) = a
         /\ IsEntry(a) /\ a.from = None => Aim(a) = Root
         /\ IsEntry(a) /\ a.from # None => Aim(a) = a.from /\ a.from \in Returns
<1>1. CASE ~IsEntry(a)
  BY <1>1, FormedFacts DEF Aim
<1>2. CASE IsEntry(a) /\ a.from = None
  BY <1>2, HomeFacts DEF Aim, FirstOf, IsEntry
<1>3. CASE IsEntry(a) /\ a.from # None
  <2>1. a.from \in Returns
    BY <1>3, FormedFacts
  <2> QED
    BY <1>3, <2>1 DEF Aim, FirstOf, Returns, IsEntry, routeZone
<1> QED
  BY <1>1, <1>2, <1>3

\* A link to the root is the root.
LEMMA RootFacts == ASSUME NEW a \in Links, RouteOf(a).kind = "root" PROVE a = Root
<1>1. a = Address(a.path, a.segment, None) /\ a.path \in Paths /\ a.segment = None
  BY LinkFacts
<1>2. a.path = <<>>
  BY <1>1, RouteFacts DEF RouteOf
<1> QED
  BY <1>1, <1>2 DEF Root, Plain

\* The rules where the person is signed in, by what the address leads to.
LEMMA AimMoves ==
  ASSUME NEW a, WellFormed(a), NEW hh \in Households,
         decideRouteRedirect(a, SignedIn(hh)) # None
  PROVE  LET d == decideRouteRedirect(a, SignedIn(hh))
             x == Aim(a)
         IN /\ d \in Links /\ ~IsEntry(d) /\ Aim(d) = d
            /\ \/ d = x
               \/ hh = Homes /\ RouteOf(x).kind = "root" /\ d = Home
               \/ hh = Homes /\ RouteOf(x).kind = "space" /\ d = Canonised(x)
               \/ RouteOf(x).kind = "space" /\ d = General(x)
<1> DEFINE d == decideRouteRedirect(a, SignedIn(hh))
           x == Aim(a)
<1>1. d \in Links /\ ~IsEntry(d)
  BY HopInLands, Zenon
<1>2. Aim(d) = d
  BY <1>1 DEF Aim
<1>3. hh = <<>> \/ hh = Homes
  BY DEF Households
<1>4. CASE IsEntry(a) /\ a.from # None
  <2>1. d = a.from
    BY <1>4, HopIn, Zenon
  <2>2. x = a.from
    BY <1>4, AimFacts
  <2> QED
    BY <1>1, <1>2, <2>1, <2>2
<1>5. CASE IsEntry(a) /\ a.from = None
  <2>1. d = IF hh = <<>> THEN Root ELSE Home
    BY <1>5, HopIn, Zenon
  <2>2. x = Root /\ RouteOf(Root).kind = "root"
    BY <1>5, AimFacts, HomeFacts
  <2> QED
    BY <1>1, <1>2, <1>3, <2>1, <2>2
<1>6. CASE RouteOf(a).kind = "root"
  <2>1. d = Home /\ hh # <<>>
    BY <1>6, HopIn, Zenon
  <2>2. x = a
    BY <1>6, AimFacts DEF IsEntry
  <2> QED
    BY <1>1, <1>2, <1>3, <1>6, <2>1, <2>2
<1>7. CASE RouteOf(a).kind = "space"
  <2>1. x = a /\ a \in Links /\ a.segment \in Segments
    BY <1>7, AimFacts, FormedFacts, LinkFacts DEF IsEntry
  <2>2. d = IF ~Settled(a.segment, hh) THEN Address(a.path, Proper(a.segment, hh), None)
            ELSE IF RouteOf(a).section = "settings" THEN Address(GeneralPath, a.segment, None)
            ELSE None
    BY <1>7, HopIn, Zenon
  <2>3. CASE ~Settled(a.segment, hh)
    <3>1. hh = Homes
      BY <1>3, <2>1, <2>3, ProperFacts
    <3>2. d = Canonised(a)
      BY <1>7, <2>1, <2>2, <2>3, <3>1, WayFacts
    <3> QED
      BY <1>1, <1>2, <1>7, <2>1, <3>1, <3>2
  <2>4. CASE Settled(a.segment, hh)
    <3>1. d = Address(GeneralPath, a.segment, None) /\ RouteOf(a).section = "settings"
      BY <2>2, <2>4
    <3>2. d = General(a)
      BY <1>7, <2>1, <3>1, WayFacts
    <3> QED
      BY <1>1, <1>2, <1>7, <2>1, <3>2
  <2> QED
    BY <2>3, <2>4
<1> QED
  BY <1>4, <1>5, <1>6, <1>7, HopIn DEF IsEntry

-----------------------------------------------------------------------------
(* The steps that move the address.                                        *)

AddressPart == AddressInv /\ HopsInv /\ LeftInv

\* The session the rules see.
LEMMA SessionFacts ==
  ASSUME TypeOK
  PROVE  /\ gate.kind = "signed-in" =>
              /\ Session = SignedIn(gate.households) /\ gate.households \in Households
              /\ gate = GateIn(gate.households)
         /\ gate.kind = "signed-out" =>
              /\ Session = SignedOut(gate.reason # "logout") /\ (gate.reason # "logout") \in BOOLEAN
              /\ gate.reason = "logout" <=> gate = GateOut("logout")
         /\ Redirect # None => gate.kind \in {"signed-in", "signed-out"}
<1>1. GateTyped(gate)
  BY DEF TypeOK, GateTyped
<1>2. CASE gate.kind = "signed-in"
  <2>1. gate = GateIn(gate.households)
    BY <1>1, <1>2 DEF GateTyped, GateIn, Gate
  <2> QED
    BY <1>1, <1>2, <2>1 DEF Session, GateTyped
<1>3. CASE gate.kind = "signed-out"
  <2>1. gate.households = <<>>
    BY <1>1, <1>3 DEF GateTyped
  <2>2. gate.reason = "logout" <=> gate = GateOut("logout")
    BY <1>1, <1>3, <2>1 DEF GateTyped, GateOut, Gate
  <2> QED
    BY <1>3, <2>2 DEF Session
<1>4. CASE gate.kind \notin {"signed-in", "signed-out"}
  <2>1. Session = Pending
    BY <1>4 DEF Session
  <2>2. Redirect = None
    BY <2>1 DEF Redirect, decideRouteRedirect, Pending
  <2> QED
    BY <1>4, <2>2
<1> QED
  BY <1>2, <1>3, <1>4

\* The rules move the address.
LEMMA RedirectsOut ==
  ASSUME TypeOK, HomesInv, AddressPart, Redirects, gate.kind = "signed-out"
  PROVE  AddressPart' /\ (gate = GateOut("logout") => address'.from = None)
<1> DEFINE keep == gate.reason # "logout"
           d == decideRouteRedirect(address, SignedOut(keep))
<1>1. /\ address' = Redirect /\ Redirect # None
      /\ hops' = (IF hops < MaxHops THEN hops + 1 ELSE MaxHops)
      /\ UNCHANGED <<gate, left, households>>
  BY DEF Redirects, bff
<1>2. Redirect = d /\ keep \in BOOLEAN /\ (~keep <=> gate = GateOut("logout"))
  BY SessionFacts DEF Redirect
<1>3. WellFormed(address)
  BY DEF AddressPart, AddressInv
<1>4. routeZone(RouteOf(address)) # "public" /\ address \in Links
  <2>1. routeZone(RouteOf(address)) = "public" => d = None
    BY <1>2, <1>3, HopOut, Zenon
  <2>2. routeZone(RouteOf(address)) # "public" => address \in Links
    BY <1>2, <1>3, HopOut, Zenon
  <2> QED
    BY <1>1, <1>2, <2>1, <2>2
<1>5. \/ d = loginAddress(None) /\ (RouteOf(address).kind = "root" \/ ~keep)
      \/ d = loginAddress(address) /\ address \in Returns /\ keep
  <2>1. RouteOf(address).kind = "root" \/ ~keep => d = loginAddress(None)
    BY <1>2, <1>3, <1>4, HopOut, Zenon
  <2>2. RouteOf(address).kind # "root" /\ keep => d = loginAddress(address) /\ address \in Returns
    BY <1>2, <1>3, <1>4, HopOut, Zenon
  <2> QED
    BY <2>1, <2>2
<1> HIDE DEF keep, d
<1>6. WellFormed(d) /\ IsEntry(d)
  BY <1>5, LoginFacts DEF WellFormed
<1>7. AddressInv'
  BY <1>1, <1>2, <1>6 DEF AddressPart, AddressInv
<1>8. HopsInv'
  <2>1. hops = 0
    <3>1. hops > 0 => routeZone(RouteOf(address)) = "public"
      BY DEF AddressPart, HopsInv
    <3> QED
      BY <1>4, <3>1 DEF TypeOK, MaxHops
  <2>2. hops' = 1
    BY <1>1, <2>1 DEF MaxHops
  <2>3. routeZone(RouteOf(d)) = "public"
    BY <1>6 DEF IsEntry, routeZone
  <2> QED
    BY <1>1, <1>2, <2>2, <2>3 DEF HopsInv
<1>9. LeftInv'
  <2>1. SUFFICES ASSUME left # None PROVE LeftInv'
    BY <1>1 DEF LeftInv
  <2>2. keep
    BY <1>2, <2>1 DEF AddressPart, LeftInv
  <2>3. Aim(address) = address
    BY <1>3, <1>4, AimFacts DEF IsEntry, routeZone
  <2>4. Aim(d) = address
    <3>1. CASE d = loginAddress(None) /\ RouteOf(address).kind = "root"
      <4>1. address = Root
        BY <1>4, <3>1, RootFacts
      <4>2. Aim(d) = Root
        BY <1>6, <3>1, LoginFacts, AimFacts
      <4> QED
        BY <4>1, <4>2
    <3>2. CASE d = loginAddress(address) /\ address \in Returns
      <4>1. d.from = address /\ address # None
        BY <1>4, <3>2, LoginFacts, LinkFacts
      <4> QED
        BY <1>6, <4>1, AimFacts
    <3> QED
      BY <1>5, <2>2, <3>1, <3>2
  <2>5. Aim(address)' = Aim(address)
    BY <1>1, <1>2, <2>3, <2>4
  <2> QED
    BY <1>1, <2>1, <2>5 DEF AddressPart, LeftInv
<1>10. gate = GateOut("logout") => d.from = None
  BY <1>2, <1>5, LoginFacts
<1> QED
  BY <1>1, <1>2, <1>7, <1>8, <1>9, <1>10 DEF AddressPart

\* Where the redirects come to rest.
LEMMA HopsIn ==
  ASSUME TypeOK, HomesInv, AddressPart, Redirects, gate.kind = "signed-in"
  PROVE  HopsInv'
<1> DEFINE hh == gate.households
           d == decideRouteRedirect(address, SignedIn(hh))
           s == address.segment
<1>1. /\ address' = d /\ d # None /\ gate' = gate
      /\ hops' = (IF hops < MaxHops THEN hops + 1 ELSE MaxHops)
      /\ hh \in Households /\ Session = SignedIn(hh) /\ Redirect = d
  BY SessionFacts DEF Redirects, Redirect
<1>2. Redirect' = decideRouteRedirect(d, SignedIn(hh))
  <2>1. Session' = SignedIn(hh)
    BY <1>1 DEF Session
  <2> QED
    BY <1>1, <2>1 DEF Redirect
<1>3. WellFormed(address) /\ WellFormed(d)
  <2>1. d \in Links
    BY <1>1, HopInLands, Zenon DEF AddressPart, AddressInv
  <2> QED
    BY <2>1 DEF AddressPart, AddressInv, WellFormed
<1>4. ~IsEntry(d) /\ d \in Links
  BY <1>1, <1>3, HopInLands, Zenon
<1>5. hops \in 0 .. 4
  BY DEF TypeOK, MaxHops
<1>6. CASE ~(RouteOf(address).kind = "space")
  <2>1. hops <= 1
    <3>1. hops > 0 => ~IsEntry(address)
      BY DEF AddressPart, HopsInv
    <3>2. CASE IsEntry(address)
      BY <1>5, <3>1, <3>2
    <3>3. CASE ~IsEntry(address)
      <4>1. RouteOf(address).kind = "root"
        BY <1>1, <1>3, <1>6, <3>3, HopIn DEF IsEntry
      <4>2. AsWritten(address)
        BY <1>3, <1>6, <4>1, FormedFacts, LinkFacts DEF AsWritten
      <4> QED
        BY <1>5, <1>6, <4>2 DEF AddressPart, HopsInv
    <3> QED
      BY <3>2, <3>3
  <2>2. hops' <= 2 /\ hops' \in Nat
    BY <1>1, <1>5, <2>1 DEF MaxHops
  <2>3. hops' = 2 => d = Home
    <3>1. SUFFICES ASSUME hops = 1 PROVE d = Home
      BY <1>1, <1>5, <2>1 DEF MaxHops
    <3>2. ~IsEntry(address)
      BY <3>1 DEF AddressPart, HopsInv
    <3>3. RouteOf(address).kind = "root"
      BY <1>1, <1>3, <1>6, <3>2, HopIn DEF IsEntry
    <3> QED
      BY <1>1, <1>3, <3>3, HopIn, Zenon
  <2>4. hops' = 2 => RouteOf(d).kind = "space" /\ RouteOf(d).section # "settings"
    BY <2>3, HomeFacts
  <2> QED
    BY <1>1, <1>4, <2>2, <2>4 DEF HopsInv
<1>7. CASE RouteOf(address).kind = "space"
  <2>1. address \in Links /\ s \in Segments /\ ~IsEntry(address)
    BY <1>3, <1>7, FormedFacts, LinkFacts DEF IsEntry
  <2>2. d = IF ~Settled(s, hh) THEN Address(address.path, Proper(s, hh), None)
            ELSE IF RouteOf(address).section = "settings" THEN Address(GeneralPath, s, None)
            ELSE None
    BY <1>1, <1>3, <1>7, HopIn, Zenon
  <2>3. SUFFICES ASSUME AsWritten(d)
                 PROVE  /\ hops' <= 3
                        /\ hops' >= 2 =>
                             /\ RouteOf(d).kind = "space"
                             /\ \/ RouteOf(d).section # "settings"
                                \/ canonicalSpaceAddress(d, hh) = None
                        /\ hops' = 3 => Redirect' = None
    BY <1>1, <1>4 DEF HopsInv
  <2>4. RouteOf(d).kind = "space" =>
          Redirect' = IF ~Settled(d.segment, hh) THEN Address(d.path, Proper(d.segment, hh), None)
                      ELSE IF RouteOf(d).section = "settings" THEN Address(GeneralPath, d.segment, None)
                      ELSE None
    <3>1. hh \in Households
      BY <1>1
    <3> HIDE DEF hh, d
    <3>2. ASSUME RouteOf(d).kind = "space"
          PROVE  decideRouteRedirect(d, SignedIn(hh)) =
                   IF ~Settled(d.segment, hh) THEN Address(d.path, Proper(d.segment, hh), None)
                   ELSE IF RouteOf(d).section = "settings" THEN Address(GeneralPath, d.segment, None)
                   ELSE None
      BY <1>3, <3>1, <3>2, HopIn, Zenon
    <3> QED
      BY <1>2, <3>2
  <2>5. CASE ~Settled(s, hh)
    <3>1. Proper(s, hh) \in Segments
      BY <1>1, <2>1, ProperFacts
    <3>2. RouteOf(d) = RouteOf(address) /\ d.segment = Proper(s, hh) /\ d.segment # None
      BY <1>7, <2>1, <2>2, <2>5, <3>1, SpaceLinks, GateAssumption
    <3>3. ~s.encoded
      <4>1. ~d.segment.encoded
        BY <2>3, <3>2 DEF AsWritten
      <4>2. s.encoded => Proper(s, hh) = s
        BY <1>1, <2>1, ProperFacts
      <4> QED
        BY <3>2, <4>1, <4>2
    <3>4. Settled(d.segment, hh)
      BY <1>1, <2>1, <3>2, <3>3, ProperFacts
    <3>5. canonicalSpaceAddress(d, hh) = None
      BY <1>1, <1>4, <1>7, <3>2, <3>4, CanonicalFacts
    <3>6. canonicalSpaceAddress(address, hh) # None
      BY <1>1, <1>7, <2>1, <2>2, <2>5, CanonicalFacts
    <3>7. hops <= 2 /\ (hops = 2 => RouteOf(address).section # "settings")
      <4>1. AsWritten(address)
        BY <3>3 DEF AsWritten
      <4> QED
        BY <1>1, <1>5, <3>6, <4>1 DEF AddressPart, HopsInv
    <3>8. hops' <= 3 /\ (hops' = 3 => hops = 2)
      BY <1>1, <1>5, <3>7 DEF MaxHops
    <3>9. RouteOf(d).kind = "space" /\ (hops' = 3 => Redirect' = None)
      BY <1>7, <2>4, <3>2, <3>4, <3>7, <3>8
    <3> QED
      BY <3>5, <3>8, <3>9
  <2>6. CASE Settled(s, hh)
    <3>1. d = Address(GeneralPath, s, None) /\ RouteOf(address).section = "settings"
      BY <1>1, <2>2, <2>6
    <3>2. /\ RouteOf(d).kind = "space" /\ RouteOf(d).section = "general" /\ d.segment = s
      BY <1>7, <2>1, <3>1, SpaceLinks
    <3>3. hops <= 2
      <4>1. AsWritten(address)
        BY <2>3, <3>2 DEF AsWritten
      <4> QED
        BY <1>1, <1>5, <4>1 DEF AddressPart, HopsInv
    <3>4. hops' <= 3 /\ Redirect' = None
      BY <1>1, <1>5, <2>4, <2>6, <3>2, <3>3 DEF MaxHops
    <3> QED
      BY <3>2, <3>4
  <2> QED
    BY <2>5, <2>6
<1> QED
  BY <1>6, <1>7

\* On the way back the rules lead no further astray.
LEMMA RedirectsIn ==
  ASSUME TypeOK, HomesInv, AddressPart, Redirects, gate.kind = "signed-in"
  PROVE  AddressPart' /\ address'.from = None
<1> DEFINE hh == gate.households
           d == decideRouteRedirect(address, SignedIn(hh))
           x == Aim(address)
           b == Aim(left)
<1>1. /\ address' = d /\ d # None /\ UNCHANGED <<gate, left, households>>
      /\ hh \in Households /\ Redirect = d /\ gate = GateIn(hh)
  BY SessionFacts DEF Redirects, Redirect, bff
<1>2. WellFormed(address)
  BY DEF AddressPart, AddressInv
<1>3. d \in Links /\ Aim(d) = d
  BY <1>1, <1>2, AimMoves, Zenon
<1>4. \/ d = x
      \/ hh = Homes /\ RouteOf(x).kind = "root" /\ d = Home
      \/ hh = Homes /\ RouteOf(x).kind = "space" /\ d = Canonised(x)
      \/ RouteOf(x).kind = "space" /\ d = General(x)
  BY <1>1, <1>2, AimMoves, Zenon
<1>5. d.from = None /\ AddressInv'
  BY <1>1, <1>3, LinkFacts DEF AddressPart, AddressInv, WellFormed
<1> HIDE DEF d, x, b
<1>6. LeftInv'
  <2>1. SUFFICES ASSUME left # None
                 PROVE  /\ d \in OnTheWay(b)
                        /\ households = <<>> \/ gate = GateIn(<<>>) => d \in BeforeHomes(b)
    <3>1. left # None => gate # GateOut("logout")
      BY DEF AddressPart, LeftInv
    <3>2. Aim(address)' = d
      BY <1>1, <1>3
    <3> QED
      BY <1>1, <2>1, <3>1, <3>2 DEF LeftInv, b
  <2>2. /\ x \in OnTheWay(b)
        /\ households = <<>> \/ gate = GateIn(<<>>) => x \in BeforeHomes(b)
    BY <2>1 DEF AddressPart, LeftInv, x, b
  <2>3. b \in Links
    BY <2>1, AimFacts DEF b, AddressPart, AddressInv
  <2>4. hh = Homes => households # <<>> /\ gate # GateIn(<<>>)
    <3>1. Homes # <<>>
      BY GateAssumption
    <3>2. GateIn(<<>>).households = <<>>
      BY DEF GateIn, Gate
    <3> QED
      BY <3>1, <3>2 DEF HomesInv
  <2>5. CASE d = x
    BY <2>2, <2>5
  <2>6. CASE hh = Homes /\ d \in {Home, Canonised(x)}
    <3>1. d \in OnTheWay(b)
      BY <1>4, <2>2, <2>3, <2>6, WayClosed
    <3> QED
      BY <2>4, <2>6, <3>1
  <2>7. CASE RouteOf(x).kind = "space" /\ d = General(x)
    BY <2>2, <2>3, <2>7, WayClosed
  <2> QED
    BY <1>4, <2>5, <2>6, <2>7
<1> QED
  BY <1>1, <1>5, <1>6, HopsIn DEF AddressPart

\* The person moves the address.
LEMMA PersonGoesTo ==
  ASSUME NEW a \in Destinations, PersonGoes(a)
  PROVE  AddressPart' /\ address'.from = None
<1>1. address' = a /\ a \in Links /\ hops' = 0 /\ left' = None
  BY GateAssumption DEF PersonGoes
<1>2. a.from = None
  BY <1>1, LinkFacts
<1> QED
  BY <1>1, <1>2 DEF AddressPart, AddressInv, WellFormed, HopsInv, LeftInv

\* Changing between the sign-in and sign-up pages keeps where the person came from.
LEMMA PersonSwitches ==
  ASSUME TypeOK, AddressPart, PersonSwitchesForm
  PROVE  AddressPart' /\ address'.from = address.from
<1> DEFINE p == IF address.path = <<"login">> THEN <<"signup">> ELSE <<"login">>
           d == Address(p, None, address.from)
<1>1. WellFormed(address) /\ IsEntry(address) /\ hops' = 0 /\ UNCHANGED <<gate, left, households>>
  BY DEF AddressPart, AddressInv, PersonSwitchesForm, bff
<1>2. address = Address(address.path, None, address.from)
  <2>1. CASE address \in Links
    <3>1. RouteOf(address).kind # "space"
      BY <1>1 DEF IsEntry
    <3> QED
      BY <2>1, <3>1, LinkFacts
  <2>2. CASE address \notin Links
    BY <1>1, <2>2 DEF WellFormed
  <2> QED
    BY <2>1, <2>2
<1>3. address' = d
  <2>1. address' = [address EXCEPT !.path = p]
    BY DEF PersonSwitchesForm
  <2> HIDE DEF p
  <2> QED
    BY <1>2, <2>1 DEF Address
<1>4. p \in {<<"login">>, <<"signup">>} /\ p \in Paths
  BY KnownPaths
<1>5. routeForPath(p).kind \in {"login", "signup"}
  BY <1>4, RouteFacts
<1> HIDE DEF p
<1>6. d.path = p /\ d.from = address.from /\ IsEntry(d)
  BY <1>5 DEF Address, IsEntry, RouteOf
<1>7. WellFormed(d)
  <2>1. CASE address.from = None
    <3>1. d \in Links
      BY <1>4, <1>5, <2>1, IsLink
    <3> QED
      BY <3>1 DEF WellFormed
  <2>2. CASE address.from # None
    <3>1. address.from \in Returns
      BY <1>1, <2>2, FormedFacts
    <3> QED
      BY <1>4, <1>6, <3>1 DEF WellFormed
  <2> QED
    BY <2>1, <2>2
<1> HIDE DEF d
<1>8. Aim(address)' = Aim(address)
  <2>1. Aim(d) = Aim(address)
    BY <1>1, <1>6 DEF Aim
  <2> QED
    BY <1>3, <2>1
<1>9. AddressInv' /\ HopsInv'
  BY <1>1, <1>3, <1>7 DEF AddressPart, AddressInv, HopsInv
<1>10. LeftInv'
  BY <1>1, <1>8 DEF AddressPart, LeftInv
<1> QED
  BY <1>3, <1>6, <1>9, <1>10 DEF AddressPart

\* The gate's steps leave the address, and may leave from it.
LEMMA AddressStays ==
  ASSUME Basics, AddressPart, GateStep
  PROVE  AddressPart'
<1>1. /\ address' = address /\ GateTyped(gate') /\ households' \in {households, Homes}
      /\ \/ gate' = gate /\ hops' \in {hops, 0} /\ left' = left
         \/ hops' = 0 /\ left' \in {None, left, address} /\ (gate'.reason = "logout" => left' = None)
      /\ gate' = GateIn(<<>>) => households = <<>> \/ gate = gate'
  BY DEF GateStep
<1>2. AddressInv'
  BY <1>1 DEF AddressPart, AddressInv
<1>3. HopsInv'
  <2>1. CASE gate' = gate /\ hops' = hops
    BY <1>1, <2>1 DEF AddressPart, HopsInv, Redirect, Session
  <2>2. CASE hops' = 0
    BY <2>2 DEF HopsInv
  <2> QED
    BY <1>1, <2>1, <2>2
<1>4. ASSUME households' = <<>> \/ gate' = GateIn(<<>>)
      PROVE  households = <<>> \/ gate = GateIn(<<>>)
  <2>1. Homes # <<>>
    BY GateAssumption
  <2> QED
    BY <1>1, <1>4, <2>1
<1>5. LeftInv'
  <2>1. SUFFICES ASSUME left' # None
                 PROVE  /\ gate' # GateOut("logout")
                        /\ Aim(address) \in OnTheWay(Aim(left'))
                        /\ households' = <<>> \/ gate' = GateIn(<<>>) =>
                             Aim(address) \in BeforeHomes(Aim(left'))
    BY <1>1 DEF LeftInv
  <2>2. gate' # GateOut("logout")
    <3>1. GateOut("logout").reason = "logout"
      BY DEF GateOut, Gate
    <3> QED
      BY <1>1, <2>1, <3>1 DEF AddressPart, LeftInv
  <2>3. CASE left' = left
    BY <1>4, <2>1, <2>2, <2>3 DEF AddressPart, LeftInv
  <2>4. CASE left' = address
    BY <2>2, <2>4 DEF OnTheWay, BeforeHomes
  <2> QED
    BY <1>1, <2>1, <2>3, <2>4
<1> QED
  BY <1>2, <1>3, <1>5 DEF AddressPart

-----------------------------------------------------------------------------
(* A logout keeps nothing.                                                 *)

\* Where the person is signed in and no rule applies, the address is a link.
LEMMA ShownFacts ==
  ASSUME TypeOK, AddressInv, gate.kind = "signed-in", Redirect = None
  PROVE  ~IsEntry(address) /\ address \in Links /\ address.from = None
<1> DEFINE hh == gate.households
<1>1. hh \in Households /\ Redirect = decideRouteRedirect(address, SignedIn(hh))
  BY SessionFacts DEF Redirect
<1>2. WellFormed(address)
  BY DEF AddressInv
<1>3. ~IsEntry(address)
  <2>1. Root # None /\ Home # None
    BY HomeFacts
  <2> HIDE DEF hh
  <2>2. IsEntry(address) => decideRouteRedirect(address, SignedIn(hh)) # None
    BY <1>1, <1>2, <2>1, HopIn
  <2> QED
    BY <1>1, <2>2
<1> QED
  BY <1>2, <1>3, FormedFacts

\* The gate leaves by a logout for a logout's answer only.
LEMMA HearGate ==
  ASSUME Basics, NEW c \in Calls, GateHears(c)
  PROVE  /\ gate' = GateOut("logout") => gate' = gate \/ (c = "logout" /\ call[c].at # "idle")
         /\ ~overtaken' => /\ ~overtaken
                           /\ gate.kind = "signed-in" /\ gate'.kind # "signed-in" /\ c # "logout" =>
                                call["logout"].at = "idle"
<1> DEFINE Plainly(g) == Becomes(g) /\ GateTyped(g) /\ g.reason # "logout"
<1>1. TypeOK /\ GateTyped(gate) /\ overtaken \in BOOLEAN
  BY BasicFacts
<1>2. GateOut("logout").reason = "logout"
  BY DEF GateOut, Gate
<1>3. ASSUME NEW g, Plainly(g)
      PROVE  /\ gate' # GateOut("logout")
             /\ ~overtaken' => /\ ~overtaken
                               /\ gate.kind = "signed-in" /\ gate'.kind # "signed-in" =>
                                    call["logout"].at = "idle"
  <2>1. gate' = g /\ g.reason # "logout"
    BY <1>1, <1>3, BecomesFacts
  <2>2. ~overtaken' => /\ ~overtaken
                       /\ ~(gate.kind = "signed-in" /\ g.kind # "signed-in"
                            /\ g.reason # "logout" /\ call["logout"].at # "idle")
    BY <1>1, <1>3, BecomesFacts
  <2> QED
    BY <1>2, <2>1, <2>2
<1>4. ASSUME Stays
      PROVE  gate' = gate /\ overtaken' = overtaken
  BY <1>4 DEF Stays
<1>5. \A g \in {Unavailable, TwoFactor, GateOut("initial"), GateOut("expired")} : g.reason # "logout" /\ GateTyped(g)
  <2>1. None # "logout"
    BY GateAssumption DEF Reasons
  <2>2. \A g \in {Unavailable, TwoFactor, GateOut("initial"), GateOut("expired")} : g.reason # "logout"
    BY <2>1 DEF Unavailable, TwoFactor, GateOut, Gate
  <2> QED
    BY <2>2, OutsideGates
<1>6. \A hh \in Households : GateIn(hh).reason # "logout" /\ GateTyped(GateIn(hh))
  <2>1. None # "logout"
    BY GateAssumption DEF Reasons
  <2> QED
    BY <2>1, Gates DEF GateIn, Gate
<1>7. ASSUME NEW answer, Becomes(Heard(answer))
      PROVE  \/ \E g : Plainly(g)
             \/ gate' = gate /\ overtaken' = overtaken
  <2>1. Heard(answer) \in {gate, GateOut("expired")}
    BY <1>1, GateHeard
  <2>2. CASE Heard(answer) = GateOut("expired")
    BY <1>5, <1>7, <2>2
  <2>3. CASE Heard(answer) = gate
    <3>1. gate' = gate /\ overtaken' = (overtaken \/ (gate.kind = "signed-in" /\ gate.kind # "signed-in"
                                                    /\ gate.reason # "logout" /\ call["logout"].at # "idle"))
      BY <1>7, <2>3 DEF Becomes
    <3> QED
      BY <1>1, <3>1
  <2> QED
    BY <2>1, <2>2, <2>3
<1>8. \/ \E g : Plainly(g)
      \/ gate' = gate /\ overtaken' = overtaken
      \/ c = "logout" /\ call[c].at # "idle" /\ LoggedOut
  <2>1. CASE call[c].at = "listed" /\ c \in Entering /\ GetsHouseholds(c)
    <3>1. households \in Households
      BY BasicFacts DEF Households
    <3> QED
      BY <1>5, <1>6, <2>1, <3>1 DEF GetsHouseholds
  <2>2. CASE GetsPerson
    BY <1>4, <1>5, <2>2 DEF GetsPerson
  <2>3. CASE Authenticated(c)
    BY <1>4, <1>5, <2>3 DEF Authenticated
  <2>4. CASE CreatedHousehold
    BY <1>6, <1>7, <2>4 DEF CreatedHousehold, Households
  <2>5. CASE ApiAnswered
    BY <1>7, <2>5 DEF ApiAnswered
  <2> HIDE DEF Plainly
  <2> QED
    BY <2>1, <2>2, <2>3, <2>4, <2>5, HearCases
<1>9. CASE c = "logout" /\ call[c].at # "idle" /\ LoggedOut
  <2>1. overtaken => overtaken'
    BY <1>9 DEF LoggedOut, Becomes
  <2> QED
    BY <1>9, <2>1
<1> HIDE DEF Plainly
<1> QED
  BY <1>3, <1>8, <1>9

\* The steps of the gate and the calls.
LEMMA CleanStep ==
  ASSUME TypeOK, AddressInv, CleanInv, address' = address,
         ~overtaken' => ~overtaken,
         gate' = GateOut("logout") => gate' = gate \/ call["logout"].at # "idle",
         ~overtaken' /\ call'["logout"].at # "idle" =>
           \/ gate' = gate /\ (call["logout"].at # "idle" \/ InShell)
           \/ call["logout"].at # "idle" /\ gate'.kind = "signed-in"
  PROVE  CleanInv'
<1>1. SUFFICES ASSUME ~overtaken'
               PROVE  /\ call'["logout"].at # "idle" => gate'.kind = "signed-in" /\ address.from = None
                      /\ gate' = GateOut("logout") => address.from = None
  BY DEF CleanInv
<1>2. InShell => gate.kind = "signed-in" /\ address.from = None
  BY ShownFacts DEF InShell, Shown
<1>3. gate.kind = "signed-in" => gate # GateOut("logout")
  BY DEF GateOut, Gate
<1> QED
  BY <1>1, <1>2, <1>3 DEF CleanInv

\* A call is sent where the gate expects it.
Sends(c) ==
  /\ Send(c) /\ (c = "logout" => InShell)
  /\ \/ UNCHANGED <<gate, hops>> /\ c \in Expected(gate.kind) \ {"me"} /\ (c = "api" => gate.kind = "signed-in")
     \/ gate.kind = "unavailable" /\ gate' = Checking /\ hops' = 0 /\ c = "me"

\* A step that is none of the address's.
Elsewhere ==
  \/ \E c \in Calls : Sends(c)
  \/ CancelsCode \/ Reloads \/ StreamEnds
  \/ \E c \in Calls : BffAnswers(c) \/ CallFails(c) \/ GateHears(c)
  \/ \E s : SessionEnds(s)

\* Steps that leave the address alone keep a clean logout clean.
LEMMA CleanElsewhere ==
  ASSUME Basics, AddressInv, CleanInv, Elsewhere
  PROVE  CleanInv'
<1>1. TypeOK /\ CallsTyped /\ GateTyped(gate) /\ "logout" \in Calls
  BY BasicFacts DEF Calls
<1>2. GateOut("logout") \notin {Checking, GateOut("initial"), GateOut("expired")}
  BY DEF GateOut, Checking, Gate
<1>3. ASSUME NEW c \in Calls, Sends(c) PROVE CleanInv'
  <2>1. UNCHANGED <<address, overtaken>> /\ (c # "logout" => call'["logout"] = call["logout"])
    BY <1>1, <1>3 DEF Sends, Send, CallsTyped
  <2>2. /\ c = "logout" => InShell /\ gate' = gate
        /\ gate' # gate => gate' = Checking /\ (~overtaken => call["logout"].at = "idle")
    BY <1>3 DEF Sends, CleanInv
  <2> QED
    BY <1>1, <1>2, <1>3, <2>1, <2>2, CleanStep
<1>4. CASE CancelsCode
  <2>1. UNCHANGED <<address, overtaken, call>> /\ gate' = GateOut("initial") /\ gate.kind = "two-factor"
    BY <1>4 DEF CancelsCode, Shown
  <2>2. ~overtaken => call["logout"].at = "idle"
    BY <2>1 DEF CleanInv
  <2> QED
    BY <1>1, <1>2, <2>1, <2>2, CleanStep
<1>5. CASE Reloads
  <2>1. UNCHANGED <<address, overtaken>> /\ gate' = Checking /\ call'["logout"].at = "idle"
    BY <1>1, <1>5 DEF Reloads, Idle
  <2> QED
    BY <1>1, <1>2, <2>1, CleanStep
<1>6. CASE StreamEnds
  <2>1. UNCHANGED <<address, call>> /\ gate' = GateOut("expired")
    BY <1>6, StreamStep, GateHeard, <1>1 DEF StreamEnds, InShell, Shown, Becomes
  <2>2. ~overtaken' => ~overtaken /\ call["logout"].at = "idle"
    <3>1. Becomes(GateOut("expired")) /\ gate.kind = "signed-in"
      BY <1>1, <1>6, GateHeard DEF StreamEnds, InShell, Shown
    <3>2. GateOut("expired").kind # "signed-in" /\ GateOut("expired").reason # "logout"
      BY DEF GateOut, Gate
    <3>3. GateTyped(GateOut("expired"))
      BY OutsideGates
    <3> QED
      BY <1>1, <3>1, <3>2, <3>3, BecomesFacts
  <2> QED
    BY <1>1, <1>2, <2>1, <2>2, CleanStep
<1>7. ASSUME NEW c \in Calls, BffAnswers(c) \/ CallFails(c) PROVE CleanInv'
  <2>1. UNCHANGED <<address, gate, overtaken>>
    BY <1>7 DEF BffAnswers, CallFails
  <2>2. call[c].at # "idle"
    BY <1>7 DEF BffAnswers, CallFails
  <2>3. \A d \in Calls : d # c => call'[d] = call[d]
    BY <1>7, RepliesFacts, FailStep DEF Replies, OneCall
  <2> QED
    BY <1>1, <2>1, <2>2, <2>3, CleanStep
<1>8. ASSUME NEW c \in Calls, GateHears(c) PROVE CleanInv'
  <2>1. address' = address /\ Over(c)
    BY <1>8, HearStep DEF GateHears
  <2>2. call'["logout"].at # "idle" => c # "logout" /\ call'["logout"] = call["logout"]
    BY <1>1, <2>1 DEF Over, OneCall, Entering
  <2>3. /\ gate' = GateOut("logout") => gate' = gate \/ call["logout"].at # "idle"
        /\ ~overtaken' => /\ ~overtaken
                          /\ gate.kind = "signed-in" /\ gate'.kind # "signed-in" /\ c # "logout" =>
                               call["logout"].at = "idle"
    BY <1>8, HearGate
  <2>4. ~overtaken /\ call["logout"].at # "idle" => gate.kind = "signed-in"
    BY DEF CleanInv
  <2> QED
    BY <1>1, <2>1, <2>2, <2>3, <2>4, CleanStep
<1>9. ASSUME NEW s, SessionEnds(s) PROVE CleanInv'
  <2>1. UNCHANGED <<address, gate, call, overtaken>>
    BY <1>9 DEF SessionEnds
  <2> QED
    BY <1>1, <2>1, CleanStep
<1> QED
  BY <1>3, <1>4, <1>5, <1>6, <1>7, <1>8, <1>9 DEF Elsewhere

-----------------------------------------------------------------------------
(* The gate tells the truth.                                               *)

Truths == CallsInv /\ ApartInv /\ EnteringInv /\ CookieInv

\* Nothing under way but an app's call.
LEMMA OnlyApi ==
  ASSUME CallsInv, CallsTyped', GateTyped(gate'), InFlight' \subseteq {"api"},
         call'["api"] = call["api"] \/ call'["api"].at = "idle"
  PROVE  CallsInv' /\ ApartInv' /\ EnteringInv'
<1>1. \A c \in Calls \ {"api"} : call'[c].at = "idle"
  BY DEF InFlight
<1>2. \A c \in Calls : call'[c].at = "idle" => call'[c].answer = None
  BY DEF CallsTyped
<1>3. None # "error"
  BY GateAssumption DEF Answers
<1>4. "api" \in Calls /\ "logout" \in Calls /\ "me" \in Calls /\ Authenticating \subseteq Calls \ {"api"}
      /\ Entering \subseteq Calls \ {"api"}
  BY DEF Calls, Authenticating, Entering
<1>5. CallsInv'
  <2>1. InFlight' \subseteq Expected(gate'.kind)
    BY DEF GateTyped, Expected
  <2>2. \A c \in Calls : /\ call'[c].answer # "error"
                         /\ call'[c].at = "listed" => call'[c].answer \in {"ok", "unauthenticated"}
    BY <1>1, <1>2, <1>3, <1>4 DEF CallsInv
  <2>3. call'["logout"].answer = None
    BY <1>1, <1>2, <1>4
  <2> QED
    BY <2>1, <2>2, <2>3 DEF CallsInv
<1>6. ApartInv'
  BY <1>1, <1>2, <1>4, GateAssumption DEF ApartInv, Granted, AtHouseholds
<1>7. EnteringInv'
  BY <1>1, <1>4 DEF EnteringInv, AtHouseholds
<1> QED
  BY <1>5, <1>6, <1>7

\* Who moves the gate unseen by doubt was alone.
LEMMA Alone ==
  ASSUME NEW c, Overlaps(c), doubt' = {}, gate'.kind # gate.kind
  PROVE  InFlight \subseteq {c, "logout", "api"}
BY DEF Overlaps

\* The calls the gate expects, by each of them.
LEMMA ExpectedFacts ==
  ASSUME CallsInv, GateTyped(gate)
  PROVE  /\ call["me"].at # "idle" => gate.kind = "checking"
         /\ call["login"].at # "idle" \/ call["signUp"].at # "idle" => gate.kind = "signed-out"
         /\ call["verify"].at # "idle" => gate.kind = "two-factor"
         /\ call["create"].at # "idle" \/ call["logout"].at # "idle" => gate.kind = "signed-in"
<1>1. \A c \in Calls : call[c].at # "idle" => c \in Expected(gate.kind)
  BY DEF CallsInv, InFlight
<1>2. {"me", "login", "signUp", "verify", "create", "logout"} \subseteq Calls
  BY DEF Calls
<1>3. gate.kind \in {"checking", "unavailable", "two-factor", "signed-out", "signed-in"}
  BY DEF GateTyped
<1>4. \A c \in {"me", "login", "signUp", "verify", "create", "logout"} :
        c \in Expected(gate.kind) =>
          \/ c = "me" /\ gate.kind = "checking"
          \/ c \in {"login", "signUp"} /\ gate.kind = "signed-out"
          \/ c = "verify" /\ gate.kind = "two-factor"
          \/ c \in {"create", "logout"} /\ gate.kind = "signed-in"
  BY <1>3 DEF Expected
<1> QED
  BY <1>1, <1>2, <1>4

\* The truth of the gate rests on the gate, the calls and the sessions alone.
LEMMA TruthKept ==
  ASSUME TruthInv, UNCHANGED <<gate, call, cookie, alive, ended, doubt, overtaken>>
  PROVE  TruthInv'
BY DEF TruthInv, CallsInv, ApartInv, EnteringInv, CookieInv, InFlight, AtHouseholds, Granted

\* The session ends elsewhere.
LEMMA TruthEnds ==
  ASSUME Truths, NEW s, SessionEnds(s)
  PROVE  Truths'
<1>1. UNCHANGED <<gate, call, cookie>> /\ alive' = alive \ {s} /\ ended' = ended \cup {s} /\ s \in alive
  BY DEF SessionEnds
<1>2. alive' \cup ended' = alive \cup ended /\ alive' \subseteq alive
  BY <1>1
<1>3. CallsInv' /\ ApartInv'
  BY <1>1 DEF Truths, CallsInv, ApartInv, InFlight, AtHouseholds, Granted
<1>4. EnteringInv' /\ CookieInv'
  BY <1>1, <1>2 DEF Truths, EnteringInv, CookieInv, AtHouseholds
<1> QED
  BY <1>3, <1>4 DEF Truths

\* A call is sent where the gate expects it.
LEMMA TruthSends ==
  ASSUME Basics, Truths, NEW c \in Calls, Sends(c)
  PROVE  Truths'
<1>1. OneCall(c, "sent", cookie, None) /\ GateTyped(gate')
  <2>1. cookie \in 0 .. MaxSessions
    BY BasicFacts, Sessions
  <2>2. OneCall(c, "sent", cookie, None)
    BY <2>1, Begun, BasicFacts DEF Sends, Send
  <2> QED
    BY <2>2, BasicFacts, Gates DEF Sends
<1>2. UNCHANGED <<cookie, alive, ended>> /\ call[c].at = "idle"
  BY DEF Sends, Send, bff, InFlight
<1>3. /\ call'[c].at = "sent" /\ call'[c].session = cookie /\ call'[c].answer = None
      /\ \A d \in Calls : d # c => call'[d] = call[d]
  BY <1>1 DEF OneCall
<1>4. \A d \in Calls : /\ AtHouseholds(d)' <=> AtHouseholds(d)
                       /\ Granted(d)' <=> Granted(d)
                       /\ call'[d].at # "idle" <=> call[d].at # "idle" \/ d = c
                       /\ call'[d].at = "listed" <=> call[d].at = "listed"
  BY <1>2, <1>3 DEF AtHouseholds, Granted
<1>5. None # "error" /\ Checking.kind = "checking"
  BY GateAssumption DEF Answers, Checking, Gate
<1>6. {"login", "signUp", "api", "create", "logout", "me"} \subseteq Calls /\ Authenticating \subseteq Calls
      /\ Entering \subseteq Calls
  BY DEF Calls, Authenticating, Entering
<1>7. CallsInv'
  <2>1. InFlight' \subseteq InFlight \cup {c}
    BY <1>4 DEF InFlight
  <2>2. InFlight' \subseteq Expected(gate'.kind)
    BY <1>5, <2>1 DEF Sends, Truths, CallsInv, Expected
  <2>3. \A d \in Calls : /\ call'[d].answer # "error"
                         /\ call'[d].at = "listed" => call'[d].answer \in {"ok", "unauthenticated"}
    BY <1>3, <1>5 DEF Truths, CallsInv
  <2>4. call'["logout"].answer \in {None, "ok"}
    BY <1>3, <1>6 DEF Truths, CallsInv
  <2> QED
    BY <2>2, <2>3, <2>4 DEF CallsInv
<1>8. EnteringInv'
  BY <1>2, <1>3, <1>4, <1>6 DEF Truths, EnteringInv
<1>9. CASE gate' = gate /\ c \in Expected(gate.kind) /\ c # "me" /\ (c = "api" => gate.kind = "signed-in")
  <2>1. ApartInv'
    <3>1. gate.kind # "signed-in" => c # "api"
      BY <1>9
    <3>2. \A d \in Authenticating : Granted(d) => d # c
      BY <1>2 DEF Granted, AtHouseholds
    <3> QED
      BY <1>3, <1>4, <1>6, <1>9, <3>1, <3>2 DEF Truths, ApartInv
  <2>2. CookieInv'
    BY <1>2, <1>3, <1>4, <1>6, <1>9 DEF Truths, CookieInv
  <2> QED
    BY <1>7, <1>8, <2>1, <2>2 DEF Truths
<1>10. CASE gate.kind = "unavailable" /\ gate' = Checking /\ c = "me"
  <2>1. cookie = 0
    BY <1>10 DEF Truths, CookieInv
  <2>2. ApartInv'
    <3>1. \A d \in Authenticating : ~Granted(d)
      <4>1. \A d \in Authenticating : call[d].at = "idle"
        BY <1>10 DEF Truths, CallsInv, InFlight, Expected, Authenticating, Calls
      <4> QED
        BY <4>1 DEF Granted, AtHouseholds
    <3> QED
      BY <1>3, <1>4, <1>6, <1>10, <2>1, <3>1 DEF ApartInv
  <2>3. CookieInv'
    BY <1>5, <1>10 DEF CookieInv, Checking, GateOut, Gate
  <2> QED
    BY <1>7, <1>8, <2>2, <2>3 DEF Truths
<1> QED
  BY <1>9, <1>10 DEF Sends

\* Cancelling the second factor keeps the gate true.
LEMMA TruthCancels ==
  ASSUME Basics, Truths, CancelsCode, doubt' = {}
  PROVE  Truths'
<1>1. /\ UNCHANGED <<call, cookie, alive, ended>> /\ gate.kind = "two-factor"
      /\ gate' = GateOut("initial") /\ Overlaps("api")
  BY DEF CancelsCode, Shown, bff
<1>2. GateOut("initial").kind = "signed-out" /\ GateTyped(GateOut("initial"))
      /\ GateOut("initial") \notin {GateOut("logout"), GateOut("expired")}
  BY Gates DEF GateOut, Gate, Reasons
<1>3. InFlight \subseteq {"logout", "api"}
  BY <1>1, <1>2, Alone
<1>4. call["logout"].at = "idle"
  BY <1>1, BasicFacts, ExpectedFacts DEF Truths
<1>5. InFlight' \subseteq {"api"}
  BY <1>1, <1>3, <1>4 DEF InFlight
<1>6. CallsTyped'
  BY CancelStep DEF StepTyped
<1>7. CallsInv' /\ ApartInv' /\ EnteringInv'
  BY <1>1, <1>2, <1>5, <1>6, OnlyApi DEF Truths
<1>8. CookieInv'
  BY <1>1, <1>2 DEF CookieInv
<1> QED
  BY <1>7, <1>8 DEF Truths

\* Reloading the page keeps the gate true: only the cookie survives.
LEMMA TruthReloads ==
  ASSUME Basics, Truths, Reloads, doubt' = {}
  PROVE  Truths'
<1>1. /\ UNCHANGED <<cookie, alive, ended>> /\ gate' = Checking
      /\ call' = [c \in Calls |-> IF c = "me" THEN Sent(cookie) ELSE Idle]
  BY DEF Reloads, bff
<1>2. \A c \in Calls : /\ c = "me" => call'[c].at = "sent" /\ call'[c].answer = None
                       /\ c # "me" => call'[c].at = "idle" /\ call'[c].answer = None
  BY <1>1 DEF Sent, Idle
<1>3. Checking.kind = "checking" /\ None # "error" /\ None # "ok"
      /\ Checking \notin {GateOut("logout"), GateOut("expired")}
  BY GateAssumption DEF Checking, GateOut, Gate, Answers
<1>4. "me" \in Calls /\ "logout" \in Calls /\ "api" \in Calls /\ Entering \subseteq Calls
  BY DEF Calls, Entering
<1>5. \A c \in Calls : ~AtHouseholds(c)'
  BY <1>2 DEF AtHouseholds
<1>6. CallsInv'
  <2>1. InFlight' \subseteq {"me"}
    BY <1>2 DEF InFlight
  <2>2. InFlight' \subseteq Expected(gate'.kind)
    BY <1>1, <1>3, <2>1 DEF Expected
  <2> QED
    BY <1>2, <1>3, <1>4, <2>2 DEF CallsInv
<1>7. ApartInv' /\ EnteringInv'
  BY <1>2, <1>4, <1>5 DEF ApartInv, EnteringInv
<1>8. CookieInv'
  BY <1>1, <1>3 DEF CookieInv
<1> QED
  BY <1>6, <1>7, <1>8 DEF Truths

\* The stream reporting the end of the session keeps the gate true.
LEMMA TruthStream ==
  ASSUME Basics, Truths, StreamEnds, doubt' = {}, ~overtaken'
  PROVE  Truths'
<1>1. /\ UNCHANGED <<call, cookie, alive, ended>> /\ gate.kind = "signed-in" /\ cookie \notin alive
      /\ Becomes(GateOut("expired")) /\ Overlaps("api")
  BY BasicFacts, GateHeard DEF StreamEnds, InShell, Shown, bff
<1>2. GateOut("expired").kind = "signed-out" /\ GateOut("expired").reason # "logout"
      /\ GateTyped(GateOut("expired"))
  BY Gates DEF GateOut, Gate, Reasons
<1>3. gate' = GateOut("expired") /\ call["logout"].at = "idle"
  BY <1>1, <1>2, BasicFacts, BecomesFacts
<1>4. InFlight \subseteq {"logout", "api"}
  BY <1>1, <1>2, <1>3, Alone
<1>5. InFlight' \subseteq {"api"}
  BY <1>1, <1>3, <1>4 DEF InFlight
<1>6. CallsTyped'
  BY StreamStep DEF StepTyped
<1>7. CallsInv' /\ ApartInv' /\ EnteringInv'
  BY <1>1, <1>2, <1>3, <1>5, <1>6, OnlyApi DEF Truths
<1>8. CookieInv'
  BY <1>1, <1>2, <1>3 DEF CookieInv
<1> QED
  BY <1>7, <1>8 DEF Truths

\* The BFF answers.
LEMMA TruthReplies ==
  ASSUME Basics, Truths, NEW c \in Calls, BffAnswers(c)
  PROVE  Truths'
<1>1. Replies(c) /\ CallsTyped
  BY RepliesFacts, BasicFacts
<1>2. call[c].at \in {"sent", "listing"} /\ UNCHANGED <<gate, cookie, ended>>
  BY <1>1 DEF Replies
<1>3. PICK at, s, answer :
        /\ OneCall(c, at, s, answer)
        /\ at = (IF call[c].at = "sent" THEN "answered" ELSE "listed")
        /\ answer # "error" /\ (at = "listed" => answer \in {"ok", "unauthenticated"})
        /\ c = "logout" => answer = "ok"
        /\ \/ s = call[c].session
           \/ c \in Authenticating /\ call[c].at = "sent" /\ s = sessions + 1
        /\ c \in Authenticating /\ answer = "ok" => call[c].at = "listing" \/ s = sessions + 1
        /\ at = "listed" /\ answer = "ok" => s \in alive'
  <2>1. call[c].at = "listing" => c \in Entering
    BY <1>1 DEF CallsTyped, StagesInv, AtHouseholds
  <2>2. c = "logout" => c \notin Authenticating
    BY DEF Authenticating
  <2>3. CASE /\ c \in Authenticating /\ call[c].at = "sent"
             /\ OneCall(c, "answered", sessions + 1, "ok")
    BY <2>2, <2>3
  <2>4. CASE /\ c \in Authenticating /\ call[c].at = "sent"
             /\ \E answer \in {"failed", "twoFactor", "unauthenticated"} :
                  OneCall(c, "answered", call[c].session, answer)
    BY <2>2, <2>4
  <2>5. CASE /\ c \notin Authenticating \cup {"logout"} \/ (c \in Authenticating /\ call[c].at = "listing")
             /\ UNCHANGED alive
             /\ \E answer \in {"ok", "unauthenticated", "appRefuses"} :
                  /\ answer = "ok" => call[c].session \in alive
                  /\ answer = "appRefuses" => c = "api"
                  /\ OneCall(c, IF call[c].at = "sent" THEN "answered" ELSE "listed", call[c].session, answer)
    <3>1. PICK answer \in {"ok", "unauthenticated", "appRefuses"} :
                  /\ answer = "ok" => call[c].session \in alive
                  /\ answer = "appRefuses" => c = "api"
                  /\ OneCall(c, IF call[c].at = "sent" THEN "answered" ELSE "listed", call[c].session, answer)
      BY <2>5
    <3>2. call[c].at = "listing" => c # "api"
      BY <2>1 DEF Entering
    <3> QED
      BY <1>2, <2>2, <2>5, <3>1, <3>2
  <2>6. CASE /\ c = "logout" /\ call[c].at = "sent"
             /\ OneCall(c, "answered", call[c].session, "ok")
    BY <2>2, <2>6
  <2> QED
    BY <1>1, <2>3, <2>4, <2>5, <2>6 DEF Replies
<1>4. /\ call'[c].at = at /\ call'[c].session = s /\ call'[c].answer = answer
      /\ \A d \in Calls : d # c => call'[d] = call[d]
  BY <1>3 DEF OneCall
<1>5. \A d \in Calls : /\ AtHouseholds(d)' <=> AtHouseholds(d)
                       /\ AtHouseholds(d) => call'[d].session = call[d].session
                       /\ call'[d].at # "idle" <=> call[d].at # "idle"
  BY <1>2, <1>3, <1>4 DEF AtHouseholds
<1>6. {"api", "create", "logout", "me", "login", "signUp"} \subseteq Calls /\ Authenticating \subseteq Calls
      /\ Entering \subseteq Calls
  BY DEF Calls, Authenticating, Entering
<1>7. CallsInv'
  <2>1. InFlight' = InFlight
    BY <1>5 DEF InFlight
  <2>2. \A d \in Calls : /\ call'[d].answer # "error"
                         /\ call'[d].at = "listed" => call'[d].answer \in {"ok", "unauthenticated"}
    BY <1>3, <1>4 DEF Truths, CallsInv
  <2>3. call'["logout"].answer \in {None, "ok"}
    BY <1>3, <1>4, <1>6 DEF Truths, CallsInv
  <2> QED
    BY <1>2, <2>1, <2>2, <2>3 DEF Truths, CallsInv
<1>8. ApartInv'
  <2>1. SUFFICES ASSUME gate.kind # "signed-in", call["api"].at # "idle"
                 PROVE  /\ call["me"].at # "idle" => call'["me"].session = 0
                        /\ \A d \in Authenticating : Granted(d)' => call'[d].session # call'["api"].session
    BY <1>2, <1>5, <1>6 DEF ApartInv
  <2>2. call'["api"].session = call["api"].session
    BY <1>3, <1>4, <1>6 DEF Authenticating
  <2>3. call'["me"].session = call["me"].session
    BY <1>3, <1>4, <1>6 DEF Authenticating
  <2>4. sessions \in Nat /\ call["api"].session \in 0 .. sessions
    BY <1>6, BasicFacts
  <2>5. ASSUME NEW d \in Authenticating, Granted(d)' PROVE call'[d].session # call["api"].session
    <3>1. CASE d # c
      BY <1>4, <1>6, <2>1, <2>5, <3>1 DEF Granted, AtHouseholds, Truths, ApartInv
    <3>2. CASE d = c
      <4>1. CASE call[c].at = "listing"
        BY <1>3, <1>4, <2>1, <2>5, <3>2, <4>1 DEF Granted, AtHouseholds, Truths, ApartInv
      <4>2. CASE call[c].at = "sent"
        <5>1. answer = "ok"
          BY <1>3, <1>4, <2>5, <3>2, <4>2 DEF Granted, AtHouseholds
        <5>2. call'[d].session = sessions + 1
          BY <1>3, <1>4, <2>5, <3>2, <4>2, <5>1
        <5> QED
          BY <2>4, <5>2
      <4> QED
        BY <1>2, <4>1, <4>2
    <3> QED
      BY <3>1, <3>2
  <2> QED
    BY <2>1, <2>2, <2>3, <2>5 DEF Truths, ApartInv
<1>9. CASE c # "logout"
  <2>1. alive \subseteq alive' /\ alive' \subseteq alive \cup {sessions + 1}
    BY <1>1, <1>9 DEF Replies
  <2>2. EnteringInv'
    <3>1. ASSUME NEW d \in Entering, AtHouseholds(d)', \A e \in Entering \ {d} : ~AtHouseholds(e)'
          PROVE  cookie' = call'[d].session
      BY <1>2, <1>5, <1>6, <3>1 DEF Truths, EnteringInv
    <3>2. ASSUME NEW d \in Entering, call'[d].at = "listed", call'[d].answer = "ok"
          PROVE  call'[d].session \in alive' \cup ended'
      <4>1. CASE d = c
        BY <1>3, <1>4, <3>2, <4>1
      <4>2. CASE d # c
        BY <1>2, <1>4, <1>6, <2>1, <3>2, <4>2 DEF Truths, EnteringInv
      <4> QED
        BY <4>1, <4>2
    <3> QED
      BY <3>1, <3>2 DEF EnteringInv
  <2>3. cookie \notin alive => cookie \notin alive'
    <3>1. cookie \in 0 .. sessions /\ sessions \in Nat
      BY BasicFacts DEF BffTyped
    <3> QED
      BY <2>1, <3>1
  <2>4. CookieInv'
    <3>1. /\ call'["create"].session = call["create"].session
          /\ call'["logout"].session = call["logout"].session
      BY <1>3, <1>4, <1>6 DEF Authenticating
    <3> QED
      BY <1>2, <1>5, <1>6, <2>1, <2>3, <3>1 DEF Truths, CookieInv
  <2> QED
    BY <1>7, <1>8, <2>2, <2>4 DEF Truths
<1>10. CASE c = "logout"
  <2>1. gate.kind = "signed-in" /\ alive' \subseteq alive
    BY <1>1, <1>2, <1>10, BasicFacts, ExpectedFacts DEF Replies, Authenticating, Truths
  <2>2. \A d \in Entering : call[d].at = "idle"
    BY <2>1, BasicFacts, ExpectedFacts DEF Truths, Entering
  <2>3. EnteringInv'
    BY <1>4, <1>6, <1>10, <2>2 DEF EnteringInv, AtHouseholds, Entering
  <2>4. CookieInv'
    <3>1. gate.kind # "unavailable" /\ gate \notin {GateOut("logout"), GateOut("expired")}
      BY <2>1 DEF GateOut, Gate
    <3>2. call'["create"] = call["create"] /\ call'["logout"].session = call["logout"].session
      BY <1>3, <1>4, <1>6, <1>10 DEF Authenticating
    <3> QED
      BY <1>2, <1>5, <1>6, <1>10, <2>1, <3>1, <3>2 DEF Truths, CookieInv
  <2> QED
    BY <1>7, <1>8, <2>3, <2>4 DEF Truths
<1> QED
  BY <1>9, <1>10

(***************************************************************************)
(* A call is over.                                                         *)
(***************************************************************************)
LEMMA OverFacts ==
  ASSUME NEW c \in Calls, OneCall(c, "idle", 0, None)
  PROVE  /\ call'[c].at = "idle" /\ call'[c].answer = None /\ ~AtHouseholds(c)' /\ ~Granted(c)'
         /\ \A d \in Calls : d # c => call'[d] = call[d]
         /\ InFlight' = InFlight \ {c}
BY DEF OneCall, AtHouseholds, Granted, InFlight

\* One call is over, and neither gate, cookie nor sessions changed.
LEMMA TruthOver ==
  ASSUME Truths, NEW c \in Calls, OneCall(c, "idle", 0, None), ~AtHouseholds(c), c # "logout",
         UNCHANGED <<cookie, alive, ended>>,
         gate'.kind = gate.kind, gate' \in {gate, TwoFactor, GateOut("initial")}
  PROVE  Truths'
<1>1. /\ call'[c].at = "idle" /\ call'[c].answer = None /\ ~AtHouseholds(c)' /\ ~Granted(c)'
      /\ \A d \in Calls : d # c => call'[d] = call[d]
      /\ InFlight' = InFlight \ {c}
  BY OverFacts
<1>2. gate'.kind = gate.kind
  OBVIOUS
<1>3. {"api", "create", "logout", "me", "login", "signUp"} \subseteq Calls /\ Authenticating \subseteq Calls
      /\ Entering \subseteq Calls
  BY DEF Calls, Authenticating, Entering
<1>4. \A d \in Calls : /\ AtHouseholds(d)' <=> AtHouseholds(d)
                       /\ AtHouseholds(d) => call'[d].session = call[d].session
                       /\ Granted(d)' => Granted(d) /\ call'[d] = call[d]
                       /\ call'[d].at # "idle" => call[d].at # "idle" /\ call'[d] = call[d]
  BY <1>1 DEF AtHouseholds, Granted
<1>5. CallsInv'
  <2>1. None # "error" /\ "idle" # "listed"
    BY GateAssumption DEF Answers
  <2> QED
    BY <1>1, <1>2, <1>3, <2>1 DEF Truths, CallsInv
<1>6. ApartInv'
  BY <1>2, <1>3, <1>4 DEF Truths, ApartInv
<1>7. EnteringInv'
  <2>1. ASSUME NEW d \in Entering, AtHouseholds(d)', \A e \in Entering \ {d} : ~AtHouseholds(e)'
        PROVE  cookie' = call'[d].session
    BY <1>3, <1>4, <2>1 DEF Truths, EnteringInv
  <2>2. ASSUME NEW d \in Entering, call'[d].at = "listed", call'[d].answer = "ok"
        PROVE  call'[d].session \in alive' \cup ended'
    <3>1. call'[d] = call[d]
      BY <1>3, <1>4, <2>2
    <3> QED
      BY <2>2, <3>1 DEF Truths, EnteringInv
  <2> QED
    BY <2>1, <2>2 DEF EnteringInv
<1>8. CookieInv'
  <2>1. gate' \in {GateOut("logout"), GateOut("expired")} => gate' = gate
    BY DEF GateOut, TwoFactor, Gate
  <2>2. call'["logout"] = call["logout"]
    BY <1>1, <1>3
  <2> QED
    BY <1>2, <1>3, <1>4, <2>1, <2>2 DEF Truths, CookieInv
<1> QED
  BY <1>5, <1>6, <1>7, <1>8 DEF Truths

\* The gate moves on when nothing else but an app's call is under way.
LEMMA TruthMoves ==
  ASSUME Basics, Truths, NEW c \in Calls, OneCall(c, "idle", 0, None), Overlaps(c), doubt' = {},
         GateTyped(gate'), gate'.kind # gate.kind, c = "logout" \/ call["logout"].at = "idle"
  PROVE  /\ CallsInv' /\ ApartInv' /\ EnteringInv' /\ InFlight \subseteq {c, "api"}
         /\ call'["create"].at = "idle" /\ call'["logout"].at = "idle"
<1>1. /\ call'[c].at = "idle" /\ \A d \in Calls : d # c => call'[d] = call[d]
      /\ InFlight' = InFlight \ {c}
  BY OverFacts
<1>2. InFlight \subseteq {c, "api"}
  BY Alone DEF InFlight
<1>3. InFlight' \subseteq {"api"} /\ (call'["api"] = call["api"] \/ call'["api"].at = "idle")
  BY <1>1, <1>2 DEF Calls
<1>4. call'["create"].at = "idle" /\ call'["logout"].at = "idle"
  BY <1>3 DEF InFlight, Calls
<1> QED
  BY <1>2, <1>3, <1>4, OnlyApi DEF Truths, OneCall

\* The households are there, or are not.
LEMMA TruthHouseholds ==
  ASSUME Basics, Truths, NEW c \in Entering, call[c].at = "listed", GetsHouseholds(c),
         UNCHANGED <<alive, ended>>, doubt' = {}, GateTyped(gate')
  PROVE  Truths'
<1>1. c \in Calls /\ c \notin {"api", "logout", "create"} /\ AtHouseholds(c)
  BY DEF Entering, Calls, AtHouseholds
<1>2. OneCall(c, "idle", 0, None) /\ Overlaps(c) /\ TakesCookie(c)
  BY <1>1, Overs DEF GetsHouseholds
<1>3. gate' = IF call[c].answer = "ok" THEN GateIn(households) ELSE Unavailable
  BY DEF GetsHouseholds, Becomes
<1>4. gate.kind \in {"checking", "signed-out", "two-factor"} /\ call["logout"].at = "idle"
  <2>1. call[c].at # "idle"
    OBVIOUS
  <2> QED
    BY <2>1, BasicFacts, ExpectedFacts DEF Truths, Entering
<1>5. /\ GateIn(households).kind = "signed-in" /\ Unavailable.kind = "unavailable"
      /\ GateIn(households) \notin {GateOut("logout"), GateOut("expired")}
      /\ Unavailable \notin {GateOut("logout"), GateOut("expired")}
  BY DEF GateIn, Unavailable, GateOut, Gate
<1>6. gate'.kind # gate.kind
  BY <1>3, <1>4, <1>5
<1>7. /\ CallsInv' /\ ApartInv' /\ EnteringInv' /\ InFlight \subseteq {c, "api"}
      /\ call'["create"].at = "idle" /\ call'["logout"].at = "idle"
  BY <1>1, <1>2, <1>4, <1>6, TruthMoves
<1>8. cookie = call[c].session
  <2>1. \A d \in Entering \ {c} : ~AtHouseholds(d)
    BY <1>7 DEF InFlight, AtHouseholds, Entering, Calls
  <2> QED
    BY <1>1, <2>1 DEF Truths, EnteringInv
<1>9. CookieInv'
  <2>1. CASE call[c].answer = "ok"
    <3>1. cookie' = cookie /\ cookie \in alive \cup ended
      BY <1>2, <1>8, <2>1 DEF TakesCookie, Truths, EnteringInv
    <3> QED
      BY <1>3, <1>5, <1>7, <2>1, <3>1 DEF CookieInv
  <2>2. CASE call[c].answer # "ok"
    <3>1. call[c].answer = "unauthenticated"
      BY <1>1, <2>2 DEF Truths, CallsInv
    <3>2. cookie' = 0
      BY <1>2, <1>8, <3>1 DEF TakesCookie
    <3> QED
      BY <1>3, <1>5, <2>2, <3>2 DEF CookieInv
  <2> QED
    BY <2>1, <2>2
<1> QED
  BY <1>7, <1>9 DEF Truths

\* Who has a session goes on to the households, with its cookie.
LEMMA TruthEnters ==
  ASSUME Basics, Truths, NEW c \in Entering, call[c].at = "answered", call[c].answer = "ok",
         OneCall(c, "listing", call[c].session, None), cookie' = call[c].session,
         UNCHANGED <<gate, alive, ended>>
  PROVE  Truths'
<1>1. c \in Calls /\ c \notin {"api", "logout", "create"} /\ ~AtHouseholds(c) /\ call[c].at # "idle"
  BY DEF Entering, Calls, AtHouseholds
<1>2. /\ call'[c].at = "listing" /\ call'[c].session = call[c].session /\ call'[c].answer = None
      /\ \A d \in Calls : d # c => call'[d] = call[d]
  BY <1>1 DEF OneCall
<1>3. {"api", "create", "logout", "me", "login", "signUp"} \subseteq Calls /\ Authenticating \subseteq Calls
      /\ Entering \subseteq Calls
  BY DEF Calls, Authenticating, Entering
<1>4. \A d \in Calls : /\ AtHouseholds(d)' <=> AtHouseholds(d) \/ d = c
                       /\ Granted(d)' <=> Granted(d)
                       /\ call'[d].session = call[d].session
                       /\ call'[d].at # "idle" <=> call[d].at # "idle"
                       /\ call'[d].at = "listed" <=> call[d].at = "listed" /\ d # c
  BY <1>1, <1>2 DEF AtHouseholds, Granted
<1>5. CallsInv'
  <2>1. None # "error"
    BY GateAssumption DEF Answers
  <2>2. InFlight' = InFlight
    BY <1>4 DEF InFlight
  <2> QED
    BY <1>1, <1>2, <1>3, <1>4, <2>1, <2>2 DEF Truths, CallsInv
<1>6. ApartInv'
  BY <1>3, <1>4 DEF Truths, ApartInv
<1>7. EnteringInv'
  <2>1. ASSUME NEW d \in Entering, AtHouseholds(d)', \A e \in Entering \ {d} : ~AtHouseholds(e)'
        PROVE  cookie' = call'[d].session
    BY <1>1, <1>2, <1>3, <1>4, <2>1
  <2>2. ASSUME NEW d \in Entering, call'[d].at = "listed", call'[d].answer = "ok"
        PROVE  call'[d].session \in alive' \cup ended'
    <3>1. call'[d] = call[d]
      BY <1>2, <1>3, <2>2
    <3> QED
      BY <2>2, <3>1 DEF Truths, EnteringInv
  <2> QED
    BY <2>1, <2>2 DEF EnteringInv
<1>8. CookieInv'
  <2>1. /\ gate.kind \in {"checking", "signed-out", "two-factor"}
        /\ gate.kind = "signed-out" => c \in {"login", "signUp"}
    BY <1>1, BasicFacts, ExpectedFacts DEF Truths, Entering
  <2>2. GateOut("logout").kind = "signed-out" /\ GateOut("expired").kind = "signed-out"
    BY DEF GateOut, Gate
  <2> QED
    BY <1>1, <1>4, <2>1, <2>2 DEF CookieInv
<1> QED
  BY <1>5, <1>6, <1>7, <1>8 DEF Truths

\* Not having a session is heard of, and the cookie goes.
LEMMA TruthExpires ==
  ASSUME Basics, Truths, NEW c \in {"create", "api"}, OneCall(c, "idle", 0, None), Overlaps(c),
         doubt' = {}, ~overtaken', gate.kind = "signed-in", Becomes(GateOut("expired")), cookie' = 0,
         UNCHANGED <<alive, ended>>
  PROVE  Truths'
<1>1. GateOut("expired").kind = "signed-out" /\ GateOut("expired").reason # "logout"
      /\ GateTyped(GateOut("expired")) /\ c \in Calls
  BY Gates DEF GateOut, Gate, Reasons, Calls
<1>2. gate' = GateOut("expired") /\ call["logout"].at = "idle"
  BY <1>1, BasicFacts, BecomesFacts
<1>3. CallsInv' /\ ApartInv' /\ EnteringInv'
  BY <1>1, <1>2, TruthMoves
<1>4. 0 \notin alive
  BY BasicFacts DEF BffTyped
<1>5. CookieInv'
  BY <1>1, <1>2, <1>4 DEF CookieInv
<1> QED
  BY <1>3, <1>5 DEF Truths

\* Hearing who the person is keeps the gate true.
LEMMA TruthPerson ==
  ASSUME Basics, Truths, GetsPerson, call["me"].at = "answered",
         UNCHANGED <<alive, ended>>, doubt' = {}
  PROVE  Truths'
<1>1. "me" \in Calls /\ "me" \in Entering /\ ~AtHouseholds("me") /\ Overlaps("me")
  BY DEF Calls, Entering, AtHouseholds, GetsPerson
<1>2. CASE call["me"].answer = "ok" /\ Enters("me", call["me"].session) /\ Stays
  <2>1. OneCall("me", "listing", call["me"].session, None)
    BY <1>1, <1>2, Overs DEF Enters
  <2> QED
    BY <1>1, <1>2, <2>1, TruthEnters DEF Enters, Stays
<1>3. CASE /\ call["me"].answer = "unauthenticated"
           /\ call' = Done("me") /\ Becomes(GateOut("initial")) /\ TakesCookie("me")
  <2>1. OneCall("me", "idle", 0, None) /\ gate' = GateOut("initial")
    BY <1>1, <1>3, Overs DEF Becomes
  <2>2. gate.kind = "checking" /\ GateOut("initial").kind = "signed-out" /\ GateTyped(GateOut("initial"))
        /\ GateOut("initial") \notin {GateOut("logout"), GateOut("expired")}
    BY <1>3, BasicFacts, ExpectedFacts, Gates DEF Truths, GateOut, Gate, Reasons
  <2>3. call["logout"].at = "idle"
    BY <2>2, BasicFacts, ExpectedFacts DEF Truths
  <2>4. CallsInv' /\ ApartInv' /\ EnteringInv'
    BY <1>1, <2>1, <2>2, <2>3, TruthMoves
  <2>5. CookieInv'
    BY <2>1, <2>2 DEF CookieInv
  <2> QED
    BY <2>4, <2>5 DEF Truths
<1>4. call["me"].answer # "error"
  BY <1>1 DEF Truths, CallsInv
<1> QED
  BY <1>2, <1>3, <1>4 DEF GetsPerson

\* Hearing the answer to a sign-in keeps the gate true.
LEMMA TruthAuthenticated ==
  ASSUME Basics, Truths, NEW c \in Authenticating, Authenticated(c), call[c].at = "answered",
         UNCHANGED <<alive, ended>>, doubt' = {}
  PROVE  Truths'
<1>1. c \in Calls /\ c \in Entering /\ ~AtHouseholds(c) /\ c \notin {"logout", "api"} /\ Overlaps(c)
  BY DEF Calls, Entering, Authenticating, AtHouseholds, Authenticated
<1>2. gate.kind \in {"signed-out", "two-factor"} /\ call["logout"].at = "idle"
  <2>1. call[c].at # "idle"
    OBVIOUS
  <2> QED
    BY <2>1, BasicFacts, ExpectedFacts DEF Truths, Authenticating
<1>3. CASE call[c].answer = "ok" /\ Enters(c, call[c].session) /\ Stays
  <2>1. OneCall(c, "listing", call[c].session, None)
    BY <1>1, <1>3, Overs DEF Enters
  <2> QED
    BY <1>1, <1>3, <2>1, TruthEnters DEF Enters, Stays
<1>4. ASSUME NEW g \in {TwoFactor, GateOut("initial")}, call' = Done(c), Becomes(g), UNCHANGED cookie
      PROVE  Truths'
  <2>1. OneCall(c, "idle", 0, None) /\ gate' = g
    BY <1>1, <1>4, Overs DEF Becomes
  <2>2. GateTyped(g) /\ g.kind \in {"signed-out", "two-factor"}
        /\ g \notin {GateOut("logout"), GateOut("expired")}
    BY Gates DEF TwoFactor, GateOut, Gate, Reasons
  <2>3. CASE g.kind # gate.kind
    <3>1. CallsInv' /\ ApartInv' /\ EnteringInv'
      BY <1>1, <1>2, <2>1, <2>2, <2>3, TruthMoves
    <3>2. CookieInv'
      BY <2>1, <2>2 DEF CookieInv
    <3> QED
      BY <3>1, <3>2 DEF Truths
  <2>4. CASE g.kind = gate.kind
    BY <1>1, <1>4, <2>1, <2>4, TruthOver
  <2> QED
    BY <2>3, <2>4
<1>5. CASE call' = Done(c) /\ Stays /\ UNCHANGED cookie
  <2>1. OneCall(c, "idle", 0, None) /\ gate' = gate
    BY <1>1, <1>5, Overs DEF Stays
  <2> QED
    BY <1>1, <1>5, <2>1, TruthOver
<1> QED
  BY <1>3, <1>4, <1>5 DEF Authenticated

\* Hearing the answer to a logout keeps the gate true.
LEMMA TruthLoggedOut ==
  ASSUME Basics, Truths, LoggedOut, call["logout"].at = "answered", UNCHANGED <<alive, ended>>, doubt' = {}
  PROVE  Truths'
<1>1. "logout" \in Calls /\ OneCall("logout", "idle", 0, None) /\ Overlaps("logout")
      /\ gate' = GateOut("logout")
  BY Overs DEF Calls, LoggedOut, afterLogout, Becomes
<1>2. gate.kind = "signed-in" /\ GateOut("logout").kind = "signed-out" /\ GateTyped(GateOut("logout"))
  BY BasicFacts, ExpectedFacts, Gates DEF Truths, GateOut, Gate, Reasons
<1>3. CallsInv' /\ ApartInv' /\ EnteringInv'
  BY <1>1, <1>2, TruthMoves
<1>4. call["logout"].answer = "ok"
  <2>1. call["logout"].answer # None
    BY <1>1, BasicFacts DEF CallsTyped
  <2> QED
    BY <2>1 DEF Truths, CallsInv
<1>5. cookie' = 0 /\ 0 \notin alive
  BY <1>4, BasicFacts DEF LoggedOut, BffTyped
<1>6. CookieInv'
  BY <1>1, <1>2, <1>5 DEF CookieInv
<1> QED
  BY <1>3, <1>6 DEF Truths

\* Hearing of a created household keeps the gate true.
LEMMA TruthCreated ==
  ASSUME Basics, Truths, CreatedHousehold, call["create"].at = "answered", UNCHANGED <<alive, ended>>,
         doubt' = {}, ~overtaken'
  PROVE  Truths'
<1>1. "create" \in Calls /\ OneCall("create", "idle", 0, None) /\ Overlaps("create") /\ TakesCookie("create")
      /\ ~AtHouseholds("create")
  BY Overs DEF Calls, CreatedHousehold, AtHouseholds
<1>2. gate.kind = "signed-in" /\ call["create"].session = cookie
  BY BasicFacts, ExpectedFacts DEF Truths, CookieInv
<1>3. CASE call["create"].answer = "ok"
  <2>1. gate' = GateIn(Homes) /\ cookie' = cookie /\ GateIn(Homes).kind = "signed-in"
        /\ GateIn(Homes) \notin {GateOut("logout"), GateOut("expired")}
    BY <1>1, <1>3 DEF CreatedHousehold, Becomes, TakesCookie, GateIn, GateOut, Gate
  <2>2. \A d \in Calls : /\ call'[d].at # "idle" => call[d].at # "idle" /\ call'[d] = call[d] /\ d # "create"
                         /\ call'[d].at = "idle" => call'[d].answer = None
    BY <1>1, OverFacts DEF OneCall, CallsTyped
  <2>3. \A d \in Entering : call'[d].at = "idle" /\ d \in Calls
    <3>1. \A d \in Entering : call[d].at = "idle" /\ d \in Calls
      BY <1>2, BasicFacts, ExpectedFacts DEF Truths, Entering, Calls
    <3> QED
      BY <2>2, <3>1
  <2>4. CallsInv'
    <3>1. None # "error"
      BY GateAssumption DEF Answers
    <3>2. InFlight' \subseteq InFlight
      BY <2>2 DEF InFlight
    <3>3. "logout" \in Calls
      BY DEF Calls
    <3> QED
      BY <1>2, <2>1, <2>2, <3>1, <3>2, <3>3 DEF Truths, CallsInv
  <2>5. ApartInv' /\ EnteringInv'
    BY <2>1, <2>3 DEF ApartInv, EnteringInv, AtHouseholds
  <2>6. CookieInv'
    <3>1. call'["logout"] = call["logout"] /\ call'["create"].at = "idle"
      BY <1>1, OverFacts DEF Calls
    <3> QED
      BY <1>2, <2>1, <3>1 DEF Truths, CookieInv
  <2> QED
    BY <2>4, <2>5, <2>6 DEF Truths
<1>4. CASE call["create"].answer # "ok"
  <2>1. Becomes(Heard(call["create"].answer))
    BY <1>4 DEF CreatedHousehold
  <2>2. CASE call["create"].answer = "unauthenticated"
    <3>1. Becomes(GateOut("expired"))
      BY <1>2, <2>1, <2>2 DEF Heard, isUnauthenticated, signOutLocally
    <3>2. cookie' = 0
      BY <1>1, <1>2, <2>2 DEF TakesCookie
    <3> QED
      BY <1>1, <1>2, <3>1, <3>2, TruthExpires
  <2>3. CASE call["create"].answer # "unauthenticated"
    <3>1. gate' = gate /\ cookie' = cookie
      BY <1>1, <2>1, <2>3 DEF Heard, isUnauthenticated, Becomes, TakesCookie
    <3> QED
      BY <1>1, <3>1, TruthOver
  <2> QED
    BY <2>2, <2>3
<1> QED
  BY <1>3, <1>4

\* Hearing the answer to a call of an app keeps the gate true.
LEMMA TruthApi ==
  ASSUME Basics, Truths, ApiAnswered, call["api"].at = "answered", UNCHANGED <<alive, ended>>,
         doubt' = {}, ~overtaken'
  PROVE  Truths'
<1>1. "api" \in Calls /\ OneCall("api", "idle", 0, None) /\ TakesCookie("api") /\ ~AtHouseholds("api")
      /\ Becomes(Heard(call["api"].answer))
  BY Overs DEF Calls, ApiAnswered, AtHouseholds
<1>2. CASE call["api"].answer # "unauthenticated"
  <2>1. gate' = gate /\ cookie' = cookie
    BY <1>1, <1>2 DEF Heard, isUnauthenticated, Becomes, TakesCookie
  <2> QED
    BY <1>1, <2>1, TruthOver
<1>3. CASE call["api"].answer = "unauthenticated"
  <2>1. cookie = call["api"].session /\ Overlaps("api")
    BY <1>3 DEF ApiAnswered, isUnauthenticated
  <2>2. cookie' = 0
    BY <1>1, <1>3, <2>1 DEF TakesCookie
  <2>3. CASE gate.kind = "signed-in"
    <3>1. Becomes(GateOut("expired"))
      BY <1>1, <1>3, <2>3 DEF Heard, isUnauthenticated, signOutLocally
    <3> QED
      BY <1>1, <2>1, <2>2, <2>3, <3>1, TruthExpires
  <2>4. CASE gate.kind # "signed-in"
    <3>1. gate' = gate
      BY <1>1, <1>3, <2>4 DEF Heard, isUnauthenticated, signOutLocally, Becomes
    <3>2. \A d \in Calls : /\ call'[d].at # "idle" => call[d].at # "idle" /\ call'[d] = call[d] /\ d # "api"
                           /\ call'[d].at = "idle" => call'[d].answer = None
      BY <1>1, OverFacts DEF OneCall, CallsTyped
    <3>3. "logout" \in Calls /\ Entering \subseteq Calls /\ Entering = Authenticating \cup {"me"}
      BY DEF Calls, Entering, Authenticating
    <3>4. CallsInv'
      <4>1. None # "error"
        BY GateAssumption DEF Answers
      <4>2. InFlight' \subseteq InFlight
        BY <3>2 DEF InFlight
      <4> QED
        BY <3>1, <3>2, <3>3, <4>1, <4>2 DEF Truths, CallsInv
    <3>5. ApartInv'
      BY <1>1, OverFacts DEF ApartInv
    <3>6. \A d \in Entering : call'[d] = call[d]
      BY <1>1, <3>3, OverFacts DEF Entering
    <3>7. EnteringInv'
      <4>1. ASSUME NEW d \in Entering, AtHouseholds(d)', \A e \in Entering \ {d} : ~AtHouseholds(e)'
            PROVE  cookie' = call'[d].session
        <5>1. AtHouseholds(d) /\ call[d].at # "idle" /\ (\A e \in Entering \ {d} : ~AtHouseholds(e))
          BY <3>6, <4>1 DEF AtHouseholds
        <5>2. cookie = call[d].session
          BY <5>1 DEF Truths, EnteringInv
        <5>3. call["api"].at # "idle"
          OBVIOUS
        <5>4. d \notin Authenticating
          BY <2>1, <2>4, <5>1, <5>2, <5>3 DEF Truths, ApartInv, Granted
        <5>5. call["me"].session = 0 /\ d = "me"
          BY <2>4, <3>3, <5>1, <5>3, <5>4 DEF Truths, ApartInv
        <5> QED
          BY <2>2, <3>6, <5>5
      <4>2. ASSUME NEW d \in Entering, call'[d].at = "listed", call'[d].answer = "ok"
            PROVE  call'[d].session \in alive' \cup ended'
        BY <3>6, <4>2 DEF Truths, EnteringInv
      <4> QED
        BY <4>1, <4>2 DEF EnteringInv
    <3>8. CookieInv'
      <4>1. 0 \notin alive
        BY BasicFacts DEF BffTyped
      <4> QED
        BY <2>2, <2>4, <3>1, <4>1 DEF CookieInv
    <3> QED
      BY <3>4, <3>5, <3>7, <3>8 DEF Truths
  <2> QED
    BY <2>3, <2>4
<1> QED
  BY <1>2, <1>3

\* Whatever answer the gate hears, it stays true.
LEMMA TruthHears ==
  ASSUME Basics, Truths, NEW c \in Calls, GateHears(c), doubt' = {}, ~overtaken'
  PROVE  Truths'
<1>1. UNCHANGED <<alive, ended>> /\ GateTyped(gate')
  <2>1. UNCHANGED <<address, alive, ended, households, sessions, moves, faults>>
    BY HearCases
  <2> QED
    BY <2>1, HearStep DEF StepTyped, GateStep
<1>2. \/ call[c].at = "listed" /\ c \in Entering /\ GetsHouseholds(c)
      \/ call[c].at = "answered" /\ c = "me" /\ GetsPerson
      \/ call[c].at = "answered" /\ c \in Authenticating /\ Authenticated(c)
      \/ call[c].at = "answered" /\ c = "logout" /\ LoggedOut
      \/ call[c].at = "answered" /\ c = "create" /\ CreatedHousehold
      \/ call[c].at = "answered" /\ c = "api" /\ ApiAnswered
  BY HearCases
<1> QED
  BY <1>1, <1>2, TruthHouseholds, TruthPerson, TruthAuthenticated, TruthLoggedOut, TruthCreated, TruthApi

\* What casts doubt stays.
LEMMA DoubtStays ==
  ASSUME Basics, Elsewhere
  PROVE  /\ doubt' = {} => doubt = {}
         /\ ~overtaken' => ~overtaken
<1>1. ASSUME NEW c, Overlaps(c) PROVE doubt \subseteq doubt'
  BY <1>1 DEF Overlaps
<1>2. ASSUME NEW c \in Calls, GateHears(c) PROVE doubt \subseteq doubt'
  BY <1>1, <1>2, HearCases DEF GetsHouseholds, GetsPerson, Authenticated, LoggedOut, CreatedHousehold,
     ApiAnswered
<1>3. doubt \subseteq doubt'
  BY <1>1, <1>2 DEF Elsewhere, Sends, Send, CancelsCode, Reloads, StreamEnds, BffAnswers, CallFails, SessionEnds
<1>4. ASSUME StreamEnds PROVE overtaken => overtaken'
  BY <1>4 DEF StreamEnds, Becomes
<1>5. ~overtaken' => ~overtaken
  BY <1>4, HearGate DEF Elsewhere, Sends, Send, CancelsCode, Reloads, BffAnswers, CallFails, SessionEnds
<1> QED
  BY <1>3, <1>5

\* Every step that is not the address's own keeps the gate true.
LEMMA TruthElsewhere ==
  ASSUME Basics, TruthInv, Elsewhere
  PROVE  TruthInv'
<1>1. SUFFICES ASSUME doubt' = {}, ~overtaken' PROVE Truths'
  BY DEF TruthInv, Truths
<1>2. Truths
  BY <1>1, DoubtStays DEF TruthInv, Truths
<1>3. ASSUME NEW c \in Calls, CallFails(c) PROVE FALSE
  BY <1>1, <1>3 DEF CallFails
<1> QED
  BY <1>1, <1>2, <1>3, TruthSends, TruthCancels, TruthReloads, TruthStream, TruthReplies, TruthHears, TruthEnds
     DEF Elsewhere

-----------------------------------------------------------------------------
(* The invariant holds.                                                    *)

\* Every step is one of the gate and the calls, or moves the address.
LEMMA NextCases ==
  ASSUME TypeOK, [Next]_vars
  PROVE  \/ Elsewhere
         \/ Redirects
         \/ \E a \in Destinations : PersonGoes(a)
         \/ PersonSwitchesForm
         \/ UNCHANGED vars
<1>1. {"login", "signUp", "verify", "me", "create", "logout", "api"} = Calls
  BY DEF Calls
<1>2. ASSUME NEW c \in {"login", "signUp"}, SubmitsForm(c) PROVE Sends(c)
  BY <1>2 DEF SubmitsForm, Shown, Sends, Expected
<1>3. ASSUME SubmitsCode PROVE Sends("verify")
  BY <1>3 DEF SubmitsCode, Shown, Sends, Expected
<1>4. ASSUME Retries PROVE Sends("me")
  BY <1>4 DEF Retries, Shown, Sends
<1>5. ASSUME CreatesHousehold PROVE Sends("create")
  BY <1>5 DEF CreatesHousehold, Shown, Sends, Expected
<1>6. ASSUME LogsOut PROVE Sends("logout")
  BY <1>6 DEF LogsOut, InShell, Shown, Sends, Expected
<1>7. ASSUME Requests PROVE Sends("api")
  BY <1>7 DEF Requests, InShell, Shown, Sends, Expected
<1>8. CASE Next
  BY <1>1, <1>2, <1>3, <1>4, <1>5, <1>6, <1>7, <1>8 DEF Next, Elsewhere
<1> QED
  BY <1>8

\* Every step that is not the address's own keeps the types.
LEMMA ElsewhereTyped == ASSUME Basics, Elsewhere PROVE StepTyped
<1>1. ASSUME NEW c \in Calls, Sends(c) PROVE StepTyped
  <2>1. Send(c) /\ hops' \in {hops, 0} /\ (gate' = gate \/ (gate' = Checking /\ hops' = 0))
    BY <1>1 DEF Sends
  <2> QED
    BY <2>1, SendStep
<1> QED
  BY <1>1, CancelStep, ReloadStep, StreamStep, ReplyStep, FailStep, HearStep, EndStep DEF Elsewhere

\* The parts of the types make TypeOK.
LEMMA Retyped ==
  ASSUME GateTyped(gate'), CallsTyped', BffTyped', AddressInv', hops' \in 0 .. MaxHops,
         households' \in Households, overtaken' \in BOOLEAN
  PROVE  TypeOK'
<1>1. address'.path \in Paths /\ (left' # None => left'.path \in Paths)
  BY FormedFacts DEF AddressInv
<1> QED
  BY <1>1 DEF TypeOK, GateTyped, CallsTyped, BffTyped, Stage, Paths

\* A step of the address alone keeps the types.
LEMMA MovesTyped ==
  ASSUME Basics, AddressInv', hops' \in 0 .. MaxHops, moves' \in 0 .. MaxMoves,
         UNCHANGED <<gate, call, bff, faults, overtaken, doubt>>
  PROVE  Basics'
<1>1. UNCHANGED <<gate, call, cookie, alive, ended, households, sessions, faults, overtaken, doubt>>
  BY DEF bff
<1>2. CallsTyped' /\ BffTyped' /\ GateTyped(gate')
  BY <1>1, BasicFacts DEF CallsTyped, StagesInv, AtHouseholds, BffTyped
<1>3. StagesInv' /\ SessionsInv' /\ HomesInv'
  BY <1>1 DEF Basics, StagesInv, SessionsInv, HomesInv, AtHouseholds
<1>4. households' \in Households /\ overtaken' \in BOOLEAN
  BY <1>1, BasicFacts DEF Households
<1>5. TypeOK'
  BY <1>2, <1>4, Retyped
<1> QED
  BY <1>3, <1>5 DEF Basics

\* The invariant holds when the page is opened.
LEMMA Starts == ASSUME Init PROVE Inv
<1>1. /\ gate = Checking /\ address \in Links /\ cookie \in {0, 1} /\ alive = {cookie} \ {0} /\ ended = {}
      /\ call = [c \in Calls |-> IF c = "me" THEN Sent(cookie) ELSE Idle]
      /\ households \in Households /\ sessions = 1 /\ moves = 0 /\ faults = 0
      /\ hops = 0 /\ left = None /\ overtaken = FALSE /\ doubt = {}
  BY GateAssumption DEF Init
<1>2. Checking.kind = "checking" /\ Checking.households = <<>> /\ Checking.reason = None /\ GateTyped(Checking)
  BY Gates DEF Checking, Gate
<1>3. Checking # GateOut("logout") /\ Checking # GateOut("expired")
  BY DEF Checking, GateOut, Gate
<1>4. \A c \in Calls : /\ c = "me" => call[c].at = "sent" /\ call[c].answer = None /\ call[c].session = cookie
                       /\ c # "me" => call[c].at = "idle" /\ call[c].answer = None /\ call[c].session = 0
  BY <1>1 DEF Sent, Idle
<1>5. "me" \in Calls /\ "logout" \in Calls /\ "api" \in Calls /\ "create" \in Calls /\ Entering \subseteq Calls
  BY DEF Calls, Entering
<1>6. AddressInv
  BY <1>1 DEF AddressInv, WellFormed
<1>7. TypeOK
  <2>1. address.path \in Paths
    BY <1>1, LinkFacts
  <2>2. call \in [Calls -> [at : Stage, session : 0 .. MaxSessions, answer : Answers \cup {None}]]
    <3>1. cookie \in 0 .. MaxSessions /\ 0 \in 0 .. MaxSessions
      BY <1>1, GateAssumption
    <3>2. /\ Sent(cookie) \in [at : Stage, session : 0 .. MaxSessions, answer : Answers \cup {None}]
          /\ Idle \in [at : Stage, session : 0 .. MaxSessions, answer : Answers \cup {None}]
      BY <3>1 DEF Sent, Idle, Stage
    <3> QED
      BY <1>1, <3>2
  <2>3. /\ sessions \in 1 .. MaxSessions /\ moves \in 0 .. MaxMoves /\ faults \in 0 .. MaxFaults
        /\ hops \in 0 .. MaxHops
    BY <1>1, GateAssumption DEF MaxHops
  <2>4. cookie \in 0 .. sessions /\ alive \subseteq 1 .. sessions
    BY <1>1
  <2>5. \A c \in Calls : call[c].at \in {"answered", "listed"} <=> call[c].answer # None
    BY <1>4
  <2> QED
    BY <1>1, <1>2, <2>1, <2>2, <2>3, <2>4, <2>5 DEF TypeOK, GateTyped, Stage, Paths
<1>8. HopsInv /\ LeftInv /\ CleanInv
  BY <1>1, <1>2, <1>3, <1>4, <1>5 DEF HopsInv, LeftInv, CleanInv
<1>9. HomesInv /\ StagesInv /\ SessionsInv
  BY <1>1, <1>2, <1>4, <1>5, Differs DEF HomesInv, StagesInv, SessionsInv, AtHouseholds, Answers
<1>10. TruthInv
  <2>1. \A c \in Calls : ~AtHouseholds(c)
    BY <1>4 DEF AtHouseholds
  <2>2. CallsInv
    <3>1. InFlight \subseteq Expected(gate.kind)
      BY <1>1, <1>2, <1>4 DEF InFlight, Expected
    <3> QED
      BY <1>4, <1>5, <3>1, Differs DEF CallsInv, Answers
  <2>3. ApartInv /\ EnteringInv
    BY <1>4, <1>5, <2>1 DEF ApartInv, EnteringInv
  <2>4. CookieInv
    BY <1>1, <1>2, <1>3 DEF CookieInv
  <2> QED
    BY <2>2, <2>3, <2>4 DEF TruthInv
<1> QED
  BY <1>6, <1>7, <1>8, <1>9, <1>10 DEF Inv

\* Every step keeps the invariant.
LEMMA Continues == ASSUME Inv, [Next]_vars PROVE Inv'
<1>1. Basics /\ AddressPart /\ CleanInv /\ TruthInv /\ AddressInv /\ TypeOK /\ HomesInv
  BY DEF Inv, Basics, AddressPart
<1>2. hops \in 0 .. MaxHops /\ moves \in 0 .. MaxMoves /\ MaxMoves \in Nat
  BY <1>1, GateAssumption DEF TypeOK
<1>3. CASE Elsewhere
  <2>1. StepTyped
    BY <1>1, <1>3, ElsewhereTyped
  <2>2. AddressPart'
    BY <1>1, <2>1, AddressStays DEF StepTyped
  <2>3. TypeOK'
    <3>1. hops' \in 0 .. MaxHops
      BY <1>2, <2>1 DEF StepTyped, GateStep, MaxHops
    <3>2. households' \in Households
      BY <1>1, <2>1, BasicFacts DEF StepTyped, GateStep, Households
    <3> QED
      BY <2>1, <2>2, <3>1, <3>2, Retyped DEF StepTyped, GateStep, AddressPart
  <2>4. StagesInv' /\ SessionsInv' /\ HomesInv'
    BY <2>1 DEF StepTyped, CallsTyped
  <2>5. CleanInv' /\ TruthInv'
    BY <1>1, <1>3, CleanElsewhere, TruthElsewhere
  <2> QED
    BY <2>2, <2>3, <2>4, <2>5 DEF Inv, AddressPart
<1>4. ASSUME UNCHANGED <<gate, call, bff, faults, overtaken, doubt>>, AddressPart',
             hops' \in 0 .. MaxHops, moves' \in 0 .. MaxMoves,
             \/ address'.from = None
             \/ gate.kind = "signed-out" /\ (gate = GateOut("logout") => address'.from = None)
             \/ address'.from = address.from
      PROVE  Inv'
  <2>1. UNCHANGED <<gate, call, cookie, alive, ended, doubt, overtaken>>
    BY <1>4 DEF bff
  <2>2. Basics'
    BY <1>1, <1>4, MovesTyped DEF AddressPart
  <2>3. CleanInv'
    BY <1>1, <1>4, <2>1 DEF CleanInv
  <2>4. TruthInv'
    BY <1>1, <2>1, TruthKept
  <2> QED
    BY <1>4, <2>2, <2>3, <2>4 DEF Inv, Basics, AddressPart
<1>5. CASE Redirects
  <2>1. /\ UNCHANGED <<gate, call, bff, faults, overtaken, doubt, moves>>
        /\ hops' = (IF hops < MaxHops THEN hops + 1 ELSE MaxHops) /\ Redirect # None
    BY <1>5 DEF Redirects
  <2>2. hops' \in 0 .. MaxHops
    BY <1>2, <2>1 DEF MaxHops
  <2>3. gate.kind \in {"signed-in", "signed-out"}
    BY <1>1, <2>1, SessionFacts
  <2>4. CASE gate.kind = "signed-in"
    <3>1. AddressPart' /\ address'.from = None
      BY <1>1, <1>5, <2>4, RedirectsIn
    <3> QED
      BY <1>2, <1>4, <2>1, <2>2, <3>1
  <2>5. CASE gate.kind = "signed-out"
    <3>1. AddressPart' /\ (gate = GateOut("logout") => address'.from = None)
      BY <1>1, <1>5, <2>5, RedirectsOut
    <3> QED
      BY <1>2, <1>4, <2>1, <2>2, <2>5, <3>1
  <2> QED
    BY <2>3, <2>4, <2>5
<1>6. ASSUME NEW a \in Destinations, PersonGoes(a) PROVE Inv'
  <2>1. /\ UNCHANGED <<gate, call, bff, faults, overtaken, doubt>>
        /\ hops' = 0 /\ moves' = moves + 1 /\ moves < MaxMoves
    BY <1>6 DEF PersonGoes
  <2>2. hops' \in 0 .. MaxHops /\ moves' \in 0 .. MaxMoves
    BY <1>2, <2>1 DEF MaxHops
  <2>3. AddressPart' /\ address'.from = None
    BY <1>6, PersonGoesTo
  <2> QED
    BY <1>4, <2>1, <2>2, <2>3
<1>7. CASE PersonSwitchesForm
  <2>1. /\ UNCHANGED <<gate, call, bff, faults, overtaken, doubt>>
        /\ hops' = 0 /\ moves' = moves + 1 /\ moves < MaxMoves
    BY <1>7 DEF PersonSwitchesForm
  <2>2. hops' \in 0 .. MaxHops /\ moves' \in 0 .. MaxMoves
    BY <1>2, <2>1 DEF MaxHops
  <2>3. AddressPart' /\ address'.from = address.from
    BY <1>1, <1>7, PersonSwitches
  <2> QED
    BY <1>4, <2>1, <2>2, <2>3
<1>8. CASE UNCHANGED vars
  <2>1. UNCHANGED <<gate, call, bff, faults, overtaken, doubt, address, hops, left, moves, households>>
    BY <1>8 DEF vars, bff
  <2>2. AddressPart'
    BY <1>1, <2>1 DEF AddressPart, AddressInv, HopsInv, LeftInv, Redirect, Session
  <2> QED
    BY <1>2, <1>4, <2>1, <2>2
<1> QED
  BY <1>1, <1>3, <1>5, <1>6, <1>7, <1>8, NextCases

(***************************************************************************)
(* The invariant holds of every behaviour, for any addresses, households   *)
(* and bounds (SessionGate.tsx, sessionApi.ts, bffClient.ts and            *)
(* redirectRules.ts together).                                             *)
(***************************************************************************)
THEOREM GateCorrect == Spec => []Inv
<1>1. Init => Inv
  BY Starts
<1>2. Inv /\ [Next]_vars => Inv'
  BY Continues
<1> QED
  BY <1>1, <1>2, PTL DEF Spec

-----------------------------------------------------------------------------
(* What follows.                                                           *)

\* The gate, the address, the calls and the cookie keep to their types.
THEOREM GateTypeCorrect == Spec => []TypeOK
<1>1. Inv => TypeOK
  BY DEF Inv
<1> QED
  BY <1>1, GateCorrect, PTL

(***************************************************************************)
(* The redirect rules come to rest: from any address, three redirects at   *)
(* most where the person is signed in and one where they are not           *)
(* (redirectRules.ts:62-87), unless the address's segment is written       *)
(* percent-encoded.                                                        *)
(***************************************************************************)
THEOREM RulesComeToRest == Spec => []RedirectsSettle
<1>1. Inv => RedirectsSettle
  <2>1. SUFFICES ASSUME Inv, AsWritten(address) PROVE hops < MaxHops
    BY DEF RedirectsSettle, AsWritten
  <2>2. hops \in 0 .. MaxHops
    BY <2>1 DEF Inv, TypeOK
  <2> QED
    BY <2>1, <2>2 DEF Inv, HopsInv, MaxHops
<1> QED
  BY <1>1, GateCorrect, PTL

(***************************************************************************)
(* A logout starts clean: whatever was under way, and whichever address    *)
(* the person logs out from, the sign-in page keeps no return address      *)
(* (redirectRules.ts:17-19, SessionGate.tsx).                              *)
(***************************************************************************)
THEOREM LogoutKeepsNothing == Spec => []LogoutIsClean
<1>1. Inv => LogoutIsClean
  BY DEF Inv, CleanInv, LogoutIsClean
<1> QED
  BY <1>1, GateCorrect, PTL

(***************************************************************************)
(* With nothing under way the gate tells the truth about the session of    *)
(* the browser's cookie, in whichever order the BFF's answers came         *)
(* (SessionGate.tsx:75-135), unless one of them was lost or came late.     *)
(***************************************************************************)
THEOREM GateIsTrue == Spec => []GateTellsTheTruth
<1>1. Inv => GateTellsTheTruth
  <2>1. SUFFICES ASSUME Inv, Quiet, doubt = {}, ~overtaken
                 PROVE  /\ gate.kind = "signed-in" => cookie \in alive \cup ended
                        /\ gate \in {GateOut("logout"), GateOut("expired")} => cookie \notin alive
    BY DEF GateTellsTheTruth
  <2>2. CookieInv
    BY <2>1 DEF Inv, TruthInv
  <2>3. \A c \in {"logout", "login", "signUp"} : call[c].at = "idle"
    BY <2>1 DEF Quiet, InFlight, Calls
  <2> QED
    BY <2>2, <2>3 DEF CookieInv, AtHouseholds
<1> QED
  BY <1>1, GateCorrect, PTL

(***************************************************************************)
(* The rules settle on one address: where none applies any more on the way *)
(* from an address, two redirects lead there and a third leads no further. *)
(***************************************************************************)
HopFrom(y, hh) == FirstOf(decideRouteRedirect(y, SignedIn(hh)), y, None)

\* Where one hop leads from a link, by the kind of its route.
LEMMA HopFacts ==
  ASSUME NEW y \in Links, ~IsEntry(y), NEW hh \in Households
  PROVE  /\ RouteOf(y).kind = "root" => HopFrom(y, hh) = IF hh = <<>> THEN y ELSE Home
         /\ RouteOf(y).kind = "space" =>
              HopFrom(y, hh) = IF ~Settled(y.segment, hh) THEN Canonised(y) ELSE General(y)
         /\ RouteOf(y).kind \notin {"root", "space"} => HopFrom(y, hh) = y
<1> DEFINE d == decideRouteRedirect(y, SignedIn(hh))
<1>1. WellFormed(y) /\ y # None
  BY LinkFacts DEF WellFormed
<1>2. HopFrom(y, hh) = IF d # None THEN d ELSE y
  BY <1>1 DEF HopFrom, FirstOf
<1>3. CASE RouteOf(y).kind = "root"
  <2>1. d = IF hh = <<>> THEN None ELSE Home
    BY <1>1, <1>3, HopIn, Zenon
  <2> QED
    BY <1>2, <1>3, <2>1, HomeFacts
<1>4. CASE RouteOf(y).kind = "space"
  <2>1. d = IF ~Settled(y.segment, hh) THEN Address(y.path, Proper(y.segment, hh), None)
            ELSE IF RouteOf(y).section = "settings" THEN Address(GeneralPath, y.segment, None)
            ELSE None
    BY <1>1, <1>4, HopIn, Zenon
  <2>2. y.segment \in Segments /\ Proper(y.segment, hh) \in Segments
    BY <1>4, LinkFacts, ProperFacts
  <2>3. Address(y.path, Proper(y.segment, hh), None) # None /\ Address(GeneralPath, y.segment, None) # None
    BY <1>4, <2>2, SpaceLinks
  <2>4. ~Settled(y.segment, hh) => hh = Homes
    BY <2>2, ProperFacts DEF Households
  <2>5. /\ Canonised(y) = Address(y.path, Proper(y.segment, Homes), None)
        /\ General(y) = IF RouteOf(y).section = "settings" THEN Address(GeneralPath, y.segment, None) ELSE y
    BY <1>4, WayFacts
  <2> QED
    BY <1>2, <1>4, <2>1, <2>3, <2>4, <2>5
<1>5. CASE RouteOf(y).kind \notin {"root", "space"}
  <2>1. d = None
    BY <1>1, <1>5, HopIn DEF IsEntry
  <2> QED
    BY <1>2, <1>5, <2>1
<1> QED
  BY <1>3, <1>4, <1>5

\* An address no rule moves is where its hops end.
LEMMA SettledFacts ==
  ASSUME NEW y \in Links, ~IsEntry(y), NEW hh \in Households,
         decideRouteRedirect(y, SignedIn(hh)) = None
  PROVE  /\ HopFrom(y, hh) = y
         /\ RouteOf(y).kind = "space" => Settled(y.segment, hh) /\ RouteOf(y).section # "settings"
         /\ RouteOf(y).kind = "root" => hh = <<>>
<1>1. WellFormed(y) /\ y # None
  BY LinkFacts DEF WellFormed
<1>2. HopFrom(y, hh) = y
  BY <1>1 DEF HopFrom, FirstOf
<1>3. CASE RouteOf(y).kind = "space"
  <2>1. decideRouteRedirect(y, SignedIn(hh)) =
          IF ~Settled(y.segment, hh) THEN Address(y.path, Proper(y.segment, hh), None)
          ELSE IF RouteOf(y).section = "settings" THEN Address(GeneralPath, y.segment, None)
          ELSE None
    BY <1>1, <1>3, HopIn, Zenon
  <2>2. y.segment \in Segments /\ Proper(y.segment, hh) \in Segments
    BY <1>3, LinkFacts, ProperFacts
  <2>3. Address(y.path, Proper(y.segment, hh), None) # None /\ Address(GeneralPath, y.segment, None) # None
    BY <1>3, <2>2, SpaceLinks
  <2> QED
    BY <1>2, <1>3, <2>1, <2>3
<1>4. RouteOf(y).kind = "root" => hh = <<>>
  <2>1. RouteOf(y).kind = "root" => decideRouteRedirect(y, SignedIn(hh)) = IF hh = <<>> THEN None ELSE Home
    BY <1>1, HopIn, Zenon
  <2> QED
    BY <2>1, HomeFacts
<1> QED
  BY <1>2, <1>3, <1>4

\* In the household's settings and with its own segment, or on the way there.
LEMMA SpaceSettles ==
  ASSUME NEW b \in Links, RouteOf(b).kind = "space", NEW hh \in Households,
         NEW x \in {b, Canonised(b), General(b), Canonised(General(b))},
         hh = <<>> => x \in {b, General(b)},
         decideRouteRedirect(x, SignedIn(hh)) = None
  PROVE  HopFrom(HopFrom(b, hh), hh) = x
<1> DEFINE s == b.segment
           t == Proper(s, Homes)
           c == Canonised(b)
           g == General(b)
           cg == Canonised(g)
<1>1. s \in Segments /\ ~IsEntry(b) /\ Homes \in Households
  BY LinkFacts DEF IsEntry, Households
<1>2. /\ c \in Links /\ RouteOf(c) = RouteOf(b) /\ c.segment = t /\ c = Address(b.path, t, None)
      /\ g \in Links /\ RouteOf(g).kind = "space" /\ g.segment = s /\ RouteOf(g).section # "settings"
      /\ g = IF RouteOf(b).section = "settings" THEN Address(GeneralPath, s, None) ELSE b
  BY WayFacts
<1>3. /\ cg \in Links /\ RouteOf(cg) = RouteOf(g) /\ cg.segment = t
      /\ cg = Address(g.path, t, None)
  BY <1>2, WayFacts
<1>4. General(c) = cg /\ General(g) = g
  BY WayAgain
<1>5. b = Address(b.path, s, None)
  BY LinkFacts
<1>6. g = Address(g.path, s, None)
  BY <1>2, LinkFacts
<1> HIDE DEF c, g, cg
<1>7. x \in {b, c, g, cg} /\ (hh = <<>> => x \in {b, g})
  BY DEF c, g, cg
<1>8. x \in Links /\ RouteOf(x).kind = "space" /\ ~IsEntry(x)
  BY <1>2, <1>3, <1>7 DEF IsEntry
<1>9. Settled(x.segment, hh) /\ RouteOf(x).section # "settings" /\ HopFrom(x, hh) = x
  BY <1>8, SettledFacts
<1>10. HopFrom(b, hh) = IF ~Settled(s, hh) THEN c ELSE g
  BY <1>1, HopFacts DEF c, g
<1>11. HopFrom(c, hh) = IF ~Settled(t, hh) THEN Canonised(c) ELSE cg
  BY <1>2, <1>4, HopFacts DEF IsEntry
<1>12. CASE Settled(s, hh)
  <2>1. g = x
    <3>1. CASE hh = <<>>
      BY <1>2, <1>7, <1>9, <3>1
    <3>2. CASE hh # <<>>
      <4>1. t = s
        BY <1>1, <1>12, <3>2, ProperFacts DEF Households
      <4>2. c = b /\ cg = g
        BY <1>2, <1>3, <1>5, <1>6, <4>1
      <4> QED
        BY <1>2, <1>7, <1>9, <4>2
    <3> QED
      BY <3>1, <3>2
  <2> QED
    BY <1>9, <1>10, <1>12, <2>1
<1>13. CASE ~Settled(s, hh)
  <2>1. hh = Homes
    BY <1>1, <1>13, ProperFacts DEF Households
  <2>2. x \in {c, cg} /\ Settled(t, hh)
    BY <1>2, <1>3, <1>7, <1>9, <1>13
  <2>3. cg = x
    <3>1. CASE x = c
      <4>1. RouteOf(b).section # "settings"
        BY <1>2, <1>9, <3>1
      <4>2. g = b
        BY <1>2, <4>1
      <4> QED
        BY <3>1, <4>2 DEF c, cg
    <3> QED
      BY <2>2, <3>1
  <2> QED
    BY <1>10, <1>11, <1>13, <2>2, <2>3
<1> QED
  BY <1>12, <1>13

\* A person who waits at an address the rules let stand is where two hops from the link lead.
LEMMA Settles ==
  ASSUME NEW b \in Links, ~IsEntry(b), NEW hh \in Households, NEW x \in OnTheWay(b),
         hh = <<>> => x \in BeforeHomes(b),
         decideRouteRedirect(x, SignedIn(hh)) = None
  PROVE  HopFrom(HopFrom(b, hh), hh) = x
<1>1. CASE RouteOf(b).kind = "space"
  BY <1>1, SpaceSettles DEF OnTheWay, BeforeHomes
<1>2. CASE RouteOf(b).kind = "root"
  <2>1. x \in {b, Home, Canonised(Home)} /\ (hh = <<>> => x = b)
    BY <1>2 DEF OnTheWay, BeforeHomes
  <2>2. HopFrom(b, hh) = IF hh = <<>> THEN b ELSE Home
    BY <1>2, HopFacts
  <2>3. CASE hh = <<>>
    BY <2>1, <2>2, <2>3
  <2>4. CASE hh # <<>>
    <3>1. x # b
      BY <1>2, <2>4, SettledFacts
    <3>2. Home \in Links /\ RouteOf(Home).kind = "space" /\ RouteOf(Home).section = "home"
      BY HomeFacts
    <3>3. /\ General(Home) = Home /\ Canonised(Home) \in Links
          /\ RouteOf(Canonised(Home)) = RouteOf(Home)
          /\ Canonised(Home).segment = Proper(Home.segment, Homes)
          /\ Canonised(Home) = Address(Home.path, Proper(Home.segment, Homes), None)
      BY <3>2, WayFacts
    <3>4. HopFrom(Home, hh) = IF ~Settled(Home.segment, hh) THEN Canonised(Home) ELSE Home
      BY <3>2, <3>3, HopFacts DEF IsEntry
    <3>5. Home = Address(Home.path, Home.segment, None) /\ Home.segment \in Segments
      BY <3>2, LinkFacts
    <3>6. Settled(Home.segment, hh) => Canonised(Home) = Home
      BY <2>4, <3>3, <3>5, ProperFacts DEF Households
    <3>7. x = Home => Settled(Home.segment, hh)
      BY <3>2, SettledFacts DEF IsEntry
    <3> QED
      BY <2>1, <2>2, <2>4, <3>1, <3>4, <3>6, <3>7
  <2> QED
    BY <2>3, <2>4
<1>3. CASE RouteOf(b).kind \notin {"root", "space"}
  <2>1. x = b
    BY <1>3 DEF OnTheWay
  <2> QED
    BY <1>3, <2>1, HopFacts
<1> QED
  BY <1>1, <1>2, <1>3

(***************************************************************************)
(* A session that expires takes the person back: signed in again without   *)
(* having moved or logged out, they are at the address the session expired *)
(* at, or where the rules lead from there, whatever the household was      *)
(* called by then (SessionGate.tsx:44-47, redirectRules.ts).               *)
(***************************************************************************)
THEOREM PersonReturns == Spec => []ReturnsWhereLeft
<1>1. Inv => ReturnsWhereLeft
  <2>1. SUFFICES ASSUME Inv, gate.kind = "signed-in", Redirect = None, left # None
                 PROVE  address = Landing(left)
    BY DEF ReturnsWhereLeft
  <2> DEFINE hh == gate.households
             b == Aim(left)
  <2>2. TypeOK /\ AddressInv /\ LeftInv /\ HomesInv
    BY <2>1 DEF Inv
  <2>3. hh \in Households /\ Session = SignedIn(hh) /\ gate = GateIn(hh)
    BY <2>1, <2>2, SessionFacts
  <2>4. ~IsEntry(address) /\ address \in Links
    BY <2>1, <2>2, ShownFacts
  <2>5. WellFormed(left)
    BY <2>1, <2>2 DEF AddressInv
  <2>6. b \in Links /\ ~IsEntry(b)
    BY <2>5, AimFacts
  <2>7. address \in OnTheWay(b) /\ (hh = <<>> => address \in BeforeHomes(b))
    BY <2>1, <2>2, <2>3, <2>4 DEF LeftInv, Aim
  <2>8. decideRouteRedirect(address, SignedIn(hh)) = None
    BY <2>1, <2>3 DEF Redirect
  <2>9. Landing(left) = HopFrom(HopFrom(HopFrom(left, hh), hh), hh)
    BY <2>3 DEF Landing, Hop, HopFrom
  <2> HIDE DEF hh, b
  <2>10. HopFrom(HopFrom(b, hh), hh) = address
    BY <2>3, <2>6, <2>7, <2>8, Settles
  <2>11. HopFrom(address, hh) = address
    BY <2>3, <2>4, <2>8, SettledFacts
  <2>12. HopFrom(left, hh) \in {b, HopFrom(b, hh)} \/ left = b
    <3>1. CASE ~IsEntry(left)
      BY <2>5, <3>1, AimFacts DEF b
    <3>2. CASE IsEntry(left) /\ left.from # None
      <4>1. decideRouteRedirect(left, SignedIn(hh)) = left.from
        BY <2>3, <2>5, <3>2, HopIn, Zenon
      <4>2. left.from = b
        BY <2>5, <3>2, AimFacts DEF b
      <4> QED
        BY <3>2, <4>1, <4>2 DEF HopFrom, FirstOf
    <3>3. CASE IsEntry(left) /\ left.from = None
      <4>1. decideRouteRedirect(left, SignedIn(hh)) = IF hh = <<>> THEN Root ELSE Home
        BY <2>3, <2>5, <3>3, HopIn, Zenon
      <4>2. b = Root
        BY <2>5, <3>3, AimFacts DEF b
      <4>3. HopFrom(b, hh) = IF hh = <<>> THEN b ELSE Home
        BY <2>3, <2>6, <4>2, HopFacts, HomeFacts
      <4> QED
        BY <4>1, <4>2, <4>3, HomeFacts DEF HopFrom, FirstOf
    <3> QED
      BY <3>1, <3>2, <3>3
  <2> QED
    BY <2>9, <2>10, <2>11, <2>12
<1> QED
  BY <1>1, GateCorrect, PTL

-----------------------------------------------------------------------------
(* Segments, letter by letter.                                             *)

(***************************************************************************)
(* Whatever the household is called, the identifier found in its canonical *)
(* segment is its own: an address that was shared before a renaming still  *)
(* leads to the household (hid.ts:3-17).                                   *)
(***************************************************************************)
THEOREM HidSurvives ==
  ASSUME NEW hid \in Seq(Chars), NEW slug \in Seq(Chars),
         \A i \in DOMAIN hid : hid[i] # Hyphen
  PROVE  resolveHid(segmentOf(hid, slug)) = hid
<1> DEFINE s == segmentOf(hid, slug)
           n == Len(hid)
<1>1. CASE slug = <<>>
  BY <1>1 DEF segmentOf, resolveHid
<1>2. CASE slug # <<>>
  <2>1. s = hid \o <<Hyphen>> \o slug
    BY <1>2 DEF segmentOf
  <2>2. n \in Nat /\ Hyphen \in Chars
    BY DEF Chars
  <2>3. /\ s \in Seq(Chars) /\ Len(s) = n + 1 + Len(slug)
        /\ s[n + 1] = Hyphen
        /\ \A i \in 1 .. n : s[i] = hid[i]
    BY <2>1, <2>2
  <2>4. n + 1 \in DOMAIN s /\ \A j \in 1 .. (n + 1) - 1 : s[j] # Hyphen
    BY <2>2, <2>3
  <2> DEFINE First(i) == s[i] = Hyphen /\ \A j \in 1 .. i - 1 : s[j] # Hyphen
  <2>5. \A i \in DOMAIN s : First(i) => i = n + 1
    <3> SUFFICES ASSUME NEW i \in DOMAIN s, First(i) PROVE i = n + 1
      OBVIOUS
    <3>1. i \in Nat /\ i >= 1
      BY <2>3
    <3>2. ~(i < n + 1)
      BY <2>4, <3>1, <2>2
    <3>3. ~(n + 1 < i)
      BY <2>3, <3>1, <2>2
    <3> QED
      BY <3>1, <3>2, <3>3, <2>2
  <2>6. (CHOOSE i \in DOMAIN s : First(i)) = n + 1
    BY <2>3, <2>4, <2>5
  <2>7. resolveHid(s) = SubSeq(s, 1, n)
    BY <2>2, <2>3, <2>4, <2>6 DEF resolveHid
  <2>8. SubSeq(s, 1, n) = hid
    BY <2>2, <2>3
  <2> QED
    BY <2>7, <2>8
<1> QED
  BY <1>1, <1>2

=============================================================================
