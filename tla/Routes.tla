-------------------------------- MODULE Routes --------------------------------
(***************************************************************************)
(* The shell's addresses: the route tree (router/routes.ts, route.ts), the *)
(* canonical form of a household's address (hid.ts) and the rules that     *)
(* move an address on (redirectRules.ts), in apps/host/src/router.         *)
(*                                                                         *)
(* An address is the path of a route with the household's segment, and the *)
(* address it carries in _from.  The segment is the household's identifier *)
(* and a slug of its name; it may be written percent-encoded, as browsers  *)
(* write a slug in Cyrillic letters.                                       *)
(***************************************************************************)
EXTENDS Sequences

CONSTANTS Hids,    \* identifiers of households
          Slugs,   \* what slugify makes of names
          None     \* null

ASSUME RoutesAssumption == None \notin Hids \cup Slugs

-----------------------------------------------------------------------------
(* The route tree.                                                         *)

Route(kind, section, item) == [kind |-> kind, section |-> section, item |-> item]

Entry(path, kind, section, item) == [path |-> path, route |-> Route(kind, section, item)]

EntryEntries ==
  { Entry(<<>>, "root", "", FALSE), Entry(<<"login">>, "login", "", FALSE),
    Entry(<<"signup">>, "signup", "", FALSE) }

PublicEntries ==
  { Entry(<<"invite", "$token">>, "invite", "", FALSE),
    Entry(<<"s", "$token">>, "share", "", FALSE),
    Entry(<<"s", "$token", "$slug">>, "share", "", FALSE) }

PersonalEntries ==
  { Entry(<<"account">>, "account", "profile", FALSE),
    Entry(<<"spaces">>, "spaces", "list", FALSE),
    Entry(<<"spaces", "new">>, "spaces", "new", FALSE) } \cup
  { Entry(<<"account", s>>, "account", s, FALSE) : s \in {"security", "sessions"} }

PlatformEntries ==
  { Entry(<<"dev", "registry">>, "dev", "registry", FALSE),
    Entry(<<"dev", "registry", "$appId">>, "dev", "registry", TRUE),
    Entry(<<"dev", "health">>, "dev", "health", FALSE) }

Household == <<"h", "$hid">>

SettingsSections == {"general", "members", "apps", "notifications", "shared", "data"}

\* space(params, area): the bare settings page is a section of its own.
SpaceEntries ==
  { Entry(Household, "space", "home", FALSE),
    Entry(Household \o <<"inbox", "$eventId">>, "space", "inbox", TRUE),
    Entry(Household \o <<"catalog", "$appId">>, "space", "catalog", TRUE),
    Entry(Household \o <<"settings", "members", "$memberId">>, "space", "members", TRUE),
    Entry(Household \o <<"settings", "apps", "$appId">>, "space", "apps", TRUE),
    Entry(Household \o <<"a", "$appId", "$">>, "space", "app", FALSE) } \cup
  { Entry(Household \o <<s>>, "space", s, FALSE) :
      s \in {"search", "inbox", "catalog", "settings"} } \cup
  { Entry(Household \o <<"settings", s>>, "space", s, FALSE) : s \in SettingsSections }

RouteTree ==
  EntryEntries \cup PublicEntries \cup PersonalEntries \cup PlatformEntries \cup SpaceEntries

NotFound == Route("not-found", "", FALSE)

\* The whole path matches one entry of the tree; a rest that does not is a 404.
routeForPath(path) ==
  IF \E e \in RouteTree : e.path = path
  THEN (CHOOSE e \in RouteTree : e.path = path).route
  ELSE NotFound

routeZone(route) ==
  CASE route.kind \in {"login", "signup", "invite", "share", "not-found"} -> "public"
    [] route.kind = "space" -> "space"
    [] route.kind = "dev" -> "platform"
    [] OTHER -> "personal"

-----------------------------------------------------------------------------
(* The household's segment.                                                *)

Segment(hid, slug, encoded) == [hid |-> hid, slug |-> slug, encoded |-> encoded]

\* hid + transliterated name; a name that leaves nothing gives the bare hid.
canonicalizeHidSegment(household) == Segment(household.hid, household.slug, FALSE)

resolve(households, hid) ==
  IF \E i \in DOMAIN households : households[i].hid = hid
  THEN households[CHOOSE i \in DOMAIN households : households[i].hid = hid]
  ELSE None

-----------------------------------------------------------------------------
(* The redirect rules.  A session is pending, signed out (keeping the      *)
(* return address or not) or signed in to some households.                 *)

Address(path, segment, from) == [path |-> path, segment |-> segment, from |-> from]

Plain(path) == Address(path, None, None)

RouteOf(a) == routeForPath(a.path)

IsEntry(a) == RouteOf(a).kind \in {"login", "signup"}

loginAddress(from) == Address(<<"login">>, None, from)

\* Another origin or the login page itself is no return address.
readReturnAddress(a) == IF a.from = None \/ IsEntry(a.from) THEN None ELSE a.from

homeOf(households) ==
  IF households = <<>> THEN None
  ELSE Address(Household, canonicalizeHidSegment(households[1]), None)

\* Mutant: the canonical form is written whether or not it is there.
canonicalAnyway(a, households) ==
  LET household == resolve(households, a.segment.hid)
  IN IF household = None THEN None
     ELSE [a EXCEPT !.segment = canonicalizeHidSegment(household)]

(***************************************************************************)
(* Where another form of the household's segment leads; None when there    *)
(* is nothing to change.  The route's segment is decoded and the path's is *)
(* not: in an encoded one the replacement finds nothing to replace.        *)
(***************************************************************************)
canonicalSpaceAddress(a, households) ==
  LET household == resolve(households, a.segment.hid)
  IN IF household = None THEN None
     ELSE LET canonical == canonicalizeHidSegment(household)
          IN CASE canonical.slug = a.segment.slug -> None
               [] canonical.slug # a.segment.slug /\ a.segment.encoded -> a
               [] OTHER -> [a EXCEPT !.segment = canonical]

Pending == [kind |-> "pending"]
SignedOut(keep) == [kind |-> "signed-out", keepReturnAddress |-> keep]
SignedIn(households) == [kind |-> "signed-in", households |-> households]

SignedOutRedirect(a, session) ==
  IF routeZone(RouteOf(a)) = "public" THEN None
  ELSE IF RouteOf(a).kind = "root" \/ ~session.keepReturnAddress THEN loginAddress(None)
  ELSE loginAddress(a)

FirstOf(x, y, z) == IF x # None THEN x ELSE IF y # None THEN y ELSE z

SettingsRedirect(a) ==
  IF RouteOf(a).section = "settings"
  THEN Address(Household \o <<"settings", "general">>, a.segment, None)
  ELSE None

\* Mutant: home before the return address.
HomeFirstRedirect(a, session) ==
  IF IsEntry(a) THEN FirstOf(homeOf(session.households), readReturnAddress(a), Plain(<<>>))
  ELSE None

SignedInRedirect(a, session) ==
  CASE IsEntry(a) ->
         FirstOf(readReturnAddress(a), homeOf(session.households), Plain(<<>>))
    [] RouteOf(a).kind = "root" -> homeOf(session.households)
    [] RouteOf(a).kind = "space" ->
         FirstOf(canonicalSpaceAddress(a, session.households), SettingsRedirect(a), None)
    [] OTHER -> None

decideRouteRedirect(a, session) ==
  CASE session.kind = "pending" -> None
    [] session.kind = "signed-out" -> SignedOutRedirect(a, session)
    [] session.kind = "signed-in" -> SignedInRedirect(a, session)
=============================================================================
