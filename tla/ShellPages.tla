------------------------------ MODULE ShellPages ------------------------------
(***************************************************************************)
(* What the shell shows around a page of the route tree (apps/host/src):   *)
(* the page's title, the breadcrumbs, the menu and the screen a route      *)
(* attaches.  Labels are left out; a link is the path of the route it      *)
(* names, with the household and the item of the page it is on.            *)
(***************************************************************************)
EXTENDS Naturals, SequencesExt, Routes

AppMount == Household \o <<"a", "$appId", "$">>

Settings(section) == Household \o <<"settings", section>>

Paths == { e.path : e \in RouteTree }

-----------------------------------------------------------------------------
(* Titles and breadcrumbs.                                                 *)

IsApp(route) == route.kind = "space" /\ route.section = "app"

\* shellPageTitle: null for an app, which draws itself, and for pages with no frame.
hasTitle(route) == ~IsApp(route) /\ route.kind \notin {"root", "login", "signup"}

\* href from sdk.nav: an address inside the app, or nothing.
Hrefs == {"none", "inside", "outside"}

resolveAppHref(href) == IF href = "inside" THEN AppMount ELSE None

NoLink(n) == [i \in 1 .. n |-> None]

withoutLastLink(trail) ==
  IF trail = <<>> THEN trail ELSE [trail EXCEPT ![Len(trail)] = None]

\* A section of the space that has pages of items: inbox and catalog.
ListTrail(route) ==
  IF route.item THEN <<Household, Household \o <<route.section>>, None>> ELSE <<Household, None>>

SettingsTrail(route, section) ==
  LET above == IF section = "settings" THEN <<Household, Settings("general")>>
               ELSE <<Household, Settings("general"), Settings(section)>>
  IN IF route.item THEN above \o NoLink(1) ELSE above

ItemOf(section) == IF section = "inbox" \/ section = "catalog" THEN "list" ELSE section

spaceTrail(route, appTrail) ==
  CASE route.section = "home" -> <<Household>>
    [] route.section = "app" ->
         <<Household, AppMount>> \o [i \in DOMAIN appTrail |-> resolveAppHref(appTrail[i])]
    [] ItemOf(route.section) = "list" -> ListTrail(route)
    [] route.section = "search" -> <<Household, None>>
    [] OTHER -> SettingsTrail(route, route.section)

buildBreadcrumbs(route, appTrail) ==
  CASE route.kind = "space" -> withoutLastLink(spaceTrail(route, appTrail))
    [] route.kind = "account" -> <<<<"account">>, None>>
    [] route.kind = "spaces" ->
         IF route.section = "new" THEN <<<<"spaces">>, None>> ELSE NoLink(1)
    [] route.kind = "dev" ->
         IF route.item THEN <<<<"dev", "registry">>, None>> ELSE NoLink(1)
    [] route.kind = "not-found" -> NoLink(1)
    [] OTHER -> <<>>

\* AppNavStore: the app that may publish, what it has published; a call of another is ignored.
EMPTY == [appId |-> None, trail |-> <<>>, title |-> None]

activate(appId) == [EMPTY EXCEPT !.appId = appId]

setBreadcrumbs(nav, appId, trail) == IF appId = nav.appId THEN [nav EXCEPT !.trail = trail] ELSE nav

setTitle(nav, appId, title) == IF appId = nav.appId THEN [nav EXCEPT !.title = title] ELSE nav

\* useShellBreadcrumbs: the trail of the app that may publish, on its own page only.
ownsRoute(route, appId, navAppId) == IsApp(route) /\ navAppId = appId

shellTrail(route, appId, nav) ==
  buildBreadcrumbs(route, IF ownsRoute(route, appId, nav.appId) THEN nav.trail ELSE <<>>)

\* The label that formatDocumentTitle puts before the product's name, if any.
documentTitle(route, appId, nav) ==
  CASE ownsRoute(route, appId, nav.appId) /\ nav.title # None -> nav.title
    [] shellTrail(route, appId, nav) # <<>> -> "page"
    [] OTHER -> None

-----------------------------------------------------------------------------
(* The menu.                                                               *)

areaOf(route, appId) ==
  CASE route.kind # "space" -> None
    [] IsApp(route) -> <<"app", appId>>
    [] route.section \in SettingsSections \cup {"settings"} -> <<"settings">>
    [] OTHER -> <<route.section>>

NavItem(area, link) == [id |-> area, link |-> link]

ShellItems ==
  { NavItem(<<"home">>, Household), NavItem(<<"settings">>, Settings("general")) } \cup
  { NavItem(<<s>>, Household \o <<s>>) : s \in {"search", "inbox", "catalog"} }

buildShellNav(apps) == ShellItems \cup { NavItem(<<"app", a>>, AppMount) : a \in apps }

selected(route, appId, apps) ==
  { i \in buildShellNav(apps) : i.id = areaOf(route, appId) }

\* The switcher of households: a value is a household's identifier.
handleChange(households, value) ==
  IF value = "__create__" THEN Plain(<<"spaces", "new">>)
  ELSE Address(Household, canonicalizeHidSegment(resolve(households, value)), None)

-----------------------------------------------------------------------------
(* The screen a route attaches (app/routeComponents.tsx), inside the frame *)
(* of its zone; null is a blank page.                                      *)

frameOf(route) ==
  CASE route.kind \in {"login", "signup"} -> "auth"
    [] route.kind \in {"invite", "share"} -> "public"
    [] route.kind \in {"root", "not-found"} -> "none"
    [] OTHER -> "shell"

screenOf(route, session) ==
  CASE route.kind = "login" -> "SignInPage"
    [] route.kind = "signup" -> "SignUpPage"
    [] route.kind = "not-found" -> "NotFoundPage"
    [] frameOf(route) = "shell" /\ session.kind # "signed-in" -> None
    [] IsApp(route) -> "AppSlot"
    [] hasTitle(route) -> "PageStub"
    [] OTHER -> None

-----------------------------------------------------------------------------
(* Facts.                                                                  *)

TrailsOf(n) == UNION { [1 .. m -> Hrefs] : m \in 0 .. n }

(***************************************************************************)
(* Whatever an app publishes, every crumb leads to a page of the tree, the *)
(* page itself or one above it - settings' first section stands for the    *)
(* settings - and the last leads nowhere (breadcrumbs.ts:46-144).          *)
(***************************************************************************)
CrumbsLeadUp ==
  \A e \in RouteTree : \A trail \in TrailsOf(2) :
    LET crumbs == buildBreadcrumbs(e.route, trail) IN
      /\ \A i \in DOMAIN crumbs : crumbs[i] # None =>
           /\ crumbs[i] \in Paths
           /\ IsPrefix(crumbs[i], e.path) \/ crumbs[i] = Settings("general")
      /\ crumbs # <<>> => Last(crumbs) = None

(***************************************************************************)
(* A public page has no crumbs, and every other page that can be seen has: *)
(* the first crumb would name the household (breadcrumbs.ts:142-143).      *)
(***************************************************************************)
PublicHasNoCrumbs ==
  \A e \in RouteTree :
    buildBreadcrumbs(e.route, <<>>) = <<>> <=> frameOf(e.route) # "shell"

(***************************************************************************)
(* In a household the menu shows one place as open, on any page of an      *)
(* installed app or of the shell, and following an item's link opens it;   *)
(* elsewhere it shows none (shellNav.ts:25-67).                            *)
(***************************************************************************)
OneItemSelected ==
  LET apps == {"recipes", "budget"} IN
  \A a \in apps : \A e \in RouteTree :
    /\ e.route.kind = "space" => \E i \in buildShellNav(apps) : selected(e.route, a, apps) = {i}
    /\ e.route.kind # "space" => selected(e.route, a, apps) = {}
    /\ \A i \in ShellItems : e.path = i.link => selected(e.route, a, apps) = {i}

\* What the slot and two apps do to the frame, in calls; a title names its app.
NavCalls == {"activate", "setBreadcrumbs", "setTitle"} \X {"recipes", "budget"} \cup {<<"deactivate", None>>}

AfterCall(nav, call) ==
  CASE call[1] = "activate" -> activate(call[2])
    [] call[1] = "deactivate" -> EMPTY
    [] call[1] = "setBreadcrumbs" -> setBreadcrumbs(nav, call[2], <<"inside">>)
    [] call[1] = "setTitle" -> setTitle(nav, call[2], call[2])

(***************************************************************************)
(* Whatever two apps publish, in whatever order with the slot's changes of *)
(* app: the frame shows what the app of the page itself published since it *)
(* was opened, and nothing of one that is left, on its way out or          *)
(* elsewhere (appNavStore.ts:22-53, useShellBreadcrumbs.ts:15-23).         *)
(***************************************************************************)
OnlyOwnPageIsPublished(n) ==
  \A e \in RouteTree : \A calls \in UNION { [1 .. m -> NavCalls] : m \in 0 .. n } :
  \A shown \in {"recipes", "budget"} :
    LET nav == FoldLeft(AfterCall, EMPTY, calls)
        Since(call) == \E i \in DOMAIN calls : \E j \in i .. Len(calls) :
          /\ calls[i] = <<"activate", shown>> /\ calls[j] = <<call, shown>>
          /\ \A k \in i + 1 .. Len(calls) : calls[k][1] \notin {"activate", "deactivate"}
        Own(call) == IsApp(e.route) /\ Since(call)
    IN /\ documentTitle(e.route, shown, nav) \in {shown} <=> Own("setTitle")
       /\ shellTrail(e.route, shown, nav) # buildBreadcrumbs(e.route, <<>>) <=> Own("setBreadcrumbs")

(***************************************************************************)
(* Switching the household leads to an address the redirect rules leave as *)
(* it is, whichever of several is chosen (SpaceSwitcher.tsx:44-53).        *)
(***************************************************************************)
SwitchIsCanonical ==
  \A h, g \in Hids : \A s, t \in Slugs :
    LET households == <<[hid |-> h, slug |-> s], [hid |-> g, slug |-> t]>> IN
      \A value \in {h, g, "__create__"} :
        decideRouteRedirect(handleChange(households, value), SignedIn(households)) = None

(***************************************************************************)
(* Where the redirect rules leave a person there is a screen to see: the   *)
(* blank ones are those the rules lead away from (routeComponents.tsx:66,  *)
(* redirectRules.ts:64-87).  A person with no household stays at the root. *)
(***************************************************************************)
NoBlankPage ==
  \A e \in RouteTree : \A session \in {SignedOut(TRUE), SignedOut(FALSE)} \cup
      { SignedIn(<<[hid |-> h, slug |-> s]>>) : h \in Hids, s \in Slugs } :
    LET a == Address(e.path, Segment(CHOOSE h \in Hids : TRUE, CHOOSE s \in Slugs : TRUE, FALSE), None)
    IN screenOf(e.route, session) = None => decideRouteRedirect(a, session) # None

ShellPagesFacts ==
  /\ CrumbsLeadUp /\ PublicHasNoCrumbs /\ OneItemSelected
  /\ OnlyOwnPageIsPublished(3) /\ SwitchIsCanonical /\ NoBlankPage
===============================================================================
