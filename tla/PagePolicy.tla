------------------------------ MODULE PagePolicy ------------------------------
(***************************************************************************)
(* Two readings of one query.  The document comes with a policy for the    *)
(* query it was asked for with (cspVitePlugin), and keeps it; the chrome   *)
(* reads the registry from the query the address has when it mounts        *)
(* (HostChrome, loadRegistry), after sign-in and after every redirect,     *)
(* which happen inside the document (SessionGate, redirectRules).          *)
(*                                                                         *)
(* The person has a household.  An address in the login zone stands with   *)
(* the query its _from carries, which is not its own.                      *)
(***************************************************************************)
EXTENDS Registry

CONSTANTS Registries,   \* bound: what registry.json may hold
          Queries,      \* bound: the overrides of a query
          None

NoOverride == <<>>

Addresses == [at : {"root", "shell", "public", "login"}, query : Queries]

ASSUME PageAssumption ==
  /\ Registries \subseteq Seq(Manifest)
  /\ Queries \subseteq Seq(RemoteParam) /\ NoOverride \in Queries /\ None \notin Queries

VARIABLES
  data,       \* registry.json
  served,     \* the query the document was served for
  address,    \* where the history is
  session,    \* SessionState, "expired" also for who never was signed in
  read,       \* the query the mounted chrome's registry was read from
  strayed     \* the person left the document's query

pageVars == <<data, served, address, session, read, strayed>>

PageTypeOK ==
  /\ data \in Registries
  /\ served \in Queries /\ address \in Addresses
  /\ session \in {"pending", "in", "expired", "logout"}
  /\ read \in Queries \cup {None} /\ strayed \in BOOLEAN

\* window.location.search, as far as overrides go.
Search(a) == IF a.at = "login" THEN NoOverride ELSE a.query

\* The query of an address is not, or will not stay, that of the document.
Strays(a, query) == a.query # query \/ (a.at = "root" /\ a.query # NoOverride)

At(zone, query) == [at |-> zone, query |-> query]

\* Mutant: _from carries the path alone.
RedirectedBare(a, s) ==
  CASE s = "in" /\ a.at = "login" -> At("shell", a.query)
    [] s = "in" /\ a.at = "root" -> At("shell", NoOverride)
    [] s \in {"expired", "logout"} /\ a.at \in {"root", "shell"} -> At("login", NoOverride)
    [] OTHER -> a

\* decideRouteRedirect between the zones.
Redirected(a, s) ==
  CASE s = "in" /\ a.at = "login" -> At("shell", a.query)
    [] s = "in" /\ a.at = "root" -> At("shell", NoOverride)
    [] s = "expired" /\ a.at = "shell" -> At("login", a.query)
    [] s = "expired" /\ a.at = "root" -> At("login", NoOverride)
    [] s = "logout" /\ a.at \in {"root", "shell"} -> At("login", NoOverride)
    [] OTHER -> a

(***************************************************************************)
(* The chrome is on the screen in the shell, signed in, and off it while   *)
(* a redirect is due; mounting, it reads the registry.                     *)
(***************************************************************************)
Lands(a, s) ==
  LET b == Redirected(a, s)
  IN /\ address' = b /\ session' = s
     /\ read' = IF s = "in" /\ b.at = "shell"
                THEN IF read # None /\ b = a THEN read ELSE Search(b)
                ELSE None

PageInit ==
  /\ data \in Registries
  /\ address \in Addresses /\ served = Search(address)
  /\ session = "pending" /\ read = None
  /\ strayed = Strays(address, served)

\* A document: a link from elsewhere, an address typed in, a reload.
Loads(a) ==
  /\ address' = a /\ served' = Search(a)
  /\ session' = "pending" /\ read' = None
  /\ strayed' = Strays(a, served')
  /\ UNCHANGED data

\* restore, a form or the second factor, and a session that is over.
SessionBecomes(s) ==
  /\ s # session /\ Lands(address, s)
  /\ UNCHANGED <<data, served, strayed>>

\* From the shell's menu: the return address is dropped.
PageLogsOut ==
  /\ read # None
  /\ Lands(address, "logout")
  /\ strayed' = (strayed \/ served # NoOverride)
  /\ UNCHANGED <<data, served>>

\* A link, an app's navigate, Back and Forward.
PersonMoves(a) ==
  /\ Lands(a, session)
  /\ strayed' = (strayed \/ Strays(a, served))
  /\ UNCHANGED <<data, served>>

\* To an address of the shell that redirects to another one: to the canonical
\* form of the space, with its query, or to the settings' first section,
\* without.
MovesOnInShell(query) ==
  /\ session = "in"
  /\ address' = At("shell", query) /\ read' = query
  /\ strayed' = (strayed \/ query # served)
  /\ UNCHANGED <<data, served, session>>

PageNext ==
  \/ \E a \in Addresses : Loads(a) \/ PersonMoves(a)
  \/ \E s \in {"in", "expired"} : SessionBecomes(s)
  \/ PageLogsOut
  \/ \E q \in Queries : MovesOnInShell(q)

PageSpec == PageInit /\ [][PageNext]_pageVars

-----------------------------------------------------------------------------
(* Properties.                                                             *)

policy == policyForRequestUrl(data, served)

\* The apps the chrome opens, as it has them.
Resolved ==
  { r.manifest : r \in { x \in { resolve(loadRegistry(data, read), i) : i \in Ids } : x.ok } }

(***************************************************************************)
(* The document lets in every app its chrome opens, with all the URLs the  *)
(* app names, override or not, through sign-in, expiry and sign-in again:  *)
(* the override travels in _from and is read again from where it leads     *)
(* (cspVitePlugin.ts:20-24, loadRegistry.ts:6-14, redirectRules.ts:74).    *)
(* The named exception is a person who strayed from the document's query:  *)
(* then the policy may lack an app's own origin, which docs/manifest.md    *)
(* (100-101) says is always added.  Bare domains are not claimed, although *)
(* the manifest allows them (36): the policy holds the page's own origin   *)
(* for them (buildContentSecurityPolicy.ts:9).                             *)
(***************************************************************************)
PolicyInStep ==
  read # None /\ ~strayed => \A m \in Resolved : LetsIn(policy, WithUrlsOnly(m))
===============================================================================
