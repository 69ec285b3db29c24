------------------------------- MODULE Registry -------------------------------
(***************************************************************************)
(* The apps the shell knows: AppRegistry (packages/registry), the override *)
(* of an app's entry in the query of the page (applyRemoteOverride), and   *)
(* the Content-Security-Policy the page is served with                     *)
(* (buildContentSecurityPolicy, cspVitePlugin).                            *)
(*                                                                         *)
(* A manifest names its entry and its stylesheets by URLs, and what its    *)
(* code talks to by URLs or by bare domains (docs/manifest.md).  Site says *)
(* what the browser asks for each of them, whatever the code makes of it.  *)
(***************************************************************************)
EXTENDS Integers, Sequences

CONSTANTS Ids, Majors,
          SUPPORTED_CONTRACT_MAJOR,
          Urls,         \* URLs, absolute or relative to the page
          Absolute,     \* those with a scheme
          Domains,      \* names of hosts without a scheme
          WithPort,     \* those with a port
          Site,         \* external: the origin behind each of them
          Self,         \* 'self', the origin of the page
          Null          \* "null", the origin of a URL that has none

\* A relative URL is the page's own.
ASSUME RegistryAssumption ==
  /\ Absolute \subseteq Urls /\ \A u \in Urls \ Absolute : Site[u] = Self
  /\ WithPort \subseteq Domains /\ Domains \cap Urls = {}

Manifest == [id : Ids, contract : Majors, remoteEntry : Urls,
             styles : SUBSET Urls, connect : SUBSET (Urls \cup Domains)]

-----------------------------------------------------------------------------
(* The overrides of a query: one value of _remote is cut at its first "@"  *)
(* into the app and its entry; without an "@", or with nothing on either   *)
(* side of it, it is no override.                                          *)

Nothing == ""
RemoteParam == [appId : Ids \cup {Nothing}, remoteEntry : Urls \cup {Nothing}]

\* parseRemoteOverrides: of two overrides of one app the later stands.
parseRemoteOverrides(params) ==
  LET overriding == { i \in DOMAIN params : /\ params[i].appId # Nothing
                                            /\ params[i].remoteEntry # Nothing }
      Of(a) == { i \in overriding : params[i].appId = a }
  IN [a \in { params[i].appId : i \in overriding } |->
        params[CHOOSE i \in Of(a) : \A j \in Of(a) : j <= i].remoteEntry]

applyRemoteOverrides(manifests, overrides) ==
  [i \in DOMAIN manifests |->
     IF manifests[i].id \in DOMAIN overrides
     THEN [manifests[i] EXCEPT !.remoteEntry = overrides[manifests[i].id]]
     ELSE manifests[i]]

-----------------------------------------------------------------------------
(* The registry of a page: the manifests of registry.json registered in    *)
(* their order, so that of two with one id the later stays.                *)

list(manifests) ==
  { manifests[i] : i \in { k \in DOMAIN manifests :
                             \A j \in DOMAIN manifests :
                               manifests[j].id = manifests[k].id => j <= k } }

\* What resolve gives the slot: the app, or what is wrong with it.
resolve(manifests, appId) ==
  LET known == { m \in list(manifests) : m.id = appId }
  IN IF known = {} THEN [ok |-> FALSE, error |-> "unknown-app"]
     ELSE LET m == CHOOSE m \in known : TRUE
          IN IF m.contract = SUPPORTED_CONTRACT_MAJOR
             THEN [ok |-> TRUE, manifest |-> m]
             ELSE [ok |-> FALSE, error |-> "incompatible-contract"]

loadRegistry(manifests, params) ==
  applyRemoteOverrides(manifests, parseRemoteOverrides(params))

-----------------------------------------------------------------------------
(* The policy.                                                             *)

\* Only a URL with a scheme has an origin new URL() tells; host:port is parsed
\* as a scheme, and anything else does not parse.
originOf(u) == CASE u \in Absolute -> Site[u]
                 [] u \in WithPort -> Null
                 [] OTHER -> Self

buildContentSecurityPolicy(manifests) ==
  LET each == { manifests[i] : i \in DOMAIN manifests }
      remotes == { originOf(m.remoteEntry) : m \in each }
      styles == { originOf(u) : u \in UNION { m.styles : m \in each } }
      connects == { originOf(u) : u \in UNION { m.connect : m \in each } }
  IN [script |-> {Self} \cup remotes,
      style |-> {Self} \cup styles,
      connect |-> {Self} \cup remotes \cup styles \cup connects,
      frame |-> {Self} \cup remotes]

\* The server derives the policy from the query the page is asked for with.
policyForRequestUrl(manifests, params) ==
  buildContentSecurityPolicy(
    applyRemoteOverrides(manifests, parseRemoteOverrides(params)))

-----------------------------------------------------------------------------

\* The browser lets the page do with an app what it does: its entry becomes a
\* script, a fetch of chunks or a frame, its styles are fetched, its addresses
\* are talked to.
LetsIn(policy, m) ==
  /\ Site[m.remoteEntry] \in policy.script \cap policy.connect \cap policy.frame
  /\ \A u \in m.styles : Site[u] \in policy.style \cap policy.connect
  /\ \A u \in m.connect : Site[u] \in policy.connect

\* The manifest without its bare domains.
WithUrlsOnly(m) == [m EXCEPT !.connect = @ \cap Urls]
===============================================================================
