----------------------------- MODULE MCPagePolicy -----------------------------
(***************************************************************************)
(* A small instance of PagePolicy for TLC: two apps, an entry of the       *)
(* page's own, one on a CDN and a dev server, an API named by its URL and  *)
(* one named by its domain.  The overrides are also evaluated over every   *)
(* registry of at most two manifests and every query of at most two        *)
(* overrides.                                                              *)
(***************************************************************************)
EXTENDS PagePolicy, SequencesExt

Named == {"recipes", "budget"}
Addressed == {"/own", "https://cdn", "http://dev", "https://api"}
Hosts == {"bank.example", "localhost:5174"}
Behind ==
  [u \in Addressed \cup Hosts |->
     CASE u = "/own" -> "self" [] u = "bank.example" -> "https://bank.example"
       [] u = "localhost:5174" -> "http://localhost:5174" [] OTHER -> u]

Manifests ==
  { m \in Manifest : /\ m.remoteEntry \in {"/own", "https://cdn"}
                     /\ m.styles \in {{}, {"https://cdn"}}
                     /\ m.connect \in {{}, {"https://api"}} }

\* An app of this host beside one that lives elsewhere.
MCRegistries ==
  { <<[id |-> "recipes", contract |-> 0, remoteEntry |-> "https://cdn",
       styles |-> {"https://cdn"}, connect |-> {"https://api"}],
      [id |-> "budget", contract |-> c, remoteEntry |-> "/own", styles |-> {},
       connect |-> d]>> : c \in {0, 1}, d \in {{}, {"bank.example"}, {"localhost:5174"}} }

To(i, u) == [appId |-> i, remoteEntry |-> u]

MCQueries == { <<>>, <<To("recipes", "http://dev")>>,
               <<To("budget", "https://cdn"), To("recipes", "/own")>> }

\* An override only moves an app's entry: which apps resolve, and what an app
\* it does not name loads, is as without it; an app it names is loaded from
\* there (applyRemoteOverrides, resolve).
ASSUME OverrideMovesOnlyTheEntry ==
  \A ms \in SeqOf(Manifests, 2), a \in Named,
     ps \in SeqOf([appId : Named \cup {""}, remoteEntry : {"", "http://dev", "https://cdn"}], 2) :
    LET plain == resolve(ms, a)
        there == resolve(loadRegistry(ms, ps), a)
        named == { i \in DOMAIN ps : ps[i].appId = a /\ ps[i].remoteEntry # "" }
    IN /\ there.ok = plain.ok
       /\ plain.ok /\ named = {} => there = plain
       /\ plain.ok /\ named # {} =>
            /\ there.manifest = [plain.manifest EXCEPT !.remoteEntry = there.manifest.remoteEntry]
            /\ \E i \in named : /\ \A j \in named : j <= i
                                /\ there.manifest.remoteEntry = ps[i].remoteEntry
===============================================================================
