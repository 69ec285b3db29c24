---------------------------- MODULE MCBffAccess ----------------------------
(***************************************************************************)
(* A small instance of BffAccess for TLC.  Two bounds in one: what takes   *)
(* time and apps is asked of one session, what is shared of two.           *)
(***************************************************************************)
EXTENDS BffAccess, TLC, FiniteSetsExt

CONSTANTS s1, s2, u1, u2,
          MaxTime,      \* the clock stops here
          MaxChanges,   \* changes of all households together
          MaxRevoked,   \* sessions identity-service ends
          MaxWebhooks   \* webhooks on their way at once

OneUserPerSession == s1 :> u1 @@ s2 :> u2

InFlight == {r \in Requests : req[r].pc # "idle"}

\* One session's requests, one after the other, have the time and the apps; with
\* a change and a revocation both, less of the time.
Alone ==
  /\ now <= MaxTime
  /\ endedAt[s1] = Never \/ now <= MaxTime \div 2 \/ \A h \in Households : Version(hist[h]) = 1
  /\ Cardinality(InFlight) <= 1 /\ \A r \in InFlight : req[r].session = s1
  /\ \A k \in DOMAIN entries : k[1] = s1
  /\ endedAt[s2] = Never
  /\ \A h \in Households : \A v \in DOMAIN hist[h] :
       u2 \notin hist[h][v].members /\ hist[h][v].grants[u2] = {}

\* Requests of two sessions share the cache, without apps: at once while its
\* entries are fresh, in turns when they expire.
Together ==
  /\ now <= Ttl
  /\ now = 0 \/ Cardinality(InFlight) <= 1
  /\ \A s \in Sessions : endedAt[s] = Never
  /\ \A r \in InFlight : req[r].app = NoApp
  /\ \A h \in Households : \A v \in DOMAIN hist[h] :
       /\ hist[h][v].installed = {}
       /\ \A u \in Users : hist[h][v].grants[u] = {}

Bounded ==
  /\ Alone \/ Together
  /\ MapThenSumSet(LAMBDA h : Version(hist[h]) - 1, Households) <= MaxChanges
  /\ Cardinality({s \in Sessions : endedAt[s] # Never}) <= MaxRevoked
  /\ Cardinality(webhooks) <= MaxWebhooks

RequestSymmetry == Permutations(Requests)
=============================================================================
