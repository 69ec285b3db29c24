-------------------------- MODULE IdentityHistory --------------------------
(***************************************************************************)
(* What identity-service knows of a household, as the BFF uses it.         *)
(* identity-service is not in this repository: only its answers are        *)
(* (apps/bff/src/identity/client.ts).  A household is the sequence of the  *)
(* states it has had, each with the time it began; the last is current and *)
(* its position is the version an introspection of this moment returns.    *)
(***************************************************************************)
EXTENDS Naturals, Sequences

CONSTANTS Users, Households, Apps

HouseholdState == [since     : Nat,
                   installed : SUBSET Apps,
                   members   : SUBSET Users,
                   grants    : [Users -> SUBSET Apps]]

Version(h) == Len(h)

Current(h) == h[Len(h)]

(***************************************************************************)
(* Version v of history h was still the current one at some moment no      *)
(* earlier than t.                                                         *)
(***************************************************************************)
CurrentSince(h, v, t) == v = Len(h) \/ h[v + 1].since >= t

\* A gateway call on app is allowed by household state s.
Allows(s, user, app) ==
  user \in s.members /\ app \in s.installed /\ app \in s.grants[user]
=============================================================================
