--------------------------- MODULE MCAccessStream ---------------------------
(***************************************************************************)
(* Small instances of AccessStream for TLC.                                *)
(***************************************************************************)
EXTENDS AccessStream, TLC

CONSTANTS c1, c2, s1, s2, u1, u2, h1

\* Two members of one household, a tab each.
TwoTabs == c1 :> s1 @@ c2 :> s2
TwoUsers == s1 :> u1 @@ s2 :> u2

\* One tab.
OneTab == [c \in Conns |-> s1]
OneUser == [s \in Sessions |-> u1]

SameHousehold == [c \in Conns |-> h1]
=============================================================================
