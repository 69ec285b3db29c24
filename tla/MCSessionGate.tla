---------------------------- MODULE MCSessionGate ----------------------------
(***************************************************************************)
(* A small instance of SessionGate for TLC: one household, and an address  *)
(* of each kind the rules tell apart.                                      *)
(***************************************************************************)
EXTENDS SessionGate, Slugs

OneHousehold == <<[hid |-> "h1", slug |-> "dom"]>>

AppMount == Household \o <<"a", "$appId", "$">>

BareSettings == Household \o <<"settings">>

At(path, hid, slug, encoded) == Address(path, Segment(hid, slug, encoded), None)

SomeAddresses ==
  { Plain(<<>>), Plain(<<"invite", "$token">>), Plain(<<"account">>),
    At(AppMount, "h1", "dom", FALSE), At(BareSettings, "h1", "old", FALSE),
    At(AppMount, "h2", "old", FALSE), At(AppMount, "h1", "old", TRUE) }

(***************************************************************************)
(* Names of up to five characters: two Latin letters, a Cyrillic one that  *)
(* is two Latin ones and one that is none, a space and a hyphen.           *)
(***************************************************************************)
SomeLatin == [c \in {"ZH", "SOFT"} |-> IF c = "ZH" THEN <<"z", "h">> ELSE <<>>]

\* The facts about slugs, for such names and a limit of three characters.
ASSUME SlugIsClean(5)

(***************************************************************************)
(* Queries with three records, one of them written in two ways, and a      *)
(* memory of two.                                                          *)
(***************************************************************************)
SomeEntries ==
  [r \in {"a=1", "a=%31", "b", "c"} |-> IF r = "a=%31" THEN "a=1" ELSE r]

Queries == INSTANCE SearchVerbatim
  WITH Raws <- DOMAIN SomeEntries, EntriesOf <- SomeEntries, MaxRemembered <- 2,
       BuiltFrom <- [s \in {"a=1", "b", "c"} |-> s]

\* The facts about queries, after up to five of them.
ASSUME Queries!ComesBackVerbatim(5) /\ Queries!RecentIsKept(5)
=============================================================================
