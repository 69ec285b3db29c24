----------------------------- MODULE HostHistory -----------------------------
(***************************************************************************)
(* The shell's history (apps/host/src/router/hostHistory.ts) and what an   *)
(* app sees of it through sdk.router (createSdkRouter.ts): a list of       *)
(* entries and a place in it, of which the shell is the only writer.       *)
(***************************************************************************)
EXTENDS Integers, Sequences

CONSTANTS Apps,   \* the apps an address may belong to
          Me,     \* the app these operators speak for
          Paths,  \* addresses relative to an app
          Root    \* "/"

ASSUME HistoryAssumption == Me \in Apps /\ Root \in Paths

\* An address elsewhere is told apart from the app's by its app alone.
Address == { a \in [app : Apps, path : Paths] : a.app # Me => a.path = Root }

Here(h) == h.entries[h.pos]

StartAt(a) == [entries |-> <<a>>, pos |-> 1]

\* pushState drops the entries ahead.
AfterPush(h, a) ==
  [entries |-> Append(SubSeq(h.entries, 1, h.pos), a), pos |-> h.pos + 1]

AfterReplace(h, a) == [h EXCEPT !.entries[h.pos] = a]

\* The browser's bound: back, forward and go are handed to it unchecked, and it
\* does nothing when there is no such entry.
CanGo(h, d) == h.pos + d \in 1 .. Len(h.entries)

\* What popstate finds.
AfterGo(h, d) == [h EXCEPT !.pos = h.pos + d]

-----------------------------------------------------------------------------
(* sdk.router.                                                             *)

OwnsCurrentRoute(h) == Here(h).app = Me

(***************************************************************************)
(* Once the address has left the app its basename is a made-up one, and    *)
(* no address is relative to it.                                           *)
(***************************************************************************)
RelativeLocation(h) == IF OwnsCurrentRoute(h) THEN Here(h).path ELSE Root

\* Mutant: navigate does not ask whose the address is.
NavigateAnyway(h, to, replace) ==
  LET a == [app |-> Me, path |-> to]
  IN IF replace THEN AfterReplace(h, a) ELSE AfterPush(h, a)

\* navigate: an app that is still mounted after the person left it must not
\* rewrite the address they went to.
Navigate(h, to, replace) ==
  LET a == [app |-> Me, path |-> to]
  IN CASE ~OwnsCurrentRoute(h) -> h
       [] OwnsCurrentRoute(h) /\ replace -> AfterReplace(h, a)
       [] OTHER -> AfterPush(h, a)
=============================================================================
