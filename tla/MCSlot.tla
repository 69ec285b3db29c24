------------------------------- MODULE MCSlot -------------------------------
(***************************************************************************)
(* Small instances of Slot for TLC.  The apps that can be resolved are     *)
(* interchangeable.                                                        *)
(***************************************************************************)
EXTENDS Slot, TLC

Suite == INSTANCE Conformance

\* The facts about the suite that apps run on themselves.
ASSUME Suite!ConformanceFacts

Pages == INSTANCE ShellPages WITH Hids <- {"h1", "h2"}, Slugs <- {"dom", "old"}

\* The facts about what the shell shows around the slot and the other pages.
ASSUME Pages!ShellPagesFacts

AppSymmetry == Permutations(Apps \ Unresolvable)
=============================================================================
