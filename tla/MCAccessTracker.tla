-------------------------- MODULE MCAccessTracker --------------------------
(***************************************************************************)
(* Small instances of AccessTracker for TLC.                               *)
(***************************************************************************)
EXTENDS AccessTracker, TLC

Slots == Permutations(Loads) \cup Permutations(Streams) \cup Permutations(Hids)
=============================================================================
