--------------------------- MODULE MCRemoteLoader ---------------------------
(***************************************************************************)
(* A small instance of RemoteLoader for TLC: two apps that differ in       *)
(* nothing, so permuting them is a symmetry.                               *)
(***************************************************************************)
EXTENDS RemoteLoader, TLC

AppSymmetry == Permutations(Apps)
=============================================================================
