--------------------------- MODULE MCBffSessions ---------------------------
(***************************************************************************)
(* Small instances of BffSessions for TLC, and what is stated of the pure  *)
(* code at the BFF's edges, evaluated over the inputs BffEdges names.      *)
(***************************************************************************)
EXTENDS BffSessions, TLC

RequestSymmetry == Permutations(Requests)

Edges == INSTANCE BffEdges

\* The facts of BffEdges: CSRF, client address, allow-list, the way to an
\* app's backend and back, failures and the cookie jar.
ASSUME BffEdgesFacts ==
  /\ Edges!PerimeterHolds
  /\ Edges!AddressIsNotTheClientsToChoose
  /\ Edges!AllowListSeesTheRealPath
  /\ Edges!AppReachesItsBackend
  /\ Edges!BackendIsKeptApart
  /\ Edges!OnlyTheSessionEndsTheSession
  /\ Edges!JarComposes
=============================================================================
