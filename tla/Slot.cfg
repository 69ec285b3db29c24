SPECIFICATION Spec
CONSTANTS
  Apps = {a, b, c}
  Unresolvable = {c}
  None = None
  MaxCalls = 7
  MaxMoves = 3
  MaxFailures = 1
CHECK_DEADLOCK FALSE
INVARIANTS
  TypeOK
  ShowsRoute
  NavOwner
  OneAppAtATime
  Unloaded
SYMMETRY AppSymmetry
