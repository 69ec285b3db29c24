SPECIFICATION Spec
CONSTANTS
  Apps = {a, b}
  Unresolvable = {}
  None = None
  MaxCalls = 7
  MaxMoves = 3
  MaxFailures = 0
CHECK_DEADLOCK FALSE
INVARIANT NoMountRace
