SPECIFICATION Spec
CONSTANTS
  Apps = {recipes, budget}
  Tokens = tokens
  MaxOpens = 2
  MaxFaults = 0
CHECK_DEADLOCK FALSE
INVARIANT
  KeepsItsStyles
