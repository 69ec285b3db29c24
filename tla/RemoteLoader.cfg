SPECIFICATION Spec
CONSTANTS
  Apps = {recipes, budget}
  Tokens = tokens
  MaxOpens = 3
  MaxFaults = 2
CHECK_DEADLOCK FALSE
INVARIANTS
  RetryRecovers
  OwnStyles
SYMMETRY AppSymmetry
