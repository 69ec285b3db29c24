SPECIFICATION Spec
CONSTANTS
  Requests = {r1, r2}
  Rotating = {"calling", "syncing"}
  SyncEvery = 1
  UpstreamTimeout = 0
  StoreDelay = 0
  ChallengeLife = 1
  Life = 2
  MaxIdentity = 2
  Horizon = 3
  MaxSent = 3
SYMMETRY RequestSymmetry
INVARIANTS
  RevokedIsCutOff
  LogoutIsFinal
  NeverOutlives
PROPERTIES
  EndedForAReason
