SPECIFICATION Spec
CONSTANTS
  s1 = s1
  s2 = s2
  u1 = u1
  u2 = u2
  Sessions = {s1, s2}
  UserOf <- OneUserPerSession
  Users = {u1, u2}
  Households = {h1}
  Apps = {app}
  Requests = {r1, r2}
  NoApp = NoApp
  Never = Never
  AnyUser = AnyUser
  Ttl = 1
  PruneThreshold = 1
  UpstreamTimeout = 1
  StoreDelay = 1
  MaxTime = 4
  MaxChanges = 1
  MaxRevoked = 1
  MaxWebhooks = 1
CONSTRAINT Bounded
CHECK_DEADLOCK FALSE
INVARIANTS
  BoundedStaleness
  EndedSessionBound
  RefusalWasRecent
  OnlyOvertakenIsStale
  ForwardedWasAllowed
  OwnView
PROPERTY PruneSparesLive
SYMMETRY RequestSymmetry
