SPECIFICATION FairSpec
CONSTANTS
  c1 = c1
  c2 = c2
  s1 = s1
  s2 = s2
  u1 = u1
  u2 = u2
  h1 = h1
  Conns = {c1, c2}
  Sessions = {s1, s2}
  Users = {u1, u2}
  Households = {h1, h2}
  SessionOf <- TwoTabs
  UserOf <- TwoUsers
  AnyUser = AnyUser
  HidOf <- SameHousehold
  MaxOwed = 3
INVARIANTS
  InOrder
  NoListenerLeak
PROPERTIES
  AllDelivered
  AbortEnds
  QuietLogoutCloses
