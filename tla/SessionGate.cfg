SPECIFICATION Spec
CONSTANTS
  None = None
  Hids = {"h1", "h2"}
  Slugs = {"dom", "old"}
  Homes <- OneHousehold
  Destinations <- SomeAddresses
  MaxSessions = 3
  MaxMoves = 1
  MaxAtOnce = 2
  MaxFaults = 1
  Letters = {"z", "h"}
  Others = {"ZH", "SOFT", " "}
  Latin <- SomeLatin
  MaxSlugLength = 3
CHECK_DEADLOCK FALSE
INVARIANTS
  TypeOK
  RedirectsSettle
  ReturnsWhereLeft
  LogoutIsClean
  GateTellsTheTruth
