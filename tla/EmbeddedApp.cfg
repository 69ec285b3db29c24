SPECIFICATION Spec
CONSTANTS
  Apps = {"me", "other"}
  Me = "me"
  Paths = {"/", "/page"}
  Root = "/"
  Rights = {"view", "edit"}
  FirstRights = "edit"
  None = None
  MaxMoves = 3
  MaxCalls = 2
CHECK_DEADLOCK FALSE
INVARIANTS
  FrameAgrees
  RouterFollows
  EachHasItsAnswer
  PortReachesFrame
PROPERTIES
  RequestsSettle
  LeftAppWritesNothing
