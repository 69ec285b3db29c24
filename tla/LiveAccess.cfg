SPECIFICATION Spec
CONSTANTS
  Hid = h1
  Loads = {l1, l2}
  Streams = {e1, e2}
  None = None
  MaxVersion = 2
  MaxFailures = 1
CHECK_DEADLOCK FALSE
PROPERTIES
  KeptLive
  NeverLoadsForever
