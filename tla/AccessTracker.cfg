SPECIFICATION Spec
CONSTANTS
  Hids = {h1, h2}
  Contents = {content}
  Loads = {l1, l2}
  Streams = {e1, e2}
  None = None
  MaxGeneration = 3
CHECK_DEADLOCK FALSE
INVARIANTS
  SnapshotOfHid
  StatusMeans
  OneConnection
SYMMETRY Slots
