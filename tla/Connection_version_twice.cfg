CONSTANTS
  Frames = {1, 3, 4, 5}
  Size <- PoliteSize
  Kind <- PoliteKind
  Valid = {1, 3, 5}
  Length = 5
  Threads = {t1, t2}
  MaxPending = 2
  Inbound = TRUE
SPECIFICATION Spec
INVARIANT VersionOnceAlways
CHECK_DEADLOCK FALSE
