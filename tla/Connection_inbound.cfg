CONSTANTS
  Frames = {1, 2, 3, 5, 6, 7, 8, 9}
  Size <- RudeSize
  Kind <- RudeKind
  Valid = {1, 3, 5, 6, 7, 8, 9}
  Length = 9
  Threads = {t1}
  MaxPending = 2
  Inbound = TRUE
SPECIFICATION FairSpec
INVARIANTS VersionFirst VersionOnce WellFormed
PROPERTY HandshakeEnds
CHECK_DEADLOCK FALSE
