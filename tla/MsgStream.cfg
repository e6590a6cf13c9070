CONSTANTS
  Frames = {1, 3, 4, 6}
  Size <- MCSize
  Length = 6
  Threads = {t1, t2}
  MaxPending = 1
SPECIFICATION FairSpec
INVARIANTS HandledInOrder MisreadNeedsDisturbance
PROPERTY EveryFrameHandled
CHECK_DEADLOCK FALSE
