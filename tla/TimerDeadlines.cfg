SPECIFICATION DeadlinesSpec
CONSTANTS
  Timers = {t1, t2}
  Workers = {w1, w2}
  Resettable = {t1}
  Pausable = {t2}
  MaxTasks = 2
  Timeout = 1
  None = None
INVARIANTS NoOverlap CrashNeedsRace NoTimerLost
PROPERTY TimersGoOn
CHECK_DEADLOCK FALSE
