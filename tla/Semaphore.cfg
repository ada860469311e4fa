SPECIFICATION FairSpec
CONSTANTS
  Thread = {t1, t2, t3, t4}
  NoThread = NoThread
  InitialCount = 1
  MaximumCount = 3
  CountBound = 3
  Clock = {0, 500000, 999999}
  Timeout = {0, 500, 1000}
INVARIANT EnoughWakeups
PROPERTY UnitTaken
CHECK_DEADLOCK FALSE
