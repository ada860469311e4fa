SPECIFICATION FairSpec
CONSTANTS
  Thread = {t1, t2, t3, t4}
  NoThread = NoThread
  MaxNesting = 3
INVARIANTS DepthMatchesCount NoLostSignal
CHECK_DEADLOCK FALSE
