SPECIFICATION FairSpec
CONSTANTS
  Client = {c1, c2}
  Drainer = {d1, d2}
  Object = {o1, o2, o3}
  None = None
INVARIANTS FlagMatchesThread FinalizedOnce
PROPERTY FinalizationProgress
CHECK_DEADLOCK FALSE
