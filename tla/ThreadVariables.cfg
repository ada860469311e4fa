SPECIFICATION Spec
CONSTANTS
  Thread = {t1, t2, t3}
  NoThread = NoThread
  MinimumSize = 2
  MaxVariables = 3
INVARIANTS InitialValuesSeen AccessesInRange
CHECK_DEADLOCK FALSE
