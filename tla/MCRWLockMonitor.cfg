SPECIFICATION Spec
CONSTANTS
  Thread = {t1, t2, t3}
  NoThread = NoThread
  MaxClaims = 1
  Timed = {"wait"}
SYMMETRY MCSymmetry
PROPERTY ImplementsReadWriteLock
CHECK_DEADLOCK FALSE
