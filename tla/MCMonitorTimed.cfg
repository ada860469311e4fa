SPECIFICATION Spec
CONSTANTS
  Thread = {t1, t2, t3}
  NoThread = NoThread
  Timed = {"lock", "wait"}
SYMMETRY MCSymmetry
INVARIANT ReleaseNeverDeadlocks
CHECK_DEADLOCK FALSE
