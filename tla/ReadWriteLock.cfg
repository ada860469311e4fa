SPECIFICATION Spec
CONSTANTS
  Thread = {t1, t2, t3}
  MaxClaims = 2
INVARIANTS ReadersExcludeWriter NoLostWakeup
CHECK_DEADLOCK FALSE
