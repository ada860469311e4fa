SPECIFICATION FairSpec
CONSTANTS
  Thread = {t1, t2, t3}
  NoThread = NoThread
  Timed = {"lock", "wait"}
INVARIANTS NoMissedNotification NoLostSignal
           ReleaseBlockedByTimeoutOnly
PROPERTY WaitContract
CHECK_DEADLOCK FALSE
