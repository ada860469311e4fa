SPECIFICATION Spec
CONSTANTS
  Threads = {t1, t2, t3}
  NoThread = NoThread
  LockCountBound = 2
  DepthBound = 2
  MaximumCount = 2
  InitialSize = 1
  JoinBound = 3
  VariableBound = 2
SYMMETRY Interchangeable
INVARIANTS
  LockAndOwnerAgree SleepersAndWaitersAreCounted
  RecursiveLockIsPassedOn UnitsHaveTakers
  JoinsAreSound ThreadReadsWhatItStored
CHECK_DEADLOCK FALSE
