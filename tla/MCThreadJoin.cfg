SPECIFICATION FairSpec
CONSTANTS
  Main = Main
  Worker = {w1, w2, w3}
  JoinArgs <- MCJoinArgs
  Value = {v1, v2}
  NoValues = NoValues
INVARIANTS NoLostWakeup JoinReturnsValues
PROPERTIES ImplementsJoinSpec JoinTerminates
CHECK_DEADLOCK FALSE
