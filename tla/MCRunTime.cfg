SPECIFICATION Spec
CONSTANTS
  v = v
  w = w
  k1 = k1
  k2 = k2
  Values <- Arguments
  Garbage = Garbage
  Counts = {1, 4}
  False = False
  Numbered = 2
  Spread = 2
  ApplyLimit = 5
  MaxArguments = 6
  CountLimit = 4
  MaxSlots = 3
  MaxRepeated = 3
  MaxFlips = 2
  LONG_BIT = 8
  HalfModulus = 16
  Operands <- TriedWords
  Edges <- EdgeWords
  MaxDepth = 5
  Returned = {v, w}
INVARIANTS
  CallsArriveWhole ErrorsAreDeserved ObjectAsAsked CommittedIsSound
  QuotientsAreExact WordsAreExact FramesVerified
PROPERTIES
  ExitsUnwind
CHECK_DEADLOCK FALSE
