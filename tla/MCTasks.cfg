SPECIFICATION Spec
CONSTANTS
  t1 = t1
  t2 = t2
  k1 = k1
  A = A
  B = B
  i1 = i1
  i2 = i2
  NoId = NoId
  None = None
  Threads <- BothThreads
  Tasks <- OneTask
  Dispatches <- TwoDispatches
  Ids <- TwoIds
  MaxHeld = 2
  MaxMade = 2
  MaxFrames = 2
  MaxWraps = 2
SYMMETRY Symmetry
CONSTRAINT NotCrossed
INVARIANT HandlesCounted
INVARIANT RunsInSpan
PROPERTY ContextRestored
CHECK_DEADLOCK FALSE
