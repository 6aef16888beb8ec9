SPECIFICATION Spec
CONSTANTS
  t1 = t1
  t2 = t2
  k1 = k1
  A = A
  B = B
  i1 = i1
  i2 = i2
  NoId = NoId
  None = None
  Threads <- BothThreads
  Tasks <- OneTask
  Dispatches <- TwoDispatches
  Ids <- TwoIds
  MaxHeld = 4
  MaxMade = 4
  MaxFrames = 0
  MaxWraps = 0
SYMMETRY Symmetry
CHECK_DEADLOCK FALSE
INVARIANT ParentHeld
