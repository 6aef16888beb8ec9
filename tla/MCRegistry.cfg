SPECIFICATION FairSpec
CONSTANTS
  t1 = t1
  t2 = t2
  s1 = s1
  s2 = s2
  s3 = s3
  NoSpan = NoSpan
  Threads <- BothThreads
  OwnDefault <- BothThreads
  Spans <- ThreeSpans
  Layers = 2
  Reentrant = FALSE
  MaxHandles = 2
  MaxStack = 1
INVARIANT ClosesInOrder
INVARIANT NoPanic
 
CHECK_DEADLOCK FALSE
 
