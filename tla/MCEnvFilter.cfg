SPECIFICATION Spec
CONSTANTS
  t1 = t1
  t2 = t2
  s1 = s1
  s2 = s2
  NoTarget = NoTarget
  NoName = NoName
  NoPattern = NoPattern
  NoSpan = NoSpan
  Threads <- MCThreads
  Ids <- MCIds
  Sites <- MCSites
  Parsed <- MCParsed
  Added <- MCAdded
  Default <- DirLevel
  Values <- MCValues
  MaxGiven = 3
  MaxDepth = 2
  Trace = 2
SYMMETRY Symmetry
INVARIANTS
  
  ScopeBalanced
  InterestAgrees
CHECK_DEADLOCK FALSE
