CONSTANTS
  t1 = t1
  t2 = t2
  c3 = c3
  c1 = c1
  c2 = c2
  d1 = d1
  d2 = d2
  None = None
  Threads = {t1, t2}
  ListSites = {c1, c2}
  DynSites = {c3}
  Dispatches = {d1, d2}
  MaxLevel = 2
  Opinions <- MCOpinions
  Hints <- MCHints
SPECIFICATION MCSpec
INVARIANTS LockedCacheJustified WalkFindsAll
PROPERTY CallsReturn
