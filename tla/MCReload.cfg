SPECIFICATION Spec
CONSTANTS
  t1 = t1
  t2 = t2
  Threads = {t1, t2}
  Sites <- MCSites
  Records <- MCRecords
  Ignored = {"hyper"}
  Filters <- MCFilters
  CacheConfigs <- MCCacheConfigs
  Sentinel = Sentinel
  NoSite = NoSite
  LogLevels = {2}
  Trace = 2
  MaxChanges = 2
SYMMETRY Symmetry
INVARIANTS
  ReloadExact
  LogCacheFresh

  
CONSTRAINT OneFault
