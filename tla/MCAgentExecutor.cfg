\* Two runs that share a cache of one context; the gateway may do nothing.
SPECIFICATION ExecutorLiveSpec
CONSTANTS
  Tasks = {t1, t2}
  CacheLimit = 1
INVARIANTS
  TimersMatchWaits
  ConnectedIsClosed
PROPERTIES
  NothingAfterResult
  EveryRunEnds
CHECK_DEADLOCK FALSE
