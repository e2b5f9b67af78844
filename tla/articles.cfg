SPECIFICATION Spec
CONSTANTS
  Articles = {1, 2, 3}
  Existing = {1}
  Wanted = {1}
  Readers = {r1, r2}
  Calls = 2
  Busy = 3
  Keep = 2
  None = None
  Miss = Miss
  DbFaults = TRUE
  RedisFaults = TRUE
INVARIANTS TypeOK ShowsCommitted LatestKeepsNewest
PROPERTIES CacheConverges ReleaseOnlyOwn
CHECK_DEADLOCK FALSE
