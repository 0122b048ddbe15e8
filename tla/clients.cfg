SPECIFICATION FairSpec
CONSTANTS
  Callers = {p1, p2}
  Clients = {zeus, keystone}
  Uncached = {keystone}
  CacheSeconds = 2
  Timeout = 1
  Life = 6
  None = None
INVARIANTS CachedWithinLife RefusalsExplained
PROPERTIES CallsEnd
CHECK_DEADLOCK FALSE
