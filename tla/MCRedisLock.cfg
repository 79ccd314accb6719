SPECIFICATION Spec
CONSTANTS
  Callers = {c1, c2}
  None = None
  Ttl = 7
  Second = 2
  MaxDelay = 1
  ReplyTimeout = 1
  MaxRetries = 2
INVARIANTS
  WatchedLockIsHeld
PROPERTIES
  OrphanExpires
  AcquireReturns
