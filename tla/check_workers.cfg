SPECIFICATION FairSpec
CONSTANTS
  r1 = r1  r2 = r2  a = a  b = b  aProxy = aProxy  bProxy = bProxy
  x = x  y = y
  NoName = NoName  NoPort = NoPort
  Requests = {r1, r2}
  Names = {a, b}
  Fallback <- MCFallback
  TooLong = {}
  Ports = {443}
  Addresses = {x, y}
  Acceptable = {x, y}
  Lifespan = 1
  CacheSizeLimit = 1
  MaxTime = 2
  MaxCallbacks = 1
CHECK_DEADLOCK FALSE
INVARIANTS
  PendingExcludesCache
  CountdownExact
  VouchedByPeer
PROPERTIES
  EveryRequestAnswered
