SPECIFICATION FairSpec
CONSTANTS
  r1 = r1  r2 = r2  a = a  b = b  aProxy = aProxy  bProxy = bProxy
  x = x  y = y
  NoName = NoName  NoPort = NoPort
  Requests = {r1}
  Names = {a, aProxy}
  Fallback <- MCFallback
  TooLong = {}
  Ports = {443}
  Addresses = {x, y}
  Acceptable = {x}
  Lifespan = 1
  CacheSizeLimit = 1
  MaxTime = 0
  MaxCallbacks = 1
CHECK_DEADLOCK FALSE
PROPERTIES
  EveryRequestAnswered
