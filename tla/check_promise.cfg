SPECIFICATION Spec
CONSTANTS
  r1 = r1  r2 = r2  a = a  b = b  aProxy = aProxy  bProxy = bProxy
  x = x  y = y
  NoName = NoName  NoPort = NoPort
  Requests = {r1, r2}
  Names = {a, aProxy, b, bProxy}
  Fallback <- MCFallback
  TooLong = {bProxy}
  Ports = {443}
  Addresses = {x, y}
  Acceptable = {x}
  Lifespan = 1
  CacheSizeLimit = 0
  MaxTime = 2
  MaxCallbacks = 2
CHECK_DEADLOCK FALSE
INVARIANTS
  WaitersArePending
  AnsweredAtMostOnce
  PendingHasRunner
  AnswersAcceptable
  CacheBounded
PROPERTIES
  FreshTrust
  ImplementsHostTrust
