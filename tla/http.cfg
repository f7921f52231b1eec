SPECIFICATION FairSpec
CONSTANTS
  Callers = {1, 2}
  Attempts <- MCAttempts
  Names = {"ocsp", "crl", "site", "evil", "localhost"}
  Addresses = {"9.9.9.9", "23.1.2.3", "1.1.1.1", "127.0.0.1"}
  BlockedNames = {"evil"}
  BlockedAddresses = {"9.9.9.9"}
  Malformed = {"localhost"}
  ShortAddresses = {"9.9.9.9", "1.1.1.1"}
  Zone <- MCZone
  Servers = 2
  CacheLimit = 1
  OcspHosts = {"ocsp", "crl"}
  Exposed = {2}
  ForwardTo = "127.0.0.1"
  Heads <- MCHeads
  Unreachable = {"23.1.2.3"}
  Chunks <- MCChunks
INVARIANTS
  ReadsOwnAnswer NeverToBlocked ClosedAfterWholeStream
PROPERTIES
  EveryLookupEnds
CHECK_DEADLOCK FALSE
