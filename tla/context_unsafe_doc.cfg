SPECIFICATION Spec
CONSTANTS
  a = a  b = b  NoHost = NoHost
  Hosts = {a, b}
  MaxServers = 1
  Worlds <- UnsafeAnswer
CHECK_DEADLOCK FALSE
INVARIANTS
  BlockingKeepsTheProxy
