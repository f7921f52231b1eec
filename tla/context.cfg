SPECIFICATION FairSpec
CONSTANTS
  a = a  b = b  NoHost = NoHost
  Hosts = {a, b}
  MaxServers = 4
  Worlds <- AnyWorld
CHECK_DEADLOCK FALSE
INVARIANTS
  TypeOK
  RelayedInOrder
  NothingRefusedIsSent
  PairedMutually
  CrashOnlyAfterStop
  MismatchIsLast
PROPERTIES
  StopReleasesAll
  EveryRecordRelayed
