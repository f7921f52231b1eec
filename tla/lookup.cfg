SPECIFICATION Spec
CONSTANTS
  host = host
  long = long
  Names = {host, long}
  NoName = NoName
  TooLong = {long}
  Reply = Reply
  MaxAttempts = 3
CHECK_DEADLOCK FALSE
INVARIANTS
  WaitHasDeadline
  QuerySpoiltByAnswerOnly
PROPERTIES
  ImplementsLookupContract
