SPECIFICATION Spec
CONSTANTS
  RetryHead <- MCRetryHead
  RetryTail <- MCRetryTail
  Records <- AnyRecord
  Beyond = {0, 1, 255}
  Sent <- Samples
CHECK_DEADLOCK FALSE
INVARIANTS
  AcceptedWithinRecord
  RoundTrip
PROPERTIES
  Consumes
