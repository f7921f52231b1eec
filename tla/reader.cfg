SPECIFICATION FairSpec
CONSTANTS
  Header = 2
  MaxLength = 7
  Wires <- AnyWires
CHECK_DEADLOCK FALSE
INVARIANTS
  BufferInBounds
  BufferHoldsStream
  RecordsWhole
  ReadsWithinRecord
PROPERTIES
  EveryRecordDelivered
