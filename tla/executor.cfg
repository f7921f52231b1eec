SPECIFICATION FairSpec
CONSTANTS
  Workers = {1, 2}
  Plans <- SomePlans
CHECK_DEADLOCK FALSE
INVARIANTS
  QueueHasWorker
PROPERTIES
  ImplementsTaskGraph
  EveryPlanEnds
