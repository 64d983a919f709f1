CONSTANT MaxSeq = 5
SPECIFICATION QueueSpec
INVARIANTS
  RunsInArrivalOrder
  PendingIsBacklog
  NoReadyEntryParked
PROPERTY ImplementsOrderedWrites
CHECK_DEADLOCK FALSE
