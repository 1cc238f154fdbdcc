\* A tree, then an action on what it lists.
SPECIFICATION UiaSpec
CONSTANTS
  OpOf <- Ops
  MaxThreads = 2
  MAX_STUCK_WORKERS = 2
INVARIANT AbandonedActionStops
CHECK_DEADLOCK FALSE
