CONSTANTS
  Tasks = {t1, t2, t3, t4}
  NONE = NONE
  N = 2
  RuntimeTasks <- Spawned
  TaskNeedsDrop = TRUE
  ValueNeedsDrop = TRUE
  Drops = FALSE
  Faults = {}
SPECIFICATION FairSpec
INVARIANTS ReceiverInPlace NoGarbage TakesInitialised
PROPERTIES EachTaskResolves
CHECK_DEADLOCK FALSE
