CONSTANTS
  Tasks = {t1, t2}
  NONE = NONE
  N = 1
  RuntimeTasks <- Spawned
  TaskNeedsDrop = TRUE
  ValueNeedsDrop = TRUE
  Drops = TRUE
  Faults = {}
SPECIFICATION Spec
INVARIANTS SkippedOnlyIfDropped
CHECK_DEADLOCK FALSE
