CONSTANTS
  Tasks = {t1, t2, t3}
  NONE = NONE
  N = 3
  RuntimeTasks <- Joined
  TaskNeedsDrop = TRUE
  ValueNeedsDrop = TRUE
  Drops = FALSE
  Faults = {}
SPECIFICATION Spec
INVARIANTS NoGarbage
CHECK_DEADLOCK FALSE
