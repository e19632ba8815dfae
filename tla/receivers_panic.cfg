CONSTANTS
  Tasks = {t1, t2, t3}
  NONE = NONE
  N = 3
  RuntimeTasks <- Spawned
  TaskNeedsDrop = TRUE
  ValueNeedsDrop = TRUE
  Drops = TRUE
  Faults = {"panic"}
SPECIFICATION Spec
INVARIANTS TakesInitialised
CHECK_DEADLOCK FALSE
