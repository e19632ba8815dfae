CONSTANTS
  Tasks = {t1, t2, t3}
  NONE = NONE
  N = 3
  RuntimeTasks <- Spawned
  TaskNeedsDrop = TRUE
  ValueNeedsDrop = TRUE
  Drops = TRUE
  Faults = {"panic", "abandon", "short"}
SPECIFICATION FairSpec
INVARIANTS TypeOK ReceiverInPlace NoGarbage SkippedOnlyIfDropped NoLeakedValue SpinHasWriter
PROPERTIES EachTaskResolves DropTerminates
CHECK_DEADLOCK FALSE
