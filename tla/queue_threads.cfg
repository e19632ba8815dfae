CONSTANTS
  Tasks = {t1, t2, t3, t4, t5, t6}
  NONE = NONE
  REGION_COUNT = 2
  RegionSize = 2
  REGION_MASK = 3
  IndexLimit = 4
  Views = {"slices"}
  MultiThreaded = TRUE
  Cancellation = TRUE
SPECIFICATION Spec
SYMMETRY Symmetry
INVARIANTS TypeOK IInv ExclusiveWrite BatchesIntact NeverWronglyFree OneOpenBatch
PROPERTIES RefusedOnlyIfOccupied ImplementsBatchQueue
CHECK_DEADLOCK FALSE
