CONSTANTS
  Tasks = {t1, t2, t3, t4, t5}
  NONE = NONE
  REGION_COUNT = 2
  RegionSize = 1
  REGION_MASK = 3
  IndexLimit = 4
  Views = {"iter"}
  MultiThreaded = TRUE
  Cancellation = FALSE
SPECIFICATION Spec
SYMMETRY Symmetry
INVARIANTS BatchesIntact
CHECK_DEADLOCK FALSE
