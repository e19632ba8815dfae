CONSTANTS
  Tasks = {t1, t2, t3, t4}
  NONE = NONE
  REGION_COUNT = 2
  RegionSize = 1
  REGION_MASK = 3
  IndexLimit = 8
  Views = {"slices"}
  MultiThreaded = TRUE
  Cancellation = FALSE
SYMMETRY Symmetry
SPECIFICATION PubSpec
INVARIANTS ReadIsOrdered
CHECK_DEADLOCK FALSE
