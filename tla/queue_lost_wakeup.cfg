CONSTANTS
  Tasks = {t1, t2, t3}
  NONE = NONE
  REGION_COUNT = 2
  RegionSize = 1
  REGION_MASK = 3
  IndexLimit = 4
  Views = {"iter", "slices"}
  MultiThreaded = TRUE
  Cancellation = FALSE
SPECIFICATION FairSpec
PROPERTIES EventuallyBatched
CHECK_DEADLOCK FALSE
