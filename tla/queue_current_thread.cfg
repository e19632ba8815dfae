CONSTANTS
  Tasks = {t1, t2, t3, t4}
  NONE = NONE
  REGION_COUNT = 2
  RegionSize = 1
  REGION_MASK = 3
  IndexLimit = 8
  Views = {"iter"}
  MultiThreaded = FALSE
  Cancellation = FALSE
SPECIFICATION FairSpec
INVARIANTS BatchesIntact
PROPERTIES EventuallyBatched
CHECK_DEADLOCK FALSE
