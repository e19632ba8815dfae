CONSTANTS
  Tasks = {t1, t2, t3, t4, t5, t6}
  NONE = NONE
  REGION_COUNT = 2
  RegionSize = 2
  REGION_MASK = 3
  IndexLimit = 8
  Views = {"slices"}
  MultiThreaded = TRUE
  Cancellation = FALSE
SYMMETRY Symmetry
SPECIFICATION PubSpec
INVARIANTS PubTypeOK NoLoadUnderstates OverwriteIsOrdered FreeIsKnown
CHECK_DEADLOCK FALSE
