CONSTANTS
  Tasks = {t1, t2, t3}
  NONE = NONE
  Queues = {q1, q2}
  Capacity = 2
  RegionSize = 1
  Reducers = {t1}
  Background = {t2}
SPECIFICATION FairSpec
INVARIANTS TypeOK WaitersAreRegistered BatchHasCollector EachTaskCountsOnce
PROPERTIES AcceptedIsProcessed
CHECK_DEADLOCK FALSE
