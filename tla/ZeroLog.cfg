SPECIFICATION FairSpec
CONSTANTS
  Capacity = 2
  Burst = 2
INVARIANTS QueueIsEndOfFile ReportIsRight ClosedIsUnused
PROPERTIES StopEnds BothGoOn
CHECK_DEADLOCK FALSE
