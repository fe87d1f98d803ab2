SPECIFICATION FairCountSpec
CONSTANTS
  N = 12
  Stale = {0, 3}
INVARIANTS
  MutualExclusion
  CompareSeesTotal
PROPERTIES
  ImplementsCounter
  TestEnds
CHECK_DEADLOCK FALSE
