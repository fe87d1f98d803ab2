SPECIFICATION FairSpec
CONSTANTS
  Rounds = 3
  CrcWords = 2
  CrcReps = 2
  SortLen = 5
  SortReps = 2
  Dim = 2
  MatReps = 2
  FibArg = 6
  RUNS = 3
  Steal = 6
  Polls = 4
  Langs <- MCLangs
  Table <- MCTable
  Duration <- MCDuration
INVARIANTS
  ChecksumsRight
  BlamedForCause
PROPERTIES
  TimesTrue
  BenchEnds
CHECK_DEADLOCK FALSE
