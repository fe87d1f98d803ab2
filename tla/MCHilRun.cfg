SPECIFICATION FairSpec
CONSTANTS
  N = 3
  Starts = 2
  Flaky = TRUE
  Buggy = TRUE
  RttTest = 2
  Polls = 3
  Wrap = 4
  Timely = TRUE
INVARIANTS
  NoFalseAlarm
PROPERTIES
  SuiteVerdictTrue
  HostStops
CHECK_DEADLOCK FALSE
