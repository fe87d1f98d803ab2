SPECIFICATION FairSpec
CONSTANTS
  Langs <- MCLangs
  Sessions = 2
  Pairs = 3
  Polls = 4
  UsesCore1 = TRUE
INVARIANTS
  NeverWedged
PROPERTIES
  DoneIsComplete
  FreshUnlessFailed
  SessionEnds
CHECK_DEADLOCK FALSE
