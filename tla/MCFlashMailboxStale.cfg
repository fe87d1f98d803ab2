SPECIFICATION Spec
CONSTANTS
  Langs <- MCLangs
  Sessions = 2
  Pairs = 3
  Polls = 4
  UsesCore1 = FALSE
PROPERTIES
  FreshResult
CHECK_DEADLOCK FALSE
