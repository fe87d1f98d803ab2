SPECIFICATION FairSpec
CONSTANTS
  Depth = 8
  MaxAttempts = 24
  Late = 3
  Vector = Vector
  Stack = Stack
  Entry = Entry
  AppWord = AppWord
INVARIANTS
  TrueMeansStarted
  NoStaleEcho
PROPERTIES
  Returns
  Succeeds
CHECK_DEADLOCK FALSE
