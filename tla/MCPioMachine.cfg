SPECIFICATION MachineSpec
CONSTANTS
  Slots = 3
  Futures = 2
  FieldWords = 1
  SetupWords = 1
  Delays <- MCDelays
  Sides <- MCSides
  SideCounts <- MCCounts
INVARIANTS
  PendingCounts
  JumpsGoHome
  RunsOwnProgram
  FieldsDecode
CHECK_DEADLOCK FALSE
