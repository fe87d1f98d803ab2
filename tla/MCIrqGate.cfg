SPECIFICATION FairGateSpec
CONSTANTS
  N = 2
  RUNS = 2
  MaxCount = 1
  Glitches = 1
  Langs <- MCLangs
  Old = "mojo"
  Polls = 2
INVARIANTS
  SampleIsItsPulse
  OwnResult
  RaisedForCause
  ClockNeverLost
PROPERTIES
  GateEnds
CHECK_DEADLOCK FALSE
