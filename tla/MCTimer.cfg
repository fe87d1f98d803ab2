SPECIFICATION Spec
CONSTANTS
  Wrap = 32
  PerMs = 10
  PerUs = 4
  Gap = 2
  SleepUs = {0, 1, 6, 20}
  SleepMs = {0, 1, 2}
  FifoUs = {1, 5}
  Delay = 5
  Patience = 20
INVARIANTS
  EndsInTime
  AlarmNotMissed
  EachAlarmCounted
PROPERTIES
  LastsLongEnough
CHECK_DEADLOCK FALSE
