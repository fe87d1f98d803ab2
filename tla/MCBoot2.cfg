SPECIFICATION FairBootSpec
CONSTANT
  MaxBoots = 3
INVARIANTS
  XipReady
PROPERTIES
  StatusKept
  BootEnds
CHECK_DEADLOCK FALSE
