SPECIFICATION Spec
CONSTANTS
  Retentions = {0, 1}
  MaxTime = 2
  MaxBoots = 2
  MaxSamples = 3
  MaxCount = 2
  MaxFaults = 2
INVARIANTS
  FileSound
  NothingLost
  CountsExact
CHECK_DEADLOCK FALSE
