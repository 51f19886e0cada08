SPECIFICATION FairSpec
CONSTANTS
  CPU = {c1}
  Delay = 0
  Window = 1
  Drops = 1
  RecoverAfter = 1
  LoadBy = 1
  MaxClock = 3
  MaxRuns = 1
PROPERTIES
  ProbeExpires
  StallEnds
CHECK_DEADLOCK FALSE
