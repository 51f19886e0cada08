SPECIFICATION FairSpec
CONSTANTS
  PID = {p1}
  Domain = {a, b}
  Flags <- OneOfBoth
  None = None
  MaxEvents = 3
INVARIANTS
  TypeOK
  WatchesItsTarget
  ExplicitNeverFollows
  OneWorkerPerPID
  BPFOutlivesWorkers
  GivenUpForCause
PROPERTIES
  ShutdownEnds
  FollowsRestarts
CHECK_DEADLOCK FALSE
