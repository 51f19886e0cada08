SPECIFICATION FairSpec
CONSTANTS
  IndexMod = 8
  Threshold = 2
  Cooldown = 2
  Maximum = 1
  Hour = 3
  NegInf = NegInf
  NoIdentity = NoIdentity
  None = None
  FD = {1}
  Samples <- TwoSamples
  Mode = "periodic"
  InventoryInterval = 2
  KickInterval = 2
  VerifyTimeout = 1
  MaxClock = 5
  MaxRuns = 1
INVARIANT PeriodicCadence
INVARIANT RecoveryIsReal
PROPERTY CancelStops
CHECK_DEADLOCK FALSE
