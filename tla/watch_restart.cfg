SPECIFICATION Spec
CONSTANTS
  IndexMod = 8
  Threshold = 1
  Cooldown = 3
  Maximum = 1
  Hour = 5
  NegInf = NegInf
  NoIdentity = NoIdentity
  None = None
  FD = {1}
  Samples <- OneSample
  Mode = "guarded"
  InventoryInterval = 2
  KickInterval = 2
  VerifyTimeout = 2
  MaxClock = 5
  MaxRuns = 1
INVARIANT AdvertisedBudget
CHECK_DEADLOCK FALSE
