SPECIFICATION Spec
CONSTANTS
  IndexMod = 8
  Threshold = 2
  Cooldown = 1
  Maximum = 1
  Hour = 2
  NegInf = NegInf
  NoIdentity = NoIdentity
  None = None
  FD = {1}
  Samples <- AllSamples
  Mode = "guarded"
  InventoryInterval = 1
  KickInterval = 2
  VerifyTimeout = 2
  MaxClock = 4
  MaxRuns = 0
INVARIANT StallIsEarned
INVARIANT StallIsNoticed
INVARIANT StallReportedOnce
INVARIANT RecoveryIsReal
INVARIANT BudgetHolds
CHECK_DEADLOCK FALSE
