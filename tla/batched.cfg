SPECIFICATION Spec
CONSTANTS
  IndexMod = 8
  Threshold = 1
  Cooldown = 1
  Maximum = 1
  Hour = 7
  NegInf = NegInf
  NoIdentity = NoIdentity
  None = None
  FD = {1}
  Samples <- AllSamples
  Rings <- AllRings
  InventoryInterval = 2
  VerifyTimeout = 2
  MaxQueues = 1
  MaxClock = 8
INVARIANT TypeOK
INVARIANT StallIsConfirmed
INVARIANT RecoveryIsReal
INVARIANT StallReportedOnce
INVARIANT BudgetHolds
CONSTRAINT LongIfStuck
CHECK_DEADLOCK FALSE
