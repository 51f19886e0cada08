SPECIFICATION Spec
CONSTANTS
  IndexMod = 4
  Threshold = 2
  Cooldown = 2
  Maximum = 2
  Hour = 6
  NegInf = NegInf
  NoIdentity = NoIdentity
  Num = 2
  MaxLosses = 3
  MaxClock = 8
  None = None
PROPERTIES
  StallIsCured
  KickIsDue
CHECK_DEADLOCK FALSE
