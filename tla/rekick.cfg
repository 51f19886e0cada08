SPECIFICATION Spec
CONSTANTS
  Slot = {0, 1, 2}
  VhostFD = 1
  Dev = {d1, d2}
  Event = {e1, e2}
  EventID = {i1, i2}
  Setting = {on, off}
  Usable = {on}
  None = None
  MaxChanges = 3
SYMMETRY Symmetry
INVARIANT TypeOK
INVARIANT NeverBlocked
INVARIANT RefusalHasReason
PROPERTY KickIsAuthorised
CHECK_DEADLOCK FALSE
