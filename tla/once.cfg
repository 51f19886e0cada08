SPECIFICATION Spec
CONSTANTS
  VM = {v1, v2, v3}
  Slot = {1, 2}
  None = None
SYMMETRY Symmetric
INVARIANTS
  SuccessIsComplete
  FailuresAreIsolated
CHECK_DEADLOCK FALSE
