SPECIFICATION Spec
CONSTANTS
  CPU = {c1, c2}
  Delay = 1
  Window = 1
  Drops = 1
  RecoverAfter = 1
  LoadBy = 1
  MaxClock = 4
  MaxRuns = 2
SYMMETRY CPUSymmetry
INVARIANTS
  TypeOK
  DropsBounded
  ModuleGoneIsQuiet
  OnlyTargetGated
  SuccessLeavesNoStall
  VerdictIsTrue
CHECK_DEADLOCK FALSE
