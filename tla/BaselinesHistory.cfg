SPECIFICATION Spec
CONSTANTS
  r1 = r1
  r2 = r2
  Runners = {r1, r2}
  CheckSpecs <- EveryKind
  MaxRuns = 4
  NULL = NULL
  NoResult = NoResult
  Unreachable = Unreachable
INVARIANTS
  TypeOK
  UnchangedAlarmsOnce
  VerdictMatchesHistory
  BrokenRunsKeepBaseline
PROPERTIES
  NoChangeUnnoticed
SYMMETRY RunnerSymmetry
