SPECIFICATION Spec
CHECK_DEADLOCK FALSE
CONSTANTS
  s1 = s1
  s2 = s2
  k1 = k1
  k2 = k2
  k3 = k3
  MaxRow = 2
  SourceOf <- MCSourceOf
  Checks = {k1, k2, k3}
  ObjectOf <- MCObjectOf
  Verdicts = {"OK", "FAIL"}
  Needles <- MCNeedles
  OffDays = {1}
  Window = 2
  MaxDay = 2
  MaxRuns = 2
SYMMETRY Twins
INVARIANTS
  GridInv
  LiveResultsLand
  GridIsTheStore
