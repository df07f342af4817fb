SPECIFICATION SessionSpec
CHECK_DEADLOCK FALSE
CONSTANTS
  c1 = c1
  c2 = c2
  k1 = k1
  s1 = s1
  o1 = o1
  r1 = r1
  NoCall = NoCall
  NoTable = NoTable
  NoRow = NoRow
  Calls = {c1, c2}
  Readers = {r1}
  Checks = {k1}
  Sources = {s1}
  Objects = {o1}
  SourceOf <- MCSourceOf
  ObjectOf <- MCObjectOf
  AddedColumns <- MCAddedColumns
  Paused = {}
  Verdicts = {"OK", "FAIL"}
  Retain = 1
  MaxRunTime = 1
  MaxClock = 2
SYMMETRY CallSymmetry
INVARIANTS
  OpenStoreIsCurrent
  PageMatchesHeader
