SPECIFICATION Spec
CONSTANTS
  k1 = k1
  k2 = k2
  o1 = o1
  o2 = o2
  Checks = {k1, k2}
  Objects = {o1, o2}
  ObjectOf <- Apart
  Verdicts = {"OK", "FAIL"}
  MaxRuns = 2
  MaxOthers = 0
  Overlays = {}
  Home = Home
SYMMETRY Mirror
INVARIANTS
  ScreenInv
  DashboardSettles
  NoticeTellsTruth
PROPERTIES
  ReportsStand
