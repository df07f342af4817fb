SPECIFICATION FairSpec
CONSTANTS
  k1 = k1
  k2 = k2
  o1 = o1
  o2 = o2
  Checks = {k1}
  Objects = {o1}
  ObjectOf <- Single
  Verdicts = {"OK", "FAIL"}
  MaxRuns = 2
  MaxOthers = 1
  Overlays = {"History", "Help"}
  Home = Home
INVARIANTS
  DetailAgrees
PROPERTIES
  EveryRunIsReported
