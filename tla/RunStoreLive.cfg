SPECIFICATION FairSpec
CONSTANTS
  c1 = c1
  c2 = c2
  c3 = c3
  k1 = k1
  k2 = k2
  s1 = s1
  s2 = s2
  o1 = o1
  NoCall = NoCall
  Calls = {c1, c2}
  Checks = {k1, k2}
  Sources = {s1, s2}
  Objects = {o1}
  SourceOf <- MCSourceOf
  ObjectOf <- MCObjectOf
  Paused = {k2}
  Verdicts = {"OK"}
  Retain = 1
  MaxRunTime = 1
  MaxClock = 1
PROPERTIES
  EveryCallEnds
