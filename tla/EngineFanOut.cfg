SPECIFICATION FairSpec
CONSTANTS
  s1 = s1
  s2 = s2
  N = 4
  Sources = {s1, s2}
  SourceOf <- Alternating
  Transactional = {s1}
  Verdicts = {"FAIL"}
INVARIANTS
  EngineInv
  ResultsInOrder
  EachResultDeliveredOnce
  ErrorsAreLocal
PROPERTIES
  ImplementsEvaluation
  EvaluationEnds
CHECK_DEADLOCK FALSE
