SPECIFICATION Spec
CONSTANTS
  MaxQueries = 3
  MaxTime = 3
  Modulus = 2
  MaxRuns = 2
CHECK_DEADLOCK FALSE
INVARIANTS
  AnswersAreMatched
  DelaysNotOverstated
  AnalysisAgrees
  RegisteredWhileAsking
