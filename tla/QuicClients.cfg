SPECIFICATION Spec
CONSTANTS
  Limit = 2
  MaxQueries = 5
CHECK_DEADLOCK FALSE
INVARIANTS
  QuietOnlyAfterLoss
  CloseIsSent
  VerdictIsPhase
  QueriesPaced
PROPERTIES
  ProgramEnds
