SPECIFICATION Spec
CONSTANTS
  Streams = {s1, s2}
  MaxEvents = 2
  MaxData = 1
CHECK_DEADLOCK FALSE
INVARIANTS
  TypeOK
  ToldInOrder
  SessionsEnd
  ResultsWhole
  WaitsOnlyForServer
  PushesWhole
PROPERTIES
  ClosedIsOver
