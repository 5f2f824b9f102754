SPECIFICATION Spec
CONSTANTS
  Conns = {c1, c2}
  Cids = {x1, x2, x3, x4, x5}
  Nobody = Nobody
  MaxQueue = 2
INVARIANTS
  TableFollowsQueues
  AssertionHolds
