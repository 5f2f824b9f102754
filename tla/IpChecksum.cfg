SPECIFICATION ChecksumSpec
CONSTANTS
  Base = 4
  Words = 5
  Field = 3
INVARIANTS
  SumIsExact
  ReceiverAccepts
