SPECIFICATION Spec
CONSTANTS
  Servers = {s1, s2, s3}
  Flaky = {s3}
  Tickets = {k1, k2}
  Nobody = Nobody
INVARIANTS
  UsesAndChances
  UsesAreBounded
PROPERTIES
  LostSubscriptionStays
  TicketsSpread
