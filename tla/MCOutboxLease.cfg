\* No batch outlives its lease, nothing is replayed, and nobody listens to e2;
\* one of the listeners of e1 swallows what its handler throws, as the product's does.
SPECIFICATION Spec
CONSTANTS
  w1 = w1
  w2 = w2
  e1 = e1
  e2 = e2
  c1 = c1
  c2 = c2
  c3 = c3
  r1 = r1
  NoRow = NoRow
  NoClaim = NoClaim
  NoEvent = NoEvent
  Worker = {w1, w2}
  Replayer = {}
  Event = {e1, e2}
  Consumer = {c1, c2, c3}
  Listeners <- MixedListeners
  Secret = {e1}
  Aggregate <- SameAggregate
  OccurredAt <- InOrder
  BatchSize = 2
  MaxAttempts = 2
  LeaseCoversBatch = TRUE
  Suppressed = {c3}
  MaxFaults = 2
  MaxReplays = 0
INVARIANTS
  DeadWereExhausted
PROPERTIES
  PromiseSpec
CHECK_DEADLOCK FALSE
