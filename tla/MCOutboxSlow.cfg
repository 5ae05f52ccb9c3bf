\* A batch may outlive its lease: two dispatchers process one row.
SPECIFICATION FairSpec
CONSTANTS
  w1 = w1
  w2 = w2
  e1 = e1
  e2 = e2
  c1 = c1
  c2 = c2
  c3 = c3
  r1 = r1
  NoRow = NoRow
  NoClaim = NoClaim
  NoEvent = NoEvent
  Worker = {w1, w2}
  Replayer = {r1}
  Event = {e1}
  Consumer = {c1}
  Listeners <- AloneOneListener
  Secret = {e1}
  Aggregate <- AloneOne
  OccurredAt <- AloneOne
  BatchSize = 1
  MaxAttempts = 2
  LeaseCoversBatch = FALSE
  Suppressed = {}
  MaxFaults = 1
  MaxReplays = 2
INVARIANTS
  EffectOnce
  EffectsSeeOriginal
PROPERTIES
  EventuallySettled
CHECK_DEADLOCK FALSE
