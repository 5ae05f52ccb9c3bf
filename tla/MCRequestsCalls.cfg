\* Three deliveries of one call and another call under its key.  The constants of the
\* limiter, which is at rest, are least.
SPECIFICATION CallsSpec
CONSTANTS
  NoRow = NoRow
  NoRequest = NoRequest
  Request = {r1, r2, r3, r4}
  payload = payload
  another = another
  Hash = {payload, another}
  Changed = {r4}
  PayloadHash <- Payloads
  MaxCrashes = 1
  MaxFaults = 1
  None = None
  Key = {}
  Critical = {}
  Limit = 1
  WindowSeconds = 1
  Second = 1
  MaxTrackedKeys = 1
  MaxTime = 0
  MaxAnswers = 0
INVARIANTS
  OneExecution
  NoRepeatedEffect
  AnswersMatchPayload
PROPERTIES
  OrphanIsReclaimed
CHECK_DEADLOCK FALSE
