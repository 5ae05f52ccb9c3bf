\* Two requests in flight over two critical keys and an open one; a window of two
\* seconds in four ticks; room for one key in memory.
SPECIFICATION LimiterSpec
CONSTANTS
  None = None
  Request = {q1, q2}
  Key = {login, refresh, list}
  Critical = {login, refresh}
  Limit = 1
  WindowSeconds = 2
  Second = 2
  MaxTrackedKeys = 1
  MaxTime = 4
  MaxAnswers = 3
  NoRow = NoRow
  NoRequest = NoRequest
  payload = payload
  another = another
  Hash = {payload}
  Changed = {}
  PayloadHash <- Payloads
  MaxCrashes = 0
  MaxFaults = 0
SYMMETRY Symmetry
INVARIANTS
  LimitIsKept
  RetryIsEnough
CHECK_DEADLOCK FALSE
