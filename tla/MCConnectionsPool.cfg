\* One connection, two requests and a handler without context; one may wait.  The
\* sessions outside the pool are at rest.
SPECIFICATION PoolSpec
CONSTANTS
  None = None
  Request = {r1, r2, r3}
  Anonymous = {r3}
  Conn = {c1}
  Write = {w1, w2}
  MaxWaiting = 1
  MaxDepth = 2
  MaxFaults = 1
  NoConn = NoConn
  a1 = a1
  a2 = a2
  p1 = p1
  p2 = p2
  Process = {p1, p2}
  Attempt = {a1, a2}
  Host <- OneEach
  Listener = p1
  MaxLosses = 0
  MaxBreaks = 0
INVARIANTS
  HoldersNeverWait
  HooksFollowCommit
  AuditNamesTheMaker
PROPERTIES
  HooksRun
