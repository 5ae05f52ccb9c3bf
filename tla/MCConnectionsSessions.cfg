\* Two processes, an attempt in each, a client in the first.  The pool is at rest.
SPECIFICATION SessionsSpec
CONSTANTS
  a1 = a1
  a2 = a2
  p1 = p1
  p2 = p2
  None = None
  NoConn = NoConn
  Process = {p1, p2}
  Attempt = {a1, a2}
  Host <- OneEach
  MaxLosses = 2
  Conn = {c1, c2}
  MaxBreaks = 2
  MaxFaults = 2
  Listener = p1
  Request = {}
  Anonymous = {}
  Write = {}
  MaxWaiting = 1
  MaxDepth = 1
INVARIANTS
  OneRun
  NoSpareSession
PROPERTIES
  LockIsFreed
  ClientRecovers
