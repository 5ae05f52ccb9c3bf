\* Two sessions, in one clone or in two.
SPECIFICATION Spec
CONSTANTS
  None = None
  a = a
  b = b
  here = here
  there = there
  Session <- Sessions
  Clone <- Clones
  Version = {1, 2}
  MaxCommits = 3
CONSTRAINT InOrder
SYMMETRY Symmetry
INVARIANTS
  CutterHoldsLease
  OneLiveRun
  StageIsTrue
