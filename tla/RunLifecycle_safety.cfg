SPECIFICATION PatientSpec
CONSTANTS
  p1 = p1
  p2 = p2
  Proc = {p1, p2}
  N = 2
  DefaultPause = 2
  Unlisted = {2}
  Stale = 0
  MaxTime = 1
  None = None
CHECK_DEADLOCK FALSE
SYMMETRY Symmetry
INVARIANTS TypeOK InOrder
PROPERTY KeepsPromise
