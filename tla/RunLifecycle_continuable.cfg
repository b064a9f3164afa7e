SPECIFICATION Spec
CONSTANTS
  p1 = p1
  p2 = p2
  Proc = {p1}
  N = 2
  DefaultPause = 2
  Unlisted = {}
  Stale = 0
  MaxTime = 1
  None = None
CHECK_DEADLOCK FALSE
INVARIANT Continuable
