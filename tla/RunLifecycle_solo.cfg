SPECIFICATION FairSpec
CONSTANTS
  p1 = p1
  p2 = p2
  Proc = {p1}
  N = 3
  DefaultPause = 2
  Unlisted = {}
  Stale = 0
  MaxTime = 2
  None = None
CHECK_DEADLOCK FALSE
PROPERTIES NoRepeat Finishes
