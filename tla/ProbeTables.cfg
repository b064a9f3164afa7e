SPECIFICATION FairSpec
CONSTANTS
  r1 = r1
  c1 = c1
  m1 = m1
  Run = {r1}
  Cli = {c1}
  Model = {m1}
  Value = {1}
  Ttl = 1
  MaxTime = 2
  None = None
CHECK_DEADLOCK FALSE
INVARIANT Repaired
PROPERTIES NothingLost ThrottlingNeverNarrows Settles
