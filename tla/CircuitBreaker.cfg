SPECIFICATION FairBreakerSpec
CONSTANTS
  c1 = c1
  c2 = c2
  c3 = c3
  Task = {c1, c2, c3}
  Threshold = 3
  Window = 2
  Cooldown = 2
  MaxFailures = 4
  Never = Never
CHECK_DEADLOCK FALSE
INVARIANTS BreakerTypeOK StateMatchesCount
PROPERTIES OpensOnStreak Recloses
