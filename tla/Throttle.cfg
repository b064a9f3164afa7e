SPECIFICATION FairSpec
CONSTANTS
  c1 = c1
  c2 = c2
  c3 = c3
  c4 = c4
  thesis = thesis
  tagger = tagger
  Caller = {c1, c2, c3, c4}
  Role = {thesis, tagger}
  RoleOf <- TwoRoles
  InitialBackoff = 3
  MaxBackoff = 3
  Jitter = 0
  InitialConc = 1
  MaxConc = 2
  AdditiveAfter = 1
  RetryAfter = {4}
  None = None
CHECK_DEADLOCK FALSE
INVARIANTS TypeOK CooldownHasLevel
PROPERTIES NeverShortened Recovers
