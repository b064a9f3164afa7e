SPECIFICATION FairSpec
CONSTANTS
  c1 = c1
  c2 = c2
  Call = {c1, c2}
  Fed = {c2}
  Timeout = 2
  Grace = 2
INVARIANTS TypeOK NoLeak Bounded Watched
PROPERTY Returns
