SPECIFICATION FairSpec
CONSTANTS
  p1 = p1
  p2 = p2
  p3 = p3
  Proc = {p1, p2}
  Holder <- SharedHolders
  HolderOf <- SharedHolder
  Ttl = 2
  MaxTime = 3
  MaxFence = 3
  MaxClones = 1
  NoRow = NoRow
  NoProc = NoProc
CHECK_DEADLOCK FALSE
INVARIANTS TypeOK NoOrphanRow
PROPERTY HeartbeatEnds
