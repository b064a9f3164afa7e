SPECIFICATION Spec
CONSTANTS
  p1 = p1
  p2 = p2
  a = a
  b = b
  g1 = g1
  g2 = g2
  Proc = {p1, p2}
  Cell = {1, 2}
  Pairs <- PairsDef
  Points <- PointsDef
  Hostings <- HostingsDef
  Derived <- DerivedDef
  Sources <- SourcesDef
  MaxStarts = 3
  MaxPerCall = 2
  Group = {g1, g2}
  None = None
SYMMETRY Symmetric
CHECK_DEADLOCK FALSE
INVARIANTS Complete Catalogued Quiet
