SPECIFICATION Spec
CONSTANTS
  w1 = w1
  w2 = w2
  w3 = w3
  Writer = {w1, w2, w3}
  Old = Old
  None = None
  Fsync = TRUE
  Outages = 2
SYMMETRY Symmetry
INVARIANTS TypeOK NeverTorn Durable SidecarNotAhead
