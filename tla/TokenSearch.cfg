SPECIFICATION SearchSpec
CONSTANTS
  Batch = 20
  MinFloor = 1024
  Rounds = 32
  Powers <- SomePowers
  Sentinel = 2147483647
  MaxLost = 1
  Caps <- SomeCaps
  Leasts = {1, 3, 1100}
  Floors = {0, 1024, 32768}
  Ceilings = {1024, 1026, 1060, 16384, 393216}
  Reports <- SomeReports
  NoCap = NoCap
CHECK_DEADLOCK FALSE
INVARIANTS Sound Tight Converges
