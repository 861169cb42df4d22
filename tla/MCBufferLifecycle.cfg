CONSTANTS
  Ranks = {1, 2}
  Tag = 1024
  MaxCalls = 3
  Leftovers = {0, 1024}
SPECIFICATION LifeSpec
INVARIANTS LifeTypeOK NoUseAfterFree
PROPERTY BarrierFromFreshMemory
CHECK_DEADLOCK FALSE
