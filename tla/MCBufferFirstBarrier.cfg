CONSTANTS
  Ranks = {1, 2}
  Tag = 1024
  MaxCalls = 2
  Leftovers = {0}
SPECIFICATION LifeFairSpec
PROPERTY FirstBarrierReturns
CHECK_DEADLOCK FALSE
