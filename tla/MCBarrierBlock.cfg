CONSTANTS
  Ranks = {1, 2}
  Tag = 1024
  MaxCalls = 4
SPECIFICATION FairSpec
INVARIANT TypeOK
PROPERTIES BarrierImplemented CompleteBarrierReturns
CHECK_DEADLOCK FALSE
