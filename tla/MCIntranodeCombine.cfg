CONSTANTS
  Ranks = {1, 2}
  Warps = 3
  NumTokens = 5
  ChunkTokens = 2
  BufTokens = 4
  Routings <- MCRoutings
  MaxCalls = 2
  Receiver = 1
  MaxTraps = 1
SPECIFICATION FairSpec
INVARIANTS TypeOK ReducedRight HeadBehindReaders
PROPERTIES HeadsOnlyAdvance EveryCombineEnds
CHECK_DEADLOCK FALSE
