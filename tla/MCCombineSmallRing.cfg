CONSTANTS
  Ranks = {1, 2}
  Warps = 3
  NumTokens = 5
  ChunkTokens = 2
  BufTokens = 3
  Routings <- MCRoutings
  MaxCalls = 1
  Receiver = 1
  MaxTraps = 0
SPECIFICATION FairSpec
PROPERTY EveryCombineEnds
CHECK_DEADLOCK FALSE
