CONSTANTS
  NumRanks = 2
  Queues <- MCQueues
  NumChannels = 2
  NumTokens = 8
  ChunkTokens = 2
  BufTokens = 3
  NumWorst = 8
  Routings <- MCRoutings
  MaxTraps = 1
SPECIFICATION FairSpec
INVARIANTS TypeOK RowsCorrect NoLiveSlotRewritten HandleConsistent
PROPERTY AllDelivered
CHECK_DEADLOCK FALSE
