CONSTANTS
  Ranks = {0, 1}
  MaxCalls = 6
  ExpertsPerRank = 2
  BlockM = 2
  NBlocks = 1
  NumTokens = 2
  TopK = 2
  DispatchCU = 1
  CombineCU = 1
  NoExpert = 99
  Layers = {1, 2}
  Programs <- MCPrograms
  Routings <- MCRoutings
SPECIFICATION FairSpec
INVARIANTS MegaTypeOK HandleTablesAgree TilesReadOwnCall GatesNotOvershot ReduceReadsThisCall
PROPERTIES XgmiImplementsBarrier AllKernelsEnd
CHECK_DEADLOCK FALSE
