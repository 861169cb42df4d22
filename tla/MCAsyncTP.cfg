CONSTANTS
  NumRanks = 2
  NumSplits = 2
  Programs <- MCPrograms
SPECIFICATION FairSpec
INVARIANTS TypeOK OwnDataUnlessGatherFollows
PROPERTIES BarrierImplemented AllCallsEnd
CHECK_DEADLOCK FALSE
