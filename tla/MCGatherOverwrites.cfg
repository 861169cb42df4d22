CONSTANTS
  NumRanks = 2
  NumSplits = 2
  Programs <- BackToBack
SPECIFICATION Spec
INVARIANT OwnData
CHECK_DEADLOCK FALSE
