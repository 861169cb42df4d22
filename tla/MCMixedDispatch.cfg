CONSTANTS
  Ranks = {1, 2}
  MaxCalls = 6
  Programs <- MixedPrograms
  MaxThrows = 0
SPECIFICATION SessionSpec
INVARIANT SizedByOwnCounts
CHECK_DEADLOCK FALSE
