CONSTANTS
  Ranks = {1, 2}
  MaxCalls = 9
  Programs <- MCPrograms
  MaxThrows = 2
SPECIFICATION SessionFairSpec
INVARIANTS SessionTypeOK SizedByOwnCounts DataOnCleanQueues MetadataApart
PROPERTY AllCallsComplete
CHECK_DEADLOCK FALSE
