CONSTANTS
  NumRdma = 2
  NvlPeers = 2
  SrcNvl = 1
  NumChannels = 2
  Channel = 1
  SenderWarps = 2
  RdmaSend = 2
  RdmaRecv = 6
  NvlSend = 2
  NvlRecv = 3
  Others = 1
  Routings <- MCRoutings
SPECIFICATION FairSpec
INVARIANTS TypeOK RowsCorrect RdmaSlotsKept NvlSlotsKept HandleConsistent
PROPERTY AllDelivered
CHECK_DEADLOCK FALSE
