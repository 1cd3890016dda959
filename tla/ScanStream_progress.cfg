SPECIFICATION FairSpec
CONSTANTS
  ChunkSize = 2
  MaxStreamSize <- MCNoSizeLimit
  MaxConsecutiveEmptyReads = 2
  MaxLineResponse = 6
  MaxInput = 3
  SourceEnds <- MCFewEnds
  DialErrors <- MCDialErrors
  SocketBuffer = 2
  StreamMaxLength = 0
  FinalReplies <- MCFewReplies
  EarlyReplies <- MCFewReplies
  Tcp = TRUE
PROPERTIES
  CancelledReturns
  EveryCallReturns
