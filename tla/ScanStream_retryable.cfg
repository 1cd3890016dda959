SPECIFICATION Spec
CONSTANTS
  ChunkSize = 2
  MaxStreamSize <- MCNoSizeLimit
  MaxConsecutiveEmptyReads = 2
  MaxLineResponse = 6
  MaxInput = 3
  SourceEnds <- MCSourceEnds
  DialErrors <- MCDialErrors
  SocketBuffer = 2
  StreamMaxLength = 0
  FinalReplies <- MCFewReplies
  EarlyReplies <- MCFewReplies
  Tcp = TRUE
INVARIANTS
  InputErrorsNotRetryable
