SPECIFICATION Spec
CONSTANTS
  ChunkSize = 2
  MaxStreamSize = 4
  MaxConsecutiveEmptyReads = 2
  MaxLineResponse = 6
  MaxInput = 5
  SourceEnds <- MCSourceEnds
  DialErrors <- MCDialErrors
  SocketBuffer = 3
  StreamMaxLength = 3
  FinalReplies <- MCFinalReplies
  EarlyReplies <- MCEarlyReplies
  Tcp = TRUE
INVARIANTS
  TypeOK
  JudgesWholeInput
  CleanMeansScanned
  OversizeReported
  ContextBlamed
PROPERTIES
  ImplementsFailClosed
