SPECIFICATION FairSpec
CONSTANTS
  Base = 2
  MaxChunkSize = 3
  DefaultChunkSize = 2
  MaxFakeChunk = 3
  Inputs <- MCInputs
  ChunkSizes <- MCChunkSizes
  MaxSizes <- MCMaxSizes
  StreamLimits <- MCStreamLimits
  EarlyAfters <- MCEarlyAfters
INVARIANTS
  DecodesWhatWasRead
PROPERTIES
  CompleteIsUnderstood
