SPECIFICATION FairSpec
CONSTANTS
  IOTimeout = 3
  SalvageTimeout = 2
  MaxContext = 5
INVARIANTS
  TypeOK
  AbortReachesIO
  WithinContext
  TimeoutIsTransport
PROPERTIES
  CancelIsPrompt
  StallEnds
