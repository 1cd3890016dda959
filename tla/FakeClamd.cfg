SPECIFICATION FairSpec
CONSTANTS
  c1 = c1
  c2 = c2
  k1 = k1
  k2 = k2
  Conns <- MCConns
  Closers <- MCClosers
  Responses <- MCResponses
INVARIANTS
  TypeOK
  ClosedIsQuiet
PROPERTIES
  DoneWakesHandlers
  CloseReturns
