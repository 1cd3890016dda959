SPECIFICATION FairSpec
CONSTANTS
  MaxLineResponse = 3
  MaxBlockResponse = 4
  IOTimeout = 2
  MaxContext = 5
  DialErrors <- MCDialErrors
  Scripts <- MCScripts
INVARIANTS
  TypeOK
  ReadsOneReply
  SuccessIsEarned
  DripBounded
  FailureIsBlamedRight
PROPERTIES
  EveryCommandReturns
