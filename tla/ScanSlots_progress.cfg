SPECIFICATION FairSpec
CONSTANTS
  s1 = s1
  s2 = s2
  s3 = s3
  s4 = s4
  Scans <- Three
  MaxConcurrentScans = 1
  Targets <- FileOrFifo
PROPERTIES
  CancelledReturns
  EveryCallReturns
