SPECIFICATION FairSpec
CONSTANTS
  s1 = s1
  s2 = s2
  s3 = s3
  s4 = s4
  Scans <- Two
  MaxConcurrentScans = 0
  Targets <- PathKinds
PROPERTIES
  EveryCallReturns
