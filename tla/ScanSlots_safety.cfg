SPECIFICATION Spec
CONSTANTS
  s1 = s1
  s2 = s2
  s3 = s3
  s4 = s4
  Scans <- Four
  MaxConcurrentScans = 2
  Targets <- NotOversized
SYMMETRY Interchangeable
INVARIANTS
  TypeOK
  SemCountsHolders
  QueueIsBlocked
  ResourcesWithinSlots
  OnlyRegularStreamed
  DoneHoldsNothing
PROPERTIES
  ImplementsPool
