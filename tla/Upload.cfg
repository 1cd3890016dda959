SPECIFICATION FairUploads
CONSTANTS
  r1 = r1
  r2 = r2
  Requests <- MCRequests
  MaxScans = 1
  Kinds <- MCKinds
  ScanErrors <- MCScanErrors
INVARIANTS
  AnsweredRight
PROPERTIES
  UploadsAnswered
