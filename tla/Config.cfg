SPECIFICATION Spec
CONSTANTS
  MaxChunkSize = 3
  Defaults <- MCDefaults
  Values <- MCValues
  MaxOptions = 3
INVARIANTS
  NewDecides
