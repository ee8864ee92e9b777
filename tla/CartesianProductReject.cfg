SPECIFICATION Spec
CONSTANTS
  MaxSets = 3
  MaxSize = 3
  DestroyRejected = TRUE
INVARIANT
  FreesOnlyAllocated
