SPECIFICATION LoopSpec
CONSTANTS
  MaxSets = 3
  MaxSize = 3
  DestroyRejected = FALSE
PROPERTY
  LoopEnds
