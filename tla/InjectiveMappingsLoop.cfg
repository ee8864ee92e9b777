SPECIFICATION LoopSpec
CONSTANTS
  MaxN = 4
  MaxK = 4
  INT_MAX = 127
PROPERTY
  LoopEnds
