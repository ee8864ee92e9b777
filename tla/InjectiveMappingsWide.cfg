SPECIFICATION Spec
CONSTANTS
  MaxN = 4
  MaxK = 2
  INT_MAX = 1
INVARIANT
  ImagesInRange
