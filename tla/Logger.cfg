SPECIFICATION Spec
CONSTANTS
  INT_MAX = 3
  Levels <- MCLevels
  None = None
INVARIANTS
  LevelReadBack
  LevelInForce
  NullStreamsUnused
CHECK_DEADLOCK FALSE
