SPECIFICATION MCSpec
CONSTANTS
  Graphs = {g1, g2}
  MaxNodes = 3
  MaxEdges = 2
  Attributes = {1, 6}
  INT_MAX = 1
  None = None
INVARIANTS
  TypeOK
  InBounds
  LeakedByRaises
  EdgesLeadToNodes
PROPERTIES
  ImplementsGraphStore
  MatchPrintsBoth
CHECK_DEADLOCK FALSE
