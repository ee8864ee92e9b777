SPECIFICATION Spec
CONSTANTS
  MaxN = 4
  MaxK = 4
  INT_MAX = 127
INVARIANTS
  TypeOK
  PrefixOK
  YieldedExactly
  MemoryOK
PROPERTIES
  SearchAdvances
  ImplementsEnumerator
