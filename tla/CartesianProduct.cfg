SPECIFICATION Spec
CONSTANTS
  MaxSets = 3
  MaxSize = 3
  DestroyRejected = FALSE
INVARIANTS
  TypeOK
  CounterOK
  YieldedExactly
  FreesOnlyOwn
PROPERTIES
  CounterAdvances
  ImplementsEnumerator
