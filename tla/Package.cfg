SPECIFICATION PackageSpec
CONSTANTS
  Keys = {"type", "body", "value"}
  Strings = {"body"}
  Others = {"_None"}
  MaxNodes = 8
  INT_MAX = 8
  None = None
INVARIANTS
  TypeOK
  TreeOK
  PreorderOK
  FirstChildOK
  AttributesOK
  BelowRule
  PreconditionMet
  IdsFitArrays
  CsrOrder
PROPERTIES
  LabelsStay
  ImplementsPreorderTree
CHECK_DEADLOCK FALSE
