SPECIFICATION Spec
CONSTANTS
  Keys = {"type", "body", "value"}
  Strings = {"body"}
  Others = {"_None"}
  MaxNodes = 9
INVARIANT
  ListChildrenOfRule
CHECK_DEADLOCK FALSE
