SPECIFICATION ProgramSpec
CONSTANTS
  Programs <- MCPrograms
  Values <- MCValues
  DictOf <- AstToDict
  TextsOf <- Texts
  Keys <- MCKeys
  Strings <- MCStrings
  Others <- MCOthers
  MaxNodes = 60
  INT_MAX = 127
  None = None
INVARIANTS
  AstTreesBuild
CHECK_DEADLOCK FALSE
