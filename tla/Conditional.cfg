CONSTANTS
  MaxLines = 5
  Indents = {FALSE}
SPECIFICATION Spec
INVARIANTS
  AgreesWithStandard
  LevelsMatch
CHECK_DEADLOCK FALSE
