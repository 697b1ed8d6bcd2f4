CONSTANTS
  OnTermMax = 5
  MaxRegs = 4
  MaxLines = 3
SPECIFICATION FairSpec
INVARIANTS
  AcceptedIsWritten
PROPERTIES
  HandlersInTurn
  ExitEnds
CHECK_DEADLOCK FALSE
