SPECIFICATION FairSpec
CONSTANTS
  ArgRegs = 2
  IntRegs = 6
  Registers = 8
  Margin = 2
  Width = 8
  Problems <- MCProblems
INVARIANTS TypeOK LostIsReported
PROPERTIES Implements NoNeedlessConflict Terminates
CHECK_DEADLOCK FALSE
