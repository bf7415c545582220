SPECIFICATION BackEndSpec
CONSTANTS
  ArgRegs = 2
  IntRegs = 6
  Registers = 30
  Margin = 10
  Problems <- MCProblems
  SaveSlots = 4
  Pads = {2, 3}
  Width = 8
  Imm8Max = 20
  Imm12Max = 64
  Units <- MCUnits
  Inputs <- MCInputs
INVARIANTS BackEndTypeOK LiveIsCovered ValuesKeepApart BackEndSucceeds SameBehaviour CallerFindsItsRegisters
CHECK_DEADLOCK FALSE
