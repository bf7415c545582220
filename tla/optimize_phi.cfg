SPECIFICATION Spec
CONSTANTS
  Width = 8
  Units <- MCUntold
  Inputs <- MCInputs
  Pipeline <- MCPipeline
  StepBound = 200
  InlineLimit = 400
INVARIANT SameBehaviour
