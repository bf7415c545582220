SPECIFICATION Spec
CONSTANTS
  Programs <- Rotation
  Pipeline <- FullPipeline
  RunAfter <- RunLast
INVARIANT SameBehaviour
CHECK_DEADLOCK FALSE
